----------------------------- MODULE ServerProofs -----------------------------
(***************************************************************************)
(* The server between its client and its managers, for any number of       *)
(* managers, any client and any number of requests; and the base protocol  *)
(* that brings it what the client writes, for any frames.                  *)
(***************************************************************************)
EXTENDS LanguageServer, Framing, CompileProtocolProofs, FiniteSetTheorems, WellFoundedInduction

Tokens == {NoResult} \cup (Managers \X Packages \X Nat)
Methods == {"register", "configuration", "progress", "refresh"}
Sendings == [method : Methods, token : Tokens]
Expected == [id : Nat, method : Methods, token : Tokens]
Mail == [kind : {"document", "symbol", "didOpen"}, id : Nat]
Asks == [kind : RequestKinds, id : Ids, of : Managers \cup {NoResult, "object"}]
Tells == [kind : {"initialized", "didOpen", "settings", "exit"},
          of : Managers \cup {NoResult} \cup Nat]
Responses == [kind : {"response"}, id : Nat, ok : BOOLEAN, result : Nat]
Messages == Asks \cup Tells \cup Responses

ServerTyped ==
  /\ wire \in Seq(Messages)
  /\ mail \in [Managers -> Seq(Mail)]
  /\ sends \in Seq(Sendings)
  /\ expecting \in Seq(Expected)
  /\ toAnswer \subseteq Expected
  /\ idGen \in Nat /\ sent \in Nat /\ mine \in Nat
  /\ workspaces \subseteq Managers
  /\ state \in {"uninitialized", "initialized", "shuttingDown"}
  /\ initialized \in {"no", "yes", "gone"}

\* The requests of the server have ids of their own, and those the client has
\* not answered are expected.
Expectations ==
  /\ \A i, j \in 1..Len(expecting) : i # j => expecting[i].id # expecting[j].id
  /\ \A i \in 1..Len(expecting) : expecting[i].id < idGen
  /\ \A r \in toAnswer : \E i \in 1..Len(expecting) : expecting[i] = r

\* A response on its way is expected, and is the only one to its request.
OnTheirWay ==
  \A k \in 1..Len(wire) : wire[k].kind = "response" =>
    /\ \E i \in 1..Len(expecting) : expecting[i].id = wire[k].id
    /\ \A r \in toAnswer : r.id # wire[k].id
    /\ \A l \in 1..Len(wire) : wire[l].kind = "response" /\ l # k => wire[l].id # wire[k].id

\* Before initialize, whatever has been said, there is nothing to ask the client
\* about: the ids may start anew.
NothingYet ==
  state = "uninitialized" =>
    /\ initialized # "yes" /\ workspaces = {}
    /\ sends = <<>> /\ expecting = <<>> /\ mailbox = <<>> /\ pending = <<>>
    /\ \A m \in Managers : mail[m] = <<>> /\ finished[m] = <<>>

EInv == ServerTyped /\ Expectations /\ OnTheirWay /\ NothingYet

------------------------------------------------------------------------------
(* The protocol between managers and compiler.                             *)

\* Every step of the server is one of the protocol, or none of its business.
LEMMA StepIsProtocol == [ServerNext]_allVars => [Next]_vars
<1> SUFFICES ASSUME [ServerNext]_allVars PROVE [Next]_vars
  OBVIOUS
<1>1. CASE ClientStep
  BY <1>1 DEF ClientStep, SendInitialize, SendInitialized, SendSettings, SendExit, SendRequest,
              SendOpen, ClientAct
<1>2. CASE Responds
  BY <1>2 DEF Responds, Respond
<1>3. CASE HandleWire
  BY <1>3 DEF HandleWire, RequestRefused, HandleInitialize, IgnoreInitialize, HandleRouted,
              HandleSymbol, HandleShutdown, HandleUnknown, HandleInitialized, HandleDidOpen, HandleSettings,
              HandleExit, HandleResponse, Receive
<1>4. CASE SendToClient \/ Dispose
  BY <1>4 DEF SendToClient, Dispose
<1>5. ASSUME NEW m \in Managers, ManagerStep(m) PROVE [Next]_vars
  BY <1>5 DEF ManagerStep, AnswerDocument, FindSymbols, DoneCompiling, OpenAndCompile, Next
<1>6. CASE Aggregate
  BY <1>6 DEF Aggregate, AddResults
<1>7. CASE TakeSettings
  BY <1>7 DEF TakeSettings, Next, CompilerStep
<1>8. CASE RunCompiler
  BY <1>8 DEF RunCompiler, Next, CompilerStep
<1>9. CASE UNCHANGED allVars
  BY <1>9 DEF allVars
<1> QED  BY <1>1, <1>2, <1>3, <1>4, <1>5, <1>6, <1>7, <1>8, <1>9 DEF ServerNext

\* Whatever the client says, what the managers and the compiler do to each other
\* is the protocol of CompileProtocol (compiler_notify.pony:95-149,
\* workspace_manager.pony:316-360): its theorems hold of the server.
THEOREM ServerKeepsProtocol == ServerSpec => Spec
<1>1. ServerInit => Init
  BY DEF ServerInit
<1> QED  BY <1>1, StepIsProtocol, PTL DEF ServerSpec, Spec

------------------------------------------------------------------------------
(* What each actor does to what is on the wire and what is expected.       *)

Expecting == <<expecting, toAnswer, idGen>>

LEMMA MessageKinds ==
  ASSUME NEW x \in Messages
  PROVE  /\ x.kind \in RequestKinds => x \in Asks
         /\ x.kind = "response" => x \in Responses
         /\ x.kind \in {"initialized", "didOpen", "settings", "exit"} => x \in Tells
         /\ x.kind \in RequestKinds \cup {"response", "initialized", "didOpen", "settings", "exit"}
  BY DEF Messages, Asks, Tells, Responses, RequestKinds

\* The client says something that is no response, the server takes such a
\* message, or nothing is said at all.
LEMMA WireKeeps ==
  ASSUME ServerTyped, Expectations, OnTheirWay, UNCHANGED Expecting,
         \/ UNCHANGED wire
         \/ \E x \in Messages : x.kind # "response" /\ wire' = Append(wire, x)
         \/ wire # <<>> /\ wire' = Tail(wire)
  PROVE  Expectations' /\ OnTheirWay' /\ wire' \in Seq(Messages)
<1> USE DEF Expecting
<1>1. wire \in Seq(Messages) /\ expecting \in Seq(Expected)
  BY DEF ServerTyped
<1>2. Expectations'
  BY DEF Expectations
<1>3. CASE UNCHANGED wire
  BY <1>1, <1>2, <1>3 DEF OnTheirWay
<1>4. ASSUME NEW x \in Messages, x.kind # "response", wire' = Append(wire, x)
      PROVE  OnTheirWay' /\ wire' \in Seq(Messages)
  <2>1. /\ wire' \in Seq(Messages) /\ Len(wire') = Len(wire) + 1 /\ Len(wire) \in Nat
        /\ \A k \in 1..Len(wire) : wire'[k] = wire[k]
        /\ wire'[Len(wire) + 1] = x
    BY <1>1, <1>4
  <2>2. \A k \in 1..Len(wire') : wire'[k].kind = "response" => k \in 1..Len(wire) /\ wire'[k] = wire[k]
    BY <1>4, <2>1
  <2> QED  BY <2>1, <2>2 DEF OnTheirWay
<1>5. CASE wire # <<>> /\ wire' = Tail(wire)
  <2>1. /\ wire' \in Seq(Messages) /\ Len(wire') = Len(wire) - 1 /\ Len(wire) \in Nat
        /\ \A k \in 1..Len(wire') : wire'[k] = wire[k + 1]
    BY <1>1, <1>5, HeadTailProperties
  <2>2. \A k \in 1..Len(wire') : k + 1 \in 1..Len(wire)
    BY <2>1
  <2>3. \A k, l \in 1..Len(wire') : k # l => k + 1 # l + 1
    BY <2>1
  <2>4. OnTheirWay'
    <3> SUFFICES ASSUME NEW k \in 1..Len(wire'), wire'[k].kind = "response"
                 PROVE  /\ \E i \in 1..Len(expecting) : expecting[i].id = wire'[k].id
                        /\ \A r \in toAnswer : r.id # wire'[k].id
                        /\ \A l \in 1..Len(wire') :
                             wire'[l].kind = "response" /\ l # k => wire'[l].id # wire'[k].id
      BY DEF OnTheirWay
    <3> DEFINE n == k + 1
    <3>1. n \in 1..Len(wire) /\ wire'[k] = wire[n] /\ wire[n].kind = "response"
      BY <2>1, <2>2
    <3>2. \A l \in 1..Len(wire') : wire'[l].kind = "response" /\ l # k => wire'[l].id # wire[n].id
      <4> TAKE l \in 1..Len(wire')
      <4>1. l + 1 \in 1..Len(wire) /\ wire'[l] = wire[l + 1] /\ (l # k => l + 1 # n)
        BY <2>1, <2>2, <2>3
      <4> HIDE DEF n
      <4> QED  BY <3>1, <4>1 DEF OnTheirWay
    <3> HIDE DEF n
    <3> QED  BY <3>1, <3>2 DEF OnTheirWay
  <2> QED  BY <1>2, <2>1, <2>4
<1>6. OnTheirWay' /\ wire' \in Seq(Messages)
  <2>1. CASE UNCHANGED wire
    BY <1>1, <1>3, <2>1
  <2>2. CASE \E x \in Messages : x.kind # "response" /\ wire' = Append(wire, x)
    BY <1>4, <2>2
  <2> QED  BY <1>5, <2>1, <2>2
<1> QED  BY <1>2, <1>6

\* The client answers a request: it is expected still, and asked no more.
LEMMA RespondKeeps ==
  ASSUME ServerTyped, Expectations, OnTheirWay,
         NEW r \in toAnswer, NEW accepted \in BOOLEAN, Respond(r, accepted)
  PROVE  Expectations' /\ OnTheirWay' /\ wire' \in Seq(Messages)
<1> DEFINE x == [kind |-> "response", id |-> r.id, ok |-> accepted, result |-> mine]
<1>1. /\ wire \in Seq(Messages) /\ expecting \in Seq(Expected) /\ r \in Expected /\ mine \in Nat
      /\ toAnswer \subseteq Expected
  BY DEF ServerTyped
<1>2. /\ toAnswer' = toAnswer \ {r} /\ wire' = Append(wire, x)
      /\ UNCHANGED <<expecting, idGen>>
  BY DEF Respond, serverVars
<1>3. x \in Messages /\ x.kind = "response" /\ x.id = r.id
  BY <1>1 DEF Messages, Responses, Expected
<1>4. Expectations'
  BY <1>2 DEF Expectations
<1> HIDE DEF x
<1>5. /\ wire' \in Seq(Messages) /\ Len(wire') = Len(wire) + 1 /\ Len(wire) \in Nat
      /\ \A k \in 1..Len(wire) : wire'[k] = wire[k]
      /\ wire'[Len(wire) + 1] = x
  BY <1>1, <1>2, <1>3
<1>6. PICK i \in 1..Len(expecting) : expecting[i] = r
  BY DEF Expectations
<1>7. \A q \in toAnswer : q # r => q.id # r.id
  <2>1. ASSUME NEW q \in toAnswer, q.id = r.id PROVE q = r
    <3>1. PICK j \in 1..Len(expecting) : expecting[j] = q
      BY DEF Expectations
    <3> QED  BY <1>6, <2>1, <3>1 DEF Expectations
  <2> QED  BY <2>1
<1>8. \A k \in 1..Len(wire) : wire[k].kind = "response" => wire[k].id # r.id
  BY DEF OnTheirWay
<1>9. OnTheirWay'
  <2> SUFFICES ASSUME NEW k \in 1..Len(wire'), wire'[k].kind = "response"
               PROVE  /\ \E j \in 1..Len(expecting) : expecting[j].id = wire'[k].id
                      /\ \A q \in toAnswer \ {r} : q.id # wire'[k].id
                      /\ \A l \in 1..Len(wire') :
                           wire'[l].kind = "response" /\ l # k => wire'[l].id # wire'[k].id
    BY <1>2 DEF OnTheirWay
  <2>1. CASE k \in 1..Len(wire)
    <3>1. wire'[k] = wire[k] /\ wire[k].kind = "response" /\ wire[k].id # r.id
      BY <1>5, <1>8, <2>1
    <3>2. \A l \in 1..Len(wire') : l \in 1..Len(wire) \/ wire'[l].id = r.id
      BY <1>3, <1>5
    <3> QED  BY <1>5, <2>1, <3>1, <3>2 DEF OnTheirWay
  <2>2. CASE k = Len(wire) + 1
    <3>1. wire'[k].id = r.id
      BY <1>3, <1>5, <2>2
    <3>2. \A l \in 1..Len(wire') : l # k => l \in 1..Len(wire) /\ wire'[l] = wire[l]
      BY <1>5, <2>2
    <3> QED  BY <1>6, <1>7, <1>8, <3>1, <3>2
  <2> QED  BY <1>5, <2>1, <2>2
<1> QED  BY <1>4, <1>5, <1>9

\* The server sends a request, under an id it has given to no other.
LEMMA SendKeeps ==
  ASSUME ServerTyped, Expectations, OnTheirWay, SendToClient
  PROVE  Expectations' /\ OnTheirWay' /\ expecting' \in Seq(Expected)
         /\ toAnswer' \subseteq Expected /\ idGen' \in Nat /\ sends' \in Seq(Sendings)
<1> DEFINE r == [id |-> idGen, method |-> Head(sends).method, token |-> Head(sends).token]
<1>1. /\ sends # <<>> /\ sends' = Tail(sends) /\ toAnswer' = toAnswer \cup {r}
      /\ expecting' = Append(expecting, r) /\ idGen' = idGen + 1 /\ wire' = wire
  BY DEF SendToClient, IdAfter
<1>2. /\ sends \in Seq(Sendings) /\ expecting \in Seq(Expected) /\ toAnswer \subseteq Expected
      /\ idGen \in Nat /\ wire \in Seq(Messages)
  BY DEF ServerTyped
<1>3. Head(sends) \in Sendings /\ sends' \in Seq(Sendings)
  BY <1>1, <1>2, HeadTailProperties
<1>4. r \in Expected /\ r.id = idGen
  BY <1>2, <1>3 DEF Sendings, Expected
<1> HIDE DEF r
<1>5. /\ expecting' \in Seq(Expected) /\ Len(expecting') = Len(expecting) + 1
      /\ Len(expecting) \in Nat /\ \A i \in 1..Len(expecting) : expecting'[i] = expecting[i]
      /\ expecting'[Len(expecting) + 1] = r
  BY <1>1, <1>2, <1>4
<1>6. \A i \in 1..Len(expecting) : expecting[i].id \in Nat /\ expecting[i].id < idGen
  <2>1. \A i \in 1..Len(expecting) : expecting[i] \in Expected
    BY <1>2
  <2>2. \A q \in Expected : q.id \in Nat
    BY DEF Expected
  <2> QED  BY <2>1, <2>2 DEF Expectations
<1>7. Expectations'
  <2>1. \A i, j \in 1..Len(expecting') : i # j => expecting'[i].id # expecting'[j].id
    <3> SUFFICES ASSUME NEW i \in 1..Len(expecting'), NEW j \in 1..Len(expecting'), i # j
                 PROVE  expecting'[i].id # expecting'[j].id
      OBVIOUS
    <3>1. i \in 1..Len(expecting) \/ i = Len(expecting) + 1
      BY <1>5
    <3>2. j \in 1..Len(expecting) \/ j = Len(expecting) + 1
      BY <1>5
    <3> QED  BY <1>2, <1>4, <1>5, <1>6, <3>1, <3>2 DEF Expectations
  <2>2. \A i \in 1..Len(expecting') : expecting'[i].id < idGen'
    <3> TAKE i \in 1..Len(expecting')
    <3>1. CASE i \in 1..Len(expecting)
      BY <1>1, <1>2, <1>5, <1>6, <3>1
    <3>2. CASE i = Len(expecting) + 1
      BY <1>1, <1>2, <1>4, <1>5, <3>2
    <3> QED  BY <1>5, <3>1, <3>2
  <2>3. \A q \in toAnswer' : \E i \in 1..Len(expecting') : expecting'[i] = q
    <3> TAKE q \in toAnswer'
    <3>1. CASE q \in toAnswer
      <4>1. PICK i \in 1..Len(expecting) : expecting[i] = q
        BY <3>1 DEF Expectations
      <4>2. i \in 1..Len(expecting') /\ expecting'[i] = q
        BY <1>5, <4>1
      <4> QED  BY <4>2
    <3>2. CASE q = r
      BY <1>5, <3>2
    <3> QED  BY <1>1, <3>1, <3>2
  <2> QED  BY <2>1, <2>2, <2>3 DEF Expectations
<1>8. OnTheirWay'
  <2> SUFFICES ASSUME NEW k \in 1..Len(wire), wire[k].kind = "response"
               PROVE  /\ \E i \in 1..Len(expecting') : expecting'[i].id = wire[k].id
                      /\ \A q \in toAnswer' : q.id # wire[k].id
    BY <1>1 DEF OnTheirWay
  <2>1. PICK i \in 1..Len(expecting) : expecting[i].id = wire[k].id
    BY DEF OnTheirWay
  <2>2. i \in 1..Len(expecting') /\ expecting'[i] = expecting[i]
    BY <1>5
  <2>3. r.id # wire[k].id
    BY <1>2, <1>4, <1>6, <2>1
  <2> QED  BY <1>1, <2>1, <2>2, <2>3 DEF OnTheirWay
<1> QED  BY <1>1, <1>2, <1>3, <1>4, <1>5, <1>7, <1>8

\* One element is gone, and the others are there still.
LEMMA Without ==
  ASSUME NEW S, NEW s \in Seq(S), NEW i \in 1..Len(s)
  PROVE  /\ RemoveAt(s, i) \in Seq(S) /\ Len(RemoveAt(s, i)) = Len(s) - 1
         /\ \A k \in 1..(Len(s) - 1) : RemoveAt(s, i)[k] = s[IF k < i THEN k ELSE k + 1]
<1> DEFINE a == SubSeq(s, 1, i - 1)
           b == SubSeq(s, i + 1, Len(s))
<1>1. Len(s) \in Nat /\ i \in Nat /\ i >= 1 /\ i <= Len(s)
  OBVIOUS
<1>2. a \in Seq(S) /\ Len(a) = i - 1 /\ \A k \in 1..(i - 1) : a[k] = s[k]
  <2>1. \A k \in 1..(i - 1) : s[k] \in S
    OBVIOUS
  <2>2. 1 \in Int /\ i - 1 \in Int
    BY <1>1
  <2>3. /\ a \in Seq(S) /\ Len(a) = IF 1 <= i - 1 THEN (i - 1) - 1 + 1 ELSE 0
        /\ \A k \in 1..((i - 1) - 1 + 1) : a[k] = s[1 + k - 1]
    BY <2>1, <2>2, SubSeqProperties
  <2> HIDE DEF a
  <2> QED  BY <1>1, <2>3
<1>3. b \in Seq(S) /\ Len(b) = Len(s) - i /\ \A k \in 1..(Len(s) - i) : b[k] = s[i + k]
  <2>1. \A k \in (i + 1)..Len(s) : s[k] \in S
    BY <1>1
  <2>2. i + 1 \in Int /\ Len(s) \in Int
    BY <1>1
  <2>3. /\ b \in Seq(S) /\ Len(b) = IF i + 1 <= Len(s) THEN Len(s) - (i + 1) + 1 ELSE 0
        /\ \A k \in 1..(Len(s) - (i + 1) + 1) : b[k] = s[(i + 1) + k - 1]
    BY <2>1, <2>2, SubSeqProperties
  <2> HIDE DEF b
  <2> QED  BY <1>1, <2>3
<1>4. RemoveAt(s, i) = a \o b
  BY DEF RemoveAt
<1> HIDE DEF a, b
<1>5. /\ a \o b \in Seq(S) /\ Len(a \o b) = Len(a) + Len(b)
      /\ \A k \in 1..(Len(a) + Len(b)) : (a \o b)[k] = IF k <= Len(a) THEN a[k] ELSE b[k - Len(a)]
  BY <1>2, <1>3, ConcatProperties
<1>6. \A k \in 1..(Len(s) - 1) : (a \o b)[k] = s[IF k < i THEN k ELSE k + 1]
  <2> TAKE k \in 1..(Len(s) - 1)
  <2>1. CASE k < i
    <3>1. k \in 1..(i - 1) /\ k <= Len(a) /\ k \in 1..(Len(a) + Len(b))
      BY <1>1, <1>2, <1>3, <2>1
    <3> QED  BY <1>2, <1>5, <2>1, <3>1
  <2>2. CASE ~(k < i)
    <3>1. /\ k - (i - 1) \in 1..(Len(s) - i) /\ ~(k <= Len(a)) /\ k \in 1..(Len(a) + Len(b))
          /\ i + (k - (i - 1)) = k + 1
      BY <1>1, <1>2, <1>3, <2>2
    <3> QED  BY <1>2, <1>3, <1>5, <2>2, <3>1
  <2> QED  BY <2>1, <2>2
<1> QED  BY <1>1, <1>2, <1>3, <1>4, <1>5, <1>6

\* A response is taken with the expectation it answers, and no other's.
LEMMA ResponseKeeps ==
  ASSUME ServerTyped, Expectations, OnTheirWay, HandleResponse
  PROVE  Expectations' /\ OnTheirWay' /\ wire' \in Seq(Messages) /\ expecting' \in Seq(Expected)
<1>1. /\ wire # <<>> /\ Head(wire).kind = "response" /\ wire' = Tail(wire)
      /\ UNCHANGED <<toAnswer, idGen>>
  BY DEF HandleResponse, Message
<1>2. /\ wire \in Seq(Messages) /\ expecting \in Seq(Expected) /\ idGen \in Nat
  BY DEF ServerTyped
<1>3. /\ wire' \in Seq(Messages) /\ Len(wire') = Len(wire) - 1 /\ Len(wire) \in Nat \ {0}
      /\ \A k \in 1..Len(wire') : k + 1 \in 1..Len(wire) /\ wire'[k] = wire[k + 1]
      /\ Head(wire) = wire[1] /\ 1 \in 1..Len(wire)
  BY <1>1, <1>2, HeadTailProperties
<1>4. CASE UNCHANGED expecting
  BY <1>1, <1>2, <1>4, WireKeeps DEF Expecting
<1>5. ASSUME Matches(Head(wire).id) # {},
             expecting' = RemoveAt(expecting, CHOOSE i \in Matches(Head(wire).id) :
                                                \A j \in Matches(Head(wire).id) : i <= j)
      PROVE  Expectations' /\ OnTheirWay' /\ expecting' \in Seq(Expected)
  <2>1. PICK i \in 1..Len(expecting) : expecting[i].id = Head(wire).id
    BY <1>5 DEF Matches
  <2>2. Matches(Head(wire).id) = {i}
    BY <2>1 DEF Matches, Expectations
  <2>3. expecting' = RemoveAt(expecting, i)
    <3>1. i <= i
      BY <1>2
    <3>2. (CHOOSE j \in {i} : \A k \in {i} : j <= k) = i
      BY <3>1
    <3> QED  BY <1>5, <2>2, <3>2
  <2> DEFINE at(k) == IF k < i THEN k ELSE k + 1
  <2>4. /\ expecting' \in Seq(Expected) /\ Len(expecting') = Len(expecting) - 1
        /\ \A k \in 1..(Len(expecting) - 1) : expecting'[k] = expecting[at(k)]
    BY <1>2, <2>3, Without
  <2>5. Len(expecting) \in Nat /\ i \in Nat /\ i >= 1 /\ i <= Len(expecting)
    BY <1>2
  <2>6. \A k \in 1..Len(expecting') : at(k) \in 1..Len(expecting) /\ at(k) # i
    BY <2>4, <2>5
  <2>7. \A k, l \in 1..Len(expecting') : k # l => at(k) # at(l)
    BY <2>4, <2>5
  <2>8. \A n \in 1..Len(expecting) : n # i => \E k \in 1..Len(expecting') : at(k) = n
    <3> TAKE n \in 1..Len(expecting)
    <3> HAVE n # i
    <3>1. CASE n < i
      <4>1. n \in 1..Len(expecting') /\ at(n) = n
        BY <2>4, <2>5, <3>1
      <4> QED  BY <4>1
    <3>2. CASE n > i
      <4>1. n - 1 \in 1..Len(expecting') /\ at(n - 1) = n
        BY <2>4, <2>5, <3>2
      <4> QED  BY <4>1
    <3> QED  BY <2>5, <3>1, <3>2
  <2> HIDE DEF at
  <2>9. \A n \in 1..Len(expecting) : n # i =>
          \E k \in 1..Len(expecting') : expecting'[k] = expecting[n]
    BY <2>4, <2>8
  <2>10. \A r \in toAnswer : r.id # Head(wire).id
    BY <1>1, <1>3 DEF OnTheirWay
  <2>11. Expectations'
    <3>1. \A k, l \in 1..Len(expecting') : k # l => expecting'[k].id # expecting'[l].id
      BY <2>4, <2>6, <2>7 DEF Expectations
    <3>2. \A k \in 1..Len(expecting') : expecting'[k].id < idGen'
      BY <1>1, <2>4, <2>6 DEF Expectations
    <3>3. \A r \in toAnswer' : \E k \in 1..Len(expecting') : expecting'[k] = r
      <4> TAKE r \in toAnswer'
      <4>1. PICK n \in 1..Len(expecting) : expecting[n] = r
        BY <1>1 DEF Expectations
      <4>2. n # i
        BY <1>1, <2>1, <2>10, <4>1
      <4> QED  BY <2>9, <4>1, <4>2
    <3> QED  BY <3>1, <3>2, <3>3 DEF Expectations
  <2>12. OnTheirWay'
    <3> SUFFICES ASSUME NEW k \in 1..Len(wire'), wire'[k].kind = "response"
                 PROVE  /\ \E j \in 1..Len(expecting') : expecting'[j].id = wire'[k].id
                        /\ \A r \in toAnswer' : r.id # wire'[k].id
                        /\ \A l \in 1..Len(wire') :
                             wire'[l].kind = "response" /\ l # k => wire'[l].id # wire'[k].id
      BY DEF OnTheirWay
    <3> DEFINE n == k + 1
    <3>1. /\ n \in 1..Len(wire) /\ wire'[k] = wire[n] /\ wire[n].kind = "response" /\ n # 1
      BY <1>3
    <3> HIDE DEF n
    <3>2. wire[n].id # Head(wire).id
      BY <1>1, <1>3, <3>1 DEF OnTheirWay
    <3>3. \E j \in 1..Len(expecting') : expecting'[j].id = wire'[k].id
      <4>1. PICK j \in 1..Len(expecting) : expecting[j].id = wire[n].id
        BY <3>1 DEF OnTheirWay
      <4>2. j # i
        BY <2>1, <3>2, <4>1
      <4> QED  BY <2>9, <3>1, <4>1, <4>2
    <3>4. \A r \in toAnswer' : r.id # wire'[k].id
      BY <1>1, <3>1 DEF OnTheirWay
    <3>5. \A l \in 1..Len(wire') : wire'[l].kind = "response" /\ l # k => wire'[l].id # wire'[k].id
      <4> TAKE l \in 1..Len(wire')
      <4>1. l + 1 \in 1..Len(wire) /\ wire'[l] = wire[l + 1] /\ (l # k => l + 1 # n)
        BY <1>3 DEF n
      <4> QED  BY <3>1, <4>1 DEF OnTheirWay
    <3> QED  BY <3>3, <3>4, <3>5
  <2> QED  BY <2>4, <2>11, <2>12
<1>6. \/ UNCHANGED expecting
      \/ /\ Matches(Head(wire).id) # {}
         /\ expecting' = RemoveAt(expecting, CHOOSE i \in Matches(Head(wire).id) :
                                                \A j \in Matches(Head(wire).id) : i <= j)
  BY DEF HandleResponse, Message
<1> QED  BY <1>2, <1>3, <1>4, <1>5, <1>6

LEMMA ActKeeps ==
  ASSUME EInv, NEW x \in Messages, ClientAct(x), x.kind # "response",
         mine' \in Nat, initialized' \in {"no", "yes", "gone"},
         state = "uninitialized" => initialized' # "yes"
  PROVE  EInv'
<1>1. /\ wire' = Append(wire, x) /\ sent' = sent + 1
      /\ UNCHANGED <<vars, serverVars, toAnswer>>
  BY DEF ClientAct
<1>2. Expectations' /\ OnTheirWay' /\ wire' \in Seq(Messages)
  BY <1>1, WireKeeps DEF EInv, serverVars, Expecting
<1>3. ServerTyped'
  BY <1>1, <1>2 DEF EInv, ServerTyped, serverVars
<1>4. NothingYet'
  BY <1>1 DEF EInv, NothingYet, vars, serverVars
<1> QED  BY <1>2, <1>3, <1>4 DEF EInv

LEMMA ClientKeeps ==
  ASSUME EInv, ClientStep PROVE EInv'
<1>1. /\ sent < Budget => sent + 1 \in Ids
      /\ mine \in Nat /\ initialized \in {"no", "yes", "gone"}
  BY ServerAssumption DEF EInv, ServerTyped, Ids
<1>2. ASSUME NEW kind \in RequestKinds, NEW m \in Managers \cup {NoResult, "object"},
             sent < Budget
      PROVE  Asking(kind, m) \in Messages /\ Asking(kind, m).kind # "response"
  BY <1>1, <1>2 DEF Asking, Messages, Asks, RequestKinds
<1>3. ASSUME NEW kind \in {"initialized", "didOpen", "settings", "exit"},
             NEW m \in Managers \cup {NoResult} \cup Nat
      PROVE  Telling(kind, m) \in Messages /\ Telling(kind, m).kind # "response"
  BY DEF Telling, Messages, Tells
<1>4. initialized = "yes" => state # "uninitialized"
  BY DEF EInv, NothingYet
<1>5. CASE SendInitialize
  <2>1. PICK params \in {"object", NoResult} : ClientAct(Asking("initialize", params))
    BY <1>5 DEF SendInitialize
  <2>2. "initialize" \in RequestKinds /\ params \in Managers \cup {NoResult, "object"}
    BY DEF RequestKinds
  <2>3. sent < Budget /\ UNCHANGED <<mine, initialized>>
    BY <1>5, <2>1 DEF SendInitialize, ClientAct
  <2> QED  BY <1>1, <1>2, <1>4, <2>1, <2>2, <2>3, ActKeeps
<1>6. CASE SendInitialized
  BY <1>1, <1>3, <1>4, <1>6, ActKeeps DEF SendInitialized
<1>7. CASE SendSettings
  <2>1. mine + 1 \in Nat
    BY <1>1
  <2> QED  BY <1>1, <1>3, <1>4, <1>7, <2>1, ActKeeps DEF SendSettings
<1>8. CASE SendExit
  BY <1>1, <1>3, <1>8, ActKeeps DEF SendExit
<1>9. ASSUME NEW kind \in RequestKinds, NEW m \in Managers \cup {NoResult}, SendRequest(kind, m)
      PROVE  EInv'
  <2>1. /\ sent < Budget /\ ClientAct(Asking(kind, m)) /\ UNCHANGED <<mine, initialized>>
    BY <1>9 DEF SendRequest, ClientAct
  <2>2. state = "uninitialized" => initialized' # "yes"
    BY <1>4, <2>1
  <2> QED  BY <1>1, <1>2, <2>1, <2>2, ActKeeps
<1>10. ASSUME NEW m \in Managers, SendOpen(m) PROVE EInv'
  BY <1>1, <1>3, <1>4, <1>10, ActKeeps DEF SendOpen
<1>11. {"document", "symbol", "shutdown", "unknown"} \subseteq RequestKinds
  BY DEF RequestKinds
<1> QED  BY <1>5, <1>6, <1>7, <1>8, <1>9, <1>10, <1>11 DEF ClientStep

LEMMA ClientResponds ==
  ASSUME EInv, Responds PROVE EInv'
<1>1. PICK r \in toAnswer, accepted \in BOOLEAN : Respond(r, accepted)
  BY DEF Responds
<1>2. Expectations' /\ OnTheirWay' /\ wire' \in Seq(Messages)
  BY <1>1, RespondKeeps DEF EInv
<1>3. toAnswer' \subseteq toAnswer /\ UNCHANGED <<vars, serverVars, sent, mine, initialized>>
  BY <1>1 DEF Respond
<1>4. ServerTyped'
  BY <1>2, <1>3 DEF EInv, ServerTyped, serverVars
<1>5. state # "uninitialized"
  <2>1. PICK i \in 1..Len(expecting) : expecting[i] = r
    BY <1>1 DEF EInv, Expectations
  <2>2. expecting # <<>>
    BY <2>1 DEF EInv, ServerTyped
  <2> QED  BY <2>2 DEF EInv, NothingYet
<1> QED  BY <1>2, <1>3, <1>4, <1>5 DEF EInv, NothingYet, serverVars

\* The server takes a message that is no response.
LEMMA HandlerKeeps ==
  ASSUME EInv, HandleWire, ~HandleResponse PROVE EInv'
<1> DEFINE x == Head(wire)
<1>1. /\ wire # <<>> /\ wire' = Tail(wire) /\ wire \in Seq(Messages) /\ x \in Messages
      /\ x = wire[1] /\ 1 \in 1..Len(wire)
      /\ UNCHANGED <<vars, caps, sent, toAnswer, reported, mine, initialized, settings, expecting>>
  <2>1. /\ wire # <<>> /\ wire' = Tail(wire)
        /\ UNCHANGED <<vars, caps, sent, toAnswer, reported, mine, initialized, settings, expecting>>
    BY DEF HandleWire, RequestRefused, HandleInitialize, IgnoreInitialize, HandleRouted,
           HandleSymbol, HandleShutdown, HandleUnknown, HandleInitialized, HandleDidOpen, HandleSettings,
           HandleExit, Receive
  <2>2. wire \in Seq(Messages)
    BY DEF EInv, ServerTyped
  <2>3. x \in Messages /\ x = wire[1] /\ 1 \in 1..Len(wire)
    BY <2>1, <2>2
  <2> QED  BY <2>1, <2>2, <2>3
<1>2. wire' \in Seq(Messages)
  BY <1>1, HeadTailProperties
<1>3. ASSUME UNCHANGED idGen PROVE Expectations' /\ OnTheirWay'
  BY <1>1, <1>3, WireKeeps DEF EInv, Expecting
<1>4. ASSUME UNCHANGED <<idGen, state, mail, sends>>, workspaces' = workspaces
      PROVE  EInv'
  <2>1. Expectations' /\ OnTheirWay'
    BY <1>3, <1>4
  <2>2. ServerTyped'
    BY <1>1, <1>2, <1>4 DEF EInv, ServerTyped
  <2>3. NothingYet'
    BY <1>1, <1>4 DEF EInv, NothingYet, vars
  <2> QED  BY <2>1, <2>2, <2>3 DEF EInv
<1>5. ASSUME UNCHANGED <<idGen, workspaces>>, state' # "uninitialized",
             state' \in {"initialized", "shuttingDown"},
             mail' \in [Managers -> Seq(Mail)], sends' \in Seq(Sendings)
      PROVE  EInv'
  <2>1. Expectations' /\ OnTheirWay'
    BY <1>3, <1>5
  <2>2. ServerTyped'
    BY <1>1, <1>2, <1>5 DEF EInv, ServerTyped
  <2>3. NothingYet'
    BY <1>5 DEF NothingYet
  <2> QED  BY <2>1, <2>2, <2>3 DEF EInv
<1>6. mail \in [Managers -> Seq(Mail)] /\ sends \in Seq(Sendings)
  BY DEF EInv, ServerTyped
<1>7. \/ state = "uninitialized" /\ workspaces = {} /\ sends = <<>>
      \/ state # "uninitialized" /\ state \in {"initialized", "shuttingDown"}
  BY DEF EInv, NothingYet, ServerTyped
<1>8. CASE RequestRefused
  BY <1>4, <1>8 DEF RequestRefused
<1>9. CASE HandleInitialize
  <2>1. /\ state = "uninitialized" /\ state' = "initialized" /\ workspaces' \subseteq Managers
        /\ idGen' \in {idGen, x.id + 1} /\ x.kind = "initialize" /\ UNCHANGED <<sends, mail>>
    BY <1>9 DEF HandleInitialize, IdAfterInitialize, Receive, Message
  <2>2. idGen' \in Nat
    <3>1. x \in Asks
      BY <1>1, <2>1, MessageKinds DEF RequestKinds
    <3>2. idGen \in Nat
      BY DEF EInv, ServerTyped
    <3> QED  BY <2>1, <3>1, <3>2, ServerAssumption DEF Asks, Ids
  <2>3. expecting = <<>> /\ toAnswer = {}
    BY <2>1 DEF EInv, NothingYet, Expectations
  <2>4. Expectations'
    BY <1>1, <2>3 DEF Expectations
  <2>5. \A k \in 1..Len(wire) : wire[k].kind # "response"
    BY <2>3 DEF EInv, OnTheirWay
  <2>6. OnTheirWay'
    <3>1. /\ Len(wire') = Len(wire) - 1 /\ Len(wire) \in Nat
          /\ \A k \in 1..Len(wire') : wire'[k] = wire[k + 1]
      BY <1>1, HeadTailProperties
    <3> QED  BY <2>5, <3>1 DEF OnTheirWay
  <2>7. ServerTyped'
    BY <1>1, <1>2, <2>1, <2>2 DEF EInv, ServerTyped
  <2> QED  BY <2>1, <2>4, <2>6, <2>7 DEF EInv, NothingYet
<1>10. CASE HandleRouted
  <2>1. x.kind = "document" /\ state = "initialized"
        /\ UNCHANGED <<state, idGen, workspaces, sends>>
    BY <1>10 DEF HandleRouted, Receive, Message
  <2>2. x.id \in Nat
    <3>1. x \in Asks
      BY <1>1, <2>1, MessageKinds DEF RequestKinds
    <3> QED  BY <3>1, ServerAssumption DEF Asks, Ids
  <2>3. [kind |-> "document", id |-> x.id] \in Mail
    BY <2>2 DEF Mail
  <2>4. mail' \in [Managers -> Seq(Mail)]
    <3>1. \/ mail' = mail
          \/ /\ x.of \in Managers
             /\ mail' = [mail EXCEPT ![x.of] = Append(@, [kind |-> "document", id |-> x.id])]
      BY <1>10 DEF HandleRouted, Message, EInv, ServerTyped
    <3> HIDE DEF x
    <3>2. ASSUME NEW e \in Mail, NEW m \in Managers, mail' = [mail EXCEPT ![m] = Append(@, e)]
          PROVE  mail' \in [Managers -> Seq(Mail)]
      <4>1. Append(mail[m], e) \in Seq(Mail)
        BY <1>6, <3>2
      <4> QED  BY <1>6, <3>2, <4>1
    <3> QED  BY <1>6, <2>3, <3>1, <3>2
  <2> QED  BY <1>5, <1>6, <2>1, <2>4
<1>11. CASE HandleSymbol
  <2>1. x.kind = "symbol" /\ state = "initialized"
        /\ UNCHANGED <<state, idGen, workspaces, sends>>
    BY <1>11 DEF HandleSymbol, Receive, Message
  <2>2. x.id \in Nat
    <3>1. x \in Asks
      BY <1>1, <2>1, MessageKinds DEF RequestKinds
    <3> QED  BY <3>1, ServerAssumption DEF Asks, Ids
  <2>3. [kind |-> "symbol", id |-> x.id] \in Mail
    BY <2>2 DEF Mail
  <2>4. mail' \in [Managers -> Seq(Mail)]
    <3>1. \/ mail' = mail
          \/ mail' = [m \in Managers |->
               IF m \in workspaces THEN Append(mail[m], [kind |-> "symbol", id |-> x.id])
               ELSE mail[m]]
      BY <1>11 DEF HandleSymbol, Message
    <3> HIDE DEF x
    <3>2. \A m \in Managers : Append(mail[m], [kind |-> "symbol", id |-> x.id]) \in Seq(Mail)
      BY <1>6, <2>3
    <3> QED  BY <1>6, <3>1, <3>2
  <2> QED  BY <1>5, <1>6, <2>1, <2>4
<1>12. CASE HandleShutdown
  BY <1>5, <1>6, <1>12 DEF HandleShutdown
<1>13. CASE HandleUnknown
  BY <1>4, <1>13 DEF HandleUnknown
<1>14. CASE HandleInitialized
  <2>1. x.kind = "initialized" /\ UNCHANGED <<state, idGen, workspaces, mail>>
    BY <1>14 DEF HandleInitialized, Receive, Message
  <2>2. /\ Sending("register", NoResult) \in Sendings
        /\ Sending("configuration", NoResult) \in Sendings
    BY DEF Sending, Sendings, Methods, Tokens
  <2>3. sends' \in Seq(Sendings)
    <3> DEFINE a == IF CanRegister THEN <<Sending("register", NoResult)>> ELSE <<>>
               b == IF CanAsk THEN <<Sending("configuration", NoResult)>> ELSE <<>>
    <3>1. a \in Seq(Sendings) /\ b \in Seq(Sendings)
      BY <2>2
    <3>2. sends' = sends \o a \o b
      BY <1>14 DEF HandleInitialized
    <3> HIDE DEF a, b
    <3> QED  BY <1>6, <3>1, <3>2, ConcatProperties
  <2>4. ASSUME state = "uninitialized" PROVE UNCHANGED sends
    <3>1. sends' = sends \o <<>> \o <<>> /\ sends = <<>>
      BY <1>7, <1>14, <2>4 DEF HandleInitialized, CanRegister, CanAsk, Known
    <3> QED  BY <3>1
  <2> QED  BY <1>4, <1>5, <1>6, <1>7, <2>1, <2>3, <2>4
<1>15. CASE HandleDidOpen
  <2>1. x.kind = "didOpen" /\ UNCHANGED <<state, idGen, workspaces, sends>>
    BY <1>15 DEF HandleDidOpen, Receive, Message
  <2>2. [kind |-> "didOpen", id |-> 0] \in Mail
    BY DEF Mail
  <2>3. mail' \in [Managers -> Seq(Mail)]
    <3>1. \/ mail' = mail
          \/ /\ x.of \in Managers
             /\ mail' = [mail EXCEPT ![x.of] = Append(@, [kind |-> "didOpen", id |-> 0])]
      BY <1>15 DEF HandleDidOpen, Message, EInv, ServerTyped
    <3> HIDE DEF x
    <3>2. \A m \in Managers : Append(mail[m], [kind |-> "didOpen", id |-> 0]) \in Seq(Mail)
      BY <1>6, <2>2
    <3> QED  BY <1>6, <3>1, <3>2
  <2>4. workspaces = {} => UNCHANGED mail
    BY <1>15 DEF HandleDidOpen
  <2> QED  BY <1>4, <1>5, <1>6, <1>7, <2>1, <2>3, <2>4
<1>16. CASE HandleSettings
  <2>1. x.kind = "settings" /\ UNCHANGED <<state, idGen, workspaces, mail>>
    BY <1>16 DEF HandleSettings, Receive, Message
  <2>2. Sending("configuration", NoResult) \in Sendings
    BY DEF Sending, Sendings, Methods, Tokens
  <2>3. Pulled \in Seq(Sendings)
    BY <2>2 DEF Pulled
  <2>4. sends' = sends \/ sends' = sends \o Pulled
    BY <1>16 DEF HandleSettings
  <2>5. sends' \in Seq(Sendings)
    BY <1>6, <2>3, <2>4, ConcatProperties
  <2>6. ASSUME state = "uninitialized" PROVE UNCHANGED sends
    <3>1. sends = <<>> /\ Pulled = <<>>
      BY <1>7, <2>6 DEF Pulled, CanAsk, Known
    <3> QED  BY <2>4, <3>1
  <2> QED  BY <1>4, <1>5, <1>6, <1>7, <2>1, <2>5, <2>6
<1>17. CASE HandleExit
  BY <1>4, <1>17 DEF HandleExit
<1>18. CASE IgnoreInitialize
  BY <1>4, <1>18 DEF IgnoreInitialize
<1> QED  BY <1>8, <1>9, <1>10, <1>11, <1>12, <1>13, <1>14, <1>15, <1>16, <1>17, <1>18 DEF HandleWire

LEMMA ResponsesKeep ==
  ASSUME EInv, HandleResponse PROVE EInv'
<1>1. /\ wire # <<>> /\ Head(wire).kind = "response"
      /\ UNCHANGED <<toAnswer, idGen, sends, mail, sent, mine, workspaces, state, initialized>>
  BY DEF HandleResponse, Message
<1>2. Expectations' /\ OnTheirWay' /\ wire' \in Seq(Messages) /\ expecting' \in Seq(Expected)
  BY ResponseKeeps DEF EInv
<1>3. ServerTyped'
  BY <1>1, <1>2 DEF EInv, ServerTyped
<1>4. state # "uninitialized"
  <2>1. Head(wire) = wire[1] /\ 1 \in 1..Len(wire)
    BY <1>1 DEF EInv, ServerTyped
  <2>2. expecting # <<>>
    BY <1>1, <2>1 DEF EInv, OnTheirWay, ServerTyped
  <2> QED  BY <2>2 DEF EInv, NothingYet
<1> QED  BY <1>1, <1>2, <1>3, <1>4 DEF EInv, NothingYet

LEMMA SendingKeeps ==
  ASSUME EInv, SendToClient PROVE EInv'
<1>1. /\ sends # <<>>
      /\ UNCHANGED <<wire, sent, mine, workspaces, state, initialized, mail>>
  BY DEF SendToClient
<1>2. Expectations' /\ OnTheirWay' /\ expecting' \in Seq(Expected)
      /\ toAnswer' \subseteq Expected /\ idGen' \in Nat /\ sends' \in Seq(Sendings)
  BY SendKeeps DEF EInv
<1>3. ServerTyped'
  BY <1>1, <1>2 DEF EInv, ServerTyped
<1> QED  BY <1>1, <1>2, <1>3 DEF EInv, NothingYet

\* Nothing of the wire or of what is expected, and nothing before initialize.
LEMMA QuietlyKeeps ==
  ASSUME EInv, UNCHANGED <<wire, Expecting, sent, mine, state, initialized>>,
         workspaces' \subseteq workspaces, mail' \in [Managers -> Seq(Mail)],
         sends' \in Seq(Sendings),
         \/ state # "uninitialized"
         \/ /\ UNCHANGED <<mail, sends, finished>>
            /\ state = "uninitialized" => mailbox' = <<>> /\ pending' = <<>>
  PROVE  EInv'
<1>1. Expectations' /\ OnTheirWay'
  BY WireKeeps DEF EInv, Expecting
<1>2. ServerTyped'
  BY DEF EInv, ServerTyped, Expecting
<1>3. NothingYet'
  BY DEF EInv, NothingYet, Expecting
<1> QED  BY <1>1, <1>2, <1>3 DEF EInv

LEMMA ManagersKeep ==
  ASSUME TypeOK, EInv, NEW m \in Managers, ManagerStep(m) PROVE EInv'
<1>1. mail \in [Managers -> Seq(Mail)] /\ sends \in Seq(Sendings) /\ workspaces \subseteq Managers
  BY DEF EInv, ServerTyped
<1>2. ASSUME NEW kind, TakeMail(m, kind)
      PROVE  /\ state # "uninitialized" /\ mail' \in [Managers -> Seq(Mail)]
             /\ UNCHANGED <<wire, Expecting, sent, mine, state, initialized, workspaces>>
  <2>1. /\ mail[m] # <<>> /\ mail' = [mail EXCEPT ![m] = Tail(@)]
        /\ UNCHANGED <<wire, Expecting, sent, mine, state, initialized, workspaces>>
    BY <1>2 DEF TakeMail, Expecting
  <2>2. Tail(mail[m]) \in Seq(Mail)
    BY <1>1, <2>1, HeadTailProperties
  <2> QED  BY <1>1, <2>1, <2>2 DEF EInv, NothingYet
<1>3. \A p \in Packages : Sending("progress", Token(m, p)) \in Sendings
  BY DEF TypeOK, Sending, Sendings, Methods, Tokens, Token
<1>4. Sending("refresh", NoResult) \in Sendings
  BY DEF Sending, Sendings, Methods, Tokens
<1>5. \A s \in Sendings : Append(sends, s) \in Seq(Sendings)
  BY <1>1
<1>6. CASE AnswerDocument(m)
  BY <1>1, <1>2, <1>6, QuietlyKeeps DEF AnswerDocument
<1>7. CASE FindSymbols(m)
  BY <1>1, <1>2, <1>7, QuietlyKeeps DEF FindSymbols
<1>8. CASE DoneCompiling(m)
  <2>1. /\ finished[m] # <<>>
        /\ UNCHANGED <<wire, Expecting, sent, mine, state, initialized, workspaces, mail>>
        /\ sends' = sends \/ sends' = Append(sends, Sending("refresh", NoResult))
    BY <1>8 DEF DoneCompiling, Done, Expecting
  <2>2. state # "uninitialized"
    BY <2>1 DEF EInv, NothingYet
  <2> QED  BY <1>1, <1>4, <1>5, <2>1, <2>2, QuietlyKeeps
<1>9. ASSUME NEW p \in Packages, OpenAndCompile(m, p) PROVE EInv'
  <2>1. /\ TakeMail(m, "didOpen")
        /\ sends' = sends \/ sends' = Append(sends, Sending("progress", Token(m, p)))
    BY <1>9 DEF OpenAndCompile
  <2> QED  BY <1>1, <1>2, <1>3, <1>5, <2>1, QuietlyKeeps
<1> QED  BY <1>6, <1>7, <1>8, <1>9 DEF ManagerStep

LEMMA CompilerKeeps ==
  ASSUME EInv, TakeSettings \/ RunCompiler PROVE EInv'
<1>1. /\ UNCHANGED <<wire, Expecting, sent, mine, state, initialized, workspaces, mail, sends>>
      /\ mail \in [Managers -> Seq(Mail)] /\ sends \in Seq(Sendings)
      /\ workspaces \subseteq Managers
  BY DEF TakeSettings, RunCompiler, clientVars, serverVars, Expecting, EInv, ServerTyped
<1>2. ASSUME state = "uninitialized"
      PROVE  mailbox' = <<>> /\ pending' = <<>> /\ UNCHANGED finished
  <2>1. mailbox = <<>> /\ pending = <<>>
    BY <1>2 DEF EInv, NothingYet
  <2>2. CASE RunCompiler
    BY <2>1, <2>2 DEF RunCompiler, Defer, Compile
  <2>3. CASE TakeSettings
    <3>1. Reverse(<<>>) = <<>>
      BY DEF Reverse
    <3>2. <<>> \o <<>> = <<>>
      OBVIOUS
    <3> QED  BY <2>1, <2>3, <3>1, <3>2 DEF TakeSettings, ApplySettings, Send, Released, vars
  <2> QED  BY <2>2, <2>3
<1> QED  BY <1>1, <1>2, QuietlyKeeps

LEMMA EInvKeeps == TypeOK /\ EInv /\ [ServerNext]_allVars => EInv'
<1> SUFFICES ASSUME TypeOK, EInv, [ServerNext]_allVars PROVE EInv'
  OBVIOUS
<1>1. mail \in [Managers -> Seq(Mail)] /\ sends \in Seq(Sendings) /\ workspaces \subseteq Managers
  BY DEF EInv, ServerTyped
<1>2. ASSUME UNCHANGED <<wire, Expecting, sent, mine, state, initialized, mail, sends, vars>>,
             workspaces' \subseteq workspaces
      PROVE  EInv'
  BY <1>1, <1>2, QuietlyKeeps DEF vars, EInv, NothingYet
<1>3. CASE Dispose
  BY <1>2, <1>3 DEF Dispose, clientVars, Expecting
<1>4. CASE Aggregate
  BY <1>1, <1>2, <1>4 DEF Aggregate, AddResults, Expecting
<1>5. CASE UNCHANGED allVars
  BY <1>1, <1>2, <1>5 DEF allVars, serverVars, clientVars, Expecting
<1> QED  BY <1>3, <1>4, <1>5, ClientKeeps, ClientResponds, HandlerKeeps, ResponsesKeep,
            SendingKeeps, ManagersKeep, CompilerKeeps DEF ServerNext

\* The types of what the server keeps, the requests it expects answers to, what is
\* on its way of them, and that nothing is before initialize has been handled.
THEOREM ServerInvariant == ServerSpec => []EInv
<1>1. ServerInit => EInv
  <2> SUFFICES ASSUME ServerInit PROVE EInv
    OBVIOUS
  <2>1. ServerTyped
    BY DEF ServerInit, ServerTyped
  <2>2. Expectations /\ OnTheirWay /\ NothingYet
    BY DEF ServerInit, Init, CompilerInit, Expectations, OnTheirWay, NothingYet
  <2> QED  BY <2>1, <2>2 DEF EInv
<1>2. ServerSpec => []TypeOK
  BY ServerKeepsProtocol, TypeCorrect, PTL
<1> QED  BY <1>1, <1>2, EInvKeeps, PTL DEF ServerSpec

\* A manager of the server has exactly one compile on its way while it is
\* compiling (workspace_manager.pony:411-413, compiler_notify.pony:105-108).
THEOREM OneCompileInServer == ServerSpec => []OneInFlight
  BY ServerKeepsProtocol, OneCompileEach, PTL

\* What the client answers is what exactly one expectation is about
\* (language_server.pony:166-180), though ids start anew at initialize.
THEOREM ServerExpectsResponses == ServerSpec => []ResponsesAreExpected
<1>1. EInv => ResponsesAreExpected
  <2> SUFFICES ASSUME EInv PROVE ResponsesAreExpected
    OBVIOUS
  <2>1. \A i \in 1..Len(expecting) : Matches(expecting[i].id) = {i}
    BY DEF EInv, Expectations, Matches
  <2>2. ASSUME NEW r \in toAnswer
        PROVE  \E i \in Matches(r.id) : Matches(r.id) = {i} /\ expecting[i] = r
    <3>1. PICK i \in 1..Len(expecting) : expecting[i] = r
      BY DEF EInv, Expectations
    <3> QED  BY <2>1, <3>1
  <2>3. ASSUME NEW k \in 1..Len(wire), wire[k].kind = "response"
        PROVE  Cardinality(Matches(wire[k].id)) = 1
    <3>1. PICK i \in 1..Len(expecting) : expecting[i].id = wire[k].id
      BY <2>3 DEF EInv, OnTheirWay
    <3>2. Matches(wire[k].id) = {i}
      BY <2>1, <3>1
    <3> QED  BY <3>2, FS_Singleton
  <2> QED  BY <2>2, <2>3 DEF ResponsesAreExpected
<1> QED  BY <1>1, ServerInvariant, PTL

-----------------------------------------------------------------------------
(***************************************************************************)
(* One answer to every request, whatever the number of managers and        *)
(* requests.  A request that has no answer is in one place: on the wire,   *)
(* in the mail of one manager, or with an aggregator.  The parts of the    *)
(* state it may be in are parameters here: a step of the server takes a    *)
(* request from one and puts it into another.                              *)
(***************************************************************************)

Values == SUBSET (Managers \cup {"error", "capabilities"})
Aggregator == [remaining : Nat, results : SUBSET Managers, coming : SUBSET Managers,
               of : SUBSET Managers]

Unanswered(ag, an, s, id) == id \in 1..s /\ an[id] = <<>> /\ id \notin DOMAIN ag
NotAsked(w, id) == \A k \in 1..Len(w) : w[k].kind \in RequestKinds => w[k].id # id
NotMailed(ml, id) ==
  \A m \in Managers : \A j \in 1..Len(ml[m]) : ml[m][j].kind = "document" => ml[m][j].id # id
NoSymbols(ml, m, id) ==
  \A j \in 1..Len(ml[m]) : ml[m][j].kind = "symbol" => ml[m][j].id # id

\* A request somebody has taken, and not yet put anywhere.
InHand(w, ml, ag, an, s, id) == Unanswered(ag, an, s, id) /\ NotAsked(w, id) /\ NotMailed(ml, id)

PlacesTyped(w, ml, ag, an, s) ==
  /\ w \in Seq(Messages) /\ ml \in [Managers -> Seq(Mail)]
  /\ s \in 0..Budget /\ an \in [Ids -> Seq(Values)]
  /\ ag \in [DOMAIN ag -> Aggregator] /\ DOMAIN ag \subseteq 1..s

OnWire(w, ml, ag, an, s) ==
  \A k \in 1..Len(w) : w[k].kind \in RequestKinds =>
    /\ Unanswered(ag, an, s, w[k].id) /\ NotMailed(ml, w[k].id)
    /\ \A l \in 1..Len(w) : l # k /\ w[l].kind \in RequestKinds => w[l].id # w[k].id

InMail(ml, ag, an, s) ==
  \A m \in Managers : \A j \in 1..Len(ml[m]) : ml[m][j].kind = "document" =>
    /\ Unanswered(ag, an, s, ml[m][j].id)
    /\ \A n \in Managers : \A i \in 1..Len(ml[n]) :
         ml[n][i].kind = "document" /\ (n # m \/ i # j) => ml[n][i].id # ml[m][j].id

\* A manager that has not found the symbols yet is one whose results the
\* aggregator does not have.
SymbolMail(ml, ag) ==
  \A m \in Managers : \A j \in 1..Len(ml[m]) : ml[m][j].kind = "symbol" =>
    /\ ml[m][j].id \in DOMAIN ag
    /\ m \in ag[ml[m][j].id].of \ (ag[ml[m][j].id].results \cup ag[ml[m][j].id].coming)
    /\ \A i \in 1..Len(ml[m]) : ml[m][i].kind = "symbol" /\ i # j => ml[m][i].id # ml[m][j].id

Counts(a) ==
  /\ a.coming \subseteq a.of /\ a.results \subseteq a.of /\ a.coming \cap a.results = {}
  /\ a.remaining = Cardinality(a.of \ a.results)

Collected(ag, an) ==
  \A id \in DOMAIN ag :
    Counts(ag[id]) /\ an[id] = IF ag[id].results = ag[id].of THEN <<ag[id].of>> ELSE <<>>

Once(an, s) == \A id \in Ids : Len(an[id]) <= 1 /\ (id > s => an[id] = <<>>)

Sound(w, ml, ag, an, s) ==
  /\ PlacesTyped(w, ml, ag, an, s)
  /\ OnWire(w, ml, ag, an, s) /\ InMail(ml, ag, an, s) /\ SymbolMail(ml, ag)
  /\ Collected(ag, an) /\ Once(an, s)

\* The server takes a message: if it is a request, that is in hand.
LEMMA TakeWire ==
  ASSUME NEW w, NEW ml, NEW ag, NEW an, NEW s, Sound(w, ml, ag, an, s), w # <<>>
  PROVE  /\ Sound(Tail(w), ml, ag, an, s)
         /\ Head(w).kind \in RequestKinds => InHand(Tail(w), ml, ag, an, s, Head(w).id)
         /\ Head(w) \in Messages
<1> DEFINE t == Tail(w)
<1>1. /\ t \in Seq(Messages) /\ Len(t) = Len(w) - 1 /\ Len(w) \in Nat \ {0}
      /\ \A k \in 1..Len(t) : k + 1 \in 1..Len(w) /\ t[k] = w[k + 1]
      /\ Head(w) = w[1] /\ 1 \in 1..Len(w) /\ Head(w) \in Messages
  <2>1. w \in Seq(Messages)
    BY DEF Sound, PlacesTyped
  <2>2. t \in Seq(Messages) /\ Len(t) = Len(w) - 1 /\ \A k \in 1..Len(t) : t[k] = w[k + 1]
    BY <2>1, HeadTailProperties
  <2> HIDE DEF t
  <2> QED  BY <2>1, <2>2
<1> HIDE DEF t
<1>2. PlacesTyped(t, ml, ag, an, s)
  BY <1>1 DEF Sound, PlacesTyped
<1>3. OnWire(t, ml, ag, an, s)
  <2> SUFFICES ASSUME NEW k \in 1..Len(t), t[k].kind \in RequestKinds
               PROVE  /\ Unanswered(ag, an, s, t[k].id) /\ NotMailed(ml, t[k].id)
                      /\ \A l \in 1..Len(t) : l # k /\ t[l].kind \in RequestKinds => t[l].id # t[k].id
    BY DEF OnWire
  <2>1. \A l \in 1..Len(t) : l # k => l + 1 # k + 1
    BY <1>1
  <2>2. k + 1 \in 1..Len(w) /\ t[k] = w[k + 1]
    BY <1>1
  <2> QED  BY <1>1, <2>1, <2>2 DEF Sound, OnWire
<1>4. ASSUME Head(w).kind \in RequestKinds PROVE InHand(t, ml, ag, an, s, Head(w).id)
  <2>1. Unanswered(ag, an, s, Head(w).id) /\ NotMailed(ml, Head(w).id)
    BY <1>1, <1>4 DEF Sound, OnWire
  <2>2. NotAsked(t, Head(w).id)
    <3> SUFFICES ASSUME NEW k \in 1..Len(t), t[k].kind \in RequestKinds
                 PROVE  t[k].id # Head(w).id
      BY DEF NotAsked
    <3>1. k + 1 \in 1..Len(w) /\ t[k] = w[k + 1] /\ k + 1 # 1
      BY <1>1
    <3> QED  BY <1>1, <1>4, <3>1 DEF Sound, OnWire
  <2> QED  BY <2>1, <2>2 DEF InHand
<1> QED  BY <1>1, <1>2, <1>3, <1>4 DEF Sound, t

\* The client has said one thing more.
LEMMA LaterSound ==
  ASSUME NEW w, NEW ml, NEW ag, NEW an, NEW s, Sound(w, ml, ag, an, s), s + 1 <= Budget
  PROVE  Sound(w, ml, ag, an, s + 1)
<1>1. s \in Nat /\ s + 1 \in 0..Budget /\ 1..s \subseteq 1..(s + 1)
  BY ServerAssumption DEF Sound, PlacesTyped
<1>2. \A id : Unanswered(ag, an, s, id) => Unanswered(ag, an, s + 1, id)
  BY <1>1 DEF Unanswered
<1>3. PlacesTyped(w, ml, ag, an, s + 1)
  BY <1>1 DEF Sound, PlacesTyped
<1>4. OnWire(w, ml, ag, an, s + 1) /\ InMail(ml, ag, an, s + 1)
  BY <1>2 DEF Sound, OnWire, InMail
<1>5. Once(an, s + 1)
  BY <1>1 DEF Sound, Once, Ids
<1> QED  BY <1>3, <1>4, <1>5 DEF Sound

\* The client says something else.
LEMMA TellWire ==
  ASSUME NEW w, NEW ml, NEW ag, NEW an, NEW s, Sound(w, ml, ag, an, s),
         NEW x \in Messages, x.kind \notin RequestKinds
  PROVE  Sound(Append(w, x), ml, ag, an, s)
<1> DEFINE t == Append(w, x)
<1>1. /\ t \in Seq(Messages) /\ Len(t) = Len(w) + 1 /\ Len(w) \in Nat
      /\ (\A k \in 1..Len(w) : t[k] = w[k]) /\ t[Len(w) + 1] = x
  BY DEF Sound, PlacesTyped
<1> HIDE DEF t
<1>2. PlacesTyped(t, ml, ag, an, s)
  BY <1>1 DEF Sound, PlacesTyped
<1>3. \A k \in 1..Len(t) : t[k].kind \in RequestKinds => k \in 1..Len(w) /\ t[k] = w[k]
  BY <1>1
<1>4. OnWire(t, ml, ag, an, s)
  BY <1>3 DEF Sound, OnWire
<1> QED  BY <1>2, <1>4 DEF Sound, t

\* The client asks something, under a number nothing has.
LEMMA AskWire ==
  ASSUME NEW w, NEW ml, NEW ag, NEW an, NEW s, Sound(w, ml, ag, an, s), s + 1 <= Budget,
         NEW x \in Messages, x.kind \in RequestKinds, x.id = s + 1
  PROVE  Sound(Append(w, x), ml, ag, an, s + 1)
<1> DEFINE t == Append(w, x)
<1>1. /\ t \in Seq(Messages) /\ Len(t) = Len(w) + 1 /\ Len(w) \in Nat
      /\ (\A k \in 1..Len(w) : t[k] = w[k]) /\ t[Len(w) + 1] = x
  BY DEF Sound, PlacesTyped
<1> HIDE DEF t
<1>2. s \in Nat /\ s + 1 \in 0..Budget /\ s + 1 \in Ids /\ s + 1 \in 1..(s + 1)
      /\ 1..s \subseteq 1..(s + 1) /\ s + 1 \notin 1..s
  BY ServerAssumption DEF Sound, PlacesTyped, Ids
<1>3. PlacesTyped(t, ml, ag, an, s + 1)
  BY <1>1, <1>2 DEF Sound, PlacesTyped
<1>4. \A id : Unanswered(ag, an, s, id) => Unanswered(ag, an, s + 1, id) /\ id # s + 1
  BY <1>2 DEF Unanswered
<1>5. Unanswered(ag, an, s + 1, s + 1)
  <2>1. an[s + 1] = <<>>
    BY <1>2 DEF Sound, Once
  <2> QED  BY <1>2, <2>1 DEF Unanswered, Sound, PlacesTyped
<1>6. NotMailed(ml, s + 1)
  BY <1>4 DEF NotMailed, Sound, InMail
<1>7. OnWire(t, ml, ag, an, s + 1)
  <2> SUFFICES ASSUME NEW k \in 1..Len(t), t[k].kind \in RequestKinds
               PROVE  /\ Unanswered(ag, an, s + 1, t[k].id) /\ NotMailed(ml, t[k].id)
                      /\ \A l \in 1..Len(t) : l # k /\ t[l].kind \in RequestKinds => t[l].id # t[k].id
    BY DEF OnWire
  <2>1. \A l \in 1..Len(w) : w[l].kind \in RequestKinds => w[l].id # s + 1
    BY <1>4 DEF Sound, OnWire
  <2>2. CASE k \in 1..Len(w)
    <3>1. \A l \in 1..Len(t) : l \in 1..Len(w) \/ t[l].id = s + 1
      BY <1>1
    <3> QED  BY <1>1, <1>4, <2>1, <2>2, <3>1 DEF Sound, OnWire
  <2>3. CASE k = Len(w) + 1
    <3>1. \A l \in 1..Len(t) : l # k => l \in 1..Len(w) /\ t[l] = w[l]
      BY <1>1, <2>3
    <3> QED  BY <1>1, <1>5, <1>6, <2>1, <2>3, <3>1
  <2> QED  BY <1>1, <2>2, <2>3
<1>8. InMail(ml, ag, an, s + 1)
  BY <1>4 DEF Sound, InMail
<1>9. Once(an, s + 1)
  BY <1>2 DEF Sound, Once, Ids
<1> QED  BY <1>3, <1>7, <1>8, <1>9 DEF Sound, t

\* What is in hand is answered.
LEMMA AnswerIt ==
  ASSUME NEW w, NEW ml, NEW ag, NEW an, NEW s, Sound(w, ml, ag, an, s),
         NEW id, InHand(w, ml, ag, an, s, id), NEW v \in Values
  PROVE  Sound(w, ml, ag, [an EXCEPT ![id] = Append(@, v)], s)
<1> DEFINE b == [an EXCEPT ![id] = Append(@, v)]
<1>1. id \in 1..s /\ an[id] = <<>> /\ id \notin DOMAIN ag /\ id \in Ids
      /\ s \in Nat /\ an \in [Ids -> Seq(Values)]
  BY ServerAssumption DEF InHand, Unanswered, Sound, PlacesTyped, Ids
<1>2. b \in [Ids -> Seq(Values)] /\ Len(b[id]) <= 1 /\ \A i \in Ids : i # id => b[i] = an[i]
  BY <1>1
<1> HIDE DEF b
<1>3. PlacesTyped(w, ml, ag, b, s)
  BY <1>2 DEF Sound, PlacesTyped
<1>4. \A i : i # id /\ Unanswered(ag, an, s, i) => Unanswered(ag, b, s, i)
  <2>1. 1..s \subseteq Ids
    BY ServerAssumption DEF Sound, PlacesTyped, Ids
  <2> QED  BY <1>2, <2>1 DEF Unanswered
<1>5. OnWire(w, ml, ag, b, s)
  BY <1>4 DEF Sound, OnWire, InHand, NotAsked
<1>6. InMail(ml, ag, b, s)
  BY <1>4 DEF Sound, InMail, InHand, NotMailed
<1>7. Collected(ag, b)
  <2>1. \A i \in DOMAIN ag : i \in Ids /\ i # id
    BY <1>1, ServerAssumption DEF Sound, PlacesTyped, Ids
  <2> QED  BY <1>2, <2>1 DEF Sound, Collected
<1>8. Once(b, s)
  <2>1. ~(id > s)
    BY <1>1
  <2>2. \A i \in Ids : Len(b[i]) <= 1 /\ (i > s => b[i] = <<>>)
    <3> TAKE i \in Ids
    <3>1. CASE i = id
      BY <1>2, <2>1, <3>1, Zenon
    <3>2. CASE i # id
      BY <1>2, <3>2 DEF Sound, Once
    <3> QED  BY <3>1, <3>2
  <2> QED  BY <2>2 DEF Once
<1> QED  BY <1>3, <1>5, <1>6, <1>7, <1>8 DEF Sound, b

\* The mail of m with one more for it, and without its first.
Posted(ml, m, e) == [ml EXCEPT ![m] = Append(@, e)]
Opened(ml, m) == [ml EXCEPT ![m] = Tail(@)]

LEMMA PostedIs ==
  ASSUME NEW ml \in [Managers -> Seq(Mail)], NEW m \in Managers, NEW e \in Mail
  PROVE  /\ Posted(ml, m, e) \in [Managers -> Seq(Mail)]
         /\ \A n \in Managers : n # m => Posted(ml, m, e)[n] = ml[n]
         /\ Len(Posted(ml, m, e)[m]) = Len(ml[m]) + 1 /\ Len(ml[m]) \in Nat
         /\ \A j \in 1..Len(ml[m]) : Posted(ml, m, e)[m][j] = ml[m][j]
         /\ Posted(ml, m, e)[m][Len(ml[m]) + 1] = e
<1>1. Append(ml[m], e) \in Seq(Mail) /\ Posted(ml, m, e)[m] = Append(ml[m], e)
  BY DEF Posted
<1>2. ml[m] \in Seq(Mail)
  OBVIOUS
<1> QED  BY <1>1, <1>2, AppendProperties DEF Posted

LEMMA OpenedIs ==
  ASSUME NEW ml \in [Managers -> Seq(Mail)], NEW m \in Managers, ml[m] # <<>>
  PROVE  /\ Opened(ml, m) \in [Managers -> Seq(Mail)]
         /\ \A n \in Managers : n # m => Opened(ml, m)[n] = ml[n]
         /\ \A j \in 1..Len(Opened(ml, m)[m]) :
              j + 1 \in 1..Len(ml[m]) /\ Opened(ml, m)[m][j] = ml[m][j + 1] /\ j + 1 # 1
         /\ Head(ml[m]) = ml[m][1] /\ 1 \in 1..Len(ml[m]) /\ Head(ml[m]) \in Mail
<1>1. /\ Tail(ml[m]) \in Seq(Mail) /\ Len(Tail(ml[m])) = Len(ml[m]) - 1 /\ Len(ml[m]) \in Nat \ {0}
      /\ \A j \in 1..Len(Tail(ml[m])) : Tail(ml[m])[j] = ml[m][j + 1]
      /\ Head(ml[m]) = ml[m][1] /\ Head(ml[m]) \in Mail
  <2>1. ml[m] \in Seq(Mail)
    OBVIOUS
  <2> QED  BY <2>1, HeadTailProperties
<1>2. Opened(ml, m)[m] = Tail(ml[m])
  BY DEF Opened
<1>3. \A j \in 1..Len(Tail(ml[m])) : j + 1 \in 1..Len(ml[m]) /\ j + 1 # 1
  BY <1>1
<1> QED  BY <1>1, <1>2, <1>3 DEF Opened

\* Where a message in the mail of n was before one more came, or one went.
LEMMA MailInPosted ==
  ASSUME NEW ml \in [Managers -> Seq(Mail)], NEW m \in Managers, NEW e \in Mail,
         NEW n \in Managers, NEW j \in 1..Len(Posted(ml, m, e)[n])
  PROVE  \/ j \in 1..Len(ml[n]) /\ Posted(ml, m, e)[n][j] = ml[n][j]
         \/ n = m /\ j = Len(ml[m]) + 1 /\ Posted(ml, m, e)[n][j] = e
<1>1. CASE n = m
  BY <1>1, PostedIs
<1>2. CASE n # m
  BY <1>2, PostedIs
<1> QED  BY <1>1, <1>2

\* A manager is sent something that is no request, or a request about a
\* document that is in hand.
LEMMA PostNotice ==
  ASSUME NEW w, NEW ml, NEW ag, NEW an, NEW s, Sound(w, ml, ag, an, s),
         NEW m \in Managers, NEW e \in Mail, e.kind = "didOpen"
  PROVE  Sound(w, Posted(ml, m, e), ag, an, s)
<1> DEFINE p == Posted(ml, m, e)
<1>1. ml \in [Managers -> Seq(Mail)]
  BY DEF Sound, PlacesTyped
<1>2. p \in [Managers -> Seq(Mail)]
  BY <1>1, PostedIs
<1>3. \A n \in Managers : \A j \in 1..Len(p[n]) :
        p[n][j].kind \in {"document", "symbol"} => j \in 1..Len(ml[n]) /\ p[n][j] = ml[n][j]
  BY <1>1, MailInPosted
<1> HIDE DEF p
<1>4. OnWire(w, p, ag, an, s)
  <2>1. \A id : NotMailed(ml, id) => NotMailed(p, id)
    BY <1>3 DEF NotMailed
  <2> QED  BY <2>1 DEF Sound, OnWire
<1>5. InMail(p, ag, an, s)
  <2> SUFFICES ASSUME NEW n \in Managers, NEW j \in 1..Len(p[n]), p[n][j].kind = "document"
               PROVE  /\ Unanswered(ag, an, s, p[n][j].id)
                      /\ \A o \in Managers : \A i \in 1..Len(p[o]) :
                           p[o][i].kind = "document" /\ (o # n \/ i # j) => p[o][i].id # p[n][j].id
    BY DEF InMail
  <2>1. j \in 1..Len(ml[n]) /\ p[n][j] = ml[n][j]
    BY <1>3
  <2>2. /\ Unanswered(ag, an, s, ml[n][j].id)
        /\ \A o \in Managers : \A i \in 1..Len(ml[o]) :
             ml[o][i].kind = "document" /\ (o # n \/ i # j) => ml[o][i].id # ml[n][j].id
    BY <2>1 DEF Sound, InMail
  <2>3. \A o \in Managers : \A i \in 1..Len(p[o]) :
          p[o][i].kind = "document" => i \in 1..Len(ml[o]) /\ p[o][i] = ml[o][i]
    BY <1>3
  <2> QED  BY <2>1, <2>2, <2>3
<1>6. SymbolMail(p, ag)
  <2>1. SymbolMail(ml, ag)
    BY DEF Sound
  <2> QED  BY <1>3, <2>1 DEF SymbolMail
<1> QED  BY <1>2, <1>4, <1>5, <1>6 DEF Sound, PlacesTyped, p

LEMMA PostDocument ==
  ASSUME NEW w, NEW ml, NEW ag, NEW an, NEW s, Sound(w, ml, ag, an, s),
         NEW m \in Managers, NEW e \in Mail, e.kind = "document", InHand(w, ml, ag, an, s, e.id)
  PROVE  Sound(w, Posted(ml, m, e), ag, an, s)
<1> DEFINE p == Posted(ml, m, e)
<1>1. ml \in [Managers -> Seq(Mail)]
  BY DEF Sound, PlacesTyped
<1>2. p \in [Managers -> Seq(Mail)]
  BY <1>1, PostedIs
<1>3. \A n \in Managers : \A j \in 1..Len(p[n]) :
        \/ j \in 1..Len(ml[n]) /\ p[n][j] = ml[n][j]
        \/ n = m /\ j = Len(ml[m]) + 1 /\ p[n][j] = e
  BY <1>1, MailInPosted
<1> HIDE DEF p
<1>4. OnWire(w, p, ag, an, s)
  <2> SUFFICES ASSUME NEW k \in 1..Len(w), w[k].kind \in RequestKinds
               PROVE  NotMailed(p, w[k].id)
    BY DEF Sound, OnWire
  <2>1. NotMailed(ml, w[k].id) /\ w[k].id # e.id
    BY DEF Sound, OnWire, InHand, NotAsked
  <2> QED  BY <1>3, <2>1 DEF NotMailed
<1>5. InMail(p, ag, an, s)
  <2> SUFFICES ASSUME NEW n \in Managers, NEW j \in 1..Len(p[n]), p[n][j].kind = "document"
               PROVE  /\ Unanswered(ag, an, s, p[n][j].id)
                      /\ \A o \in Managers : \A i \in 1..Len(p[o]) :
                           p[o][i].kind = "document" /\ (o # n \/ i # j) => p[o][i].id # p[n][j].id
    BY DEF InMail
  <2>1. Unanswered(ag, an, s, e.id) /\ NotMailed(ml, e.id)
    BY DEF InHand
  <2>2. CASE j \in 1..Len(ml[n]) /\ p[n][j] = ml[n][j]
    <3>1. ml[n][j].id # e.id
      BY <2>1, <2>2 DEF NotMailed
    <3> QED  BY <1>3, <2>2, <3>1 DEF Sound, InMail
  <2>3. CASE n = m /\ j = Len(ml[m]) + 1 /\ p[n][j] = e
    <3>1. \A o \in Managers : \A i \in 1..Len(p[o]) :
            o # n \/ i # j => i \in 1..Len(ml[o]) /\ p[o][i] = ml[o][i]
      BY <1>3, <2>3
    <3> QED  BY <2>1, <2>3, <3>1 DEF NotMailed
  <2> QED  BY <1>3, <2>2, <2>3
<1>6. SymbolMail(p, ag)
  <2>1. \A n \in Managers : \A j \in 1..Len(p[n]) :
          p[n][j].kind = "symbol" => j \in 1..Len(ml[n]) /\ p[n][j] = ml[n][j]
    BY <1>3
  <2> QED  BY <2>1 DEF Sound, SymbolMail
<1> QED  BY <1>2, <1>4, <1>5, <1>6 DEF Sound, PlacesTyped, p

\* A manager takes a message: a request about a document is in hand then, and
\* the symbols asked for are still to be found.
LEMMA TakeMailSound ==
  ASSUME NEW w, NEW ml, NEW ag, NEW an, NEW s, Sound(w, ml, ag, an, s),
         NEW m \in Managers, ml[m] # <<>>
  PROVE  /\ Sound(w, Opened(ml, m), ag, an, s)
         /\ Head(ml[m]).kind = "document" => InHand(w, Opened(ml, m), ag, an, s, Head(ml[m]).id)
         /\ Head(ml[m]).kind = "symbol" =>
              /\ NoSymbols(Opened(ml, m), m, Head(ml[m]).id)
              /\ Head(ml[m]).id \in DOMAIN ag
              /\ m \in ag[Head(ml[m]).id].of \ (ag[Head(ml[m]).id].results
                                                  \cup ag[Head(ml[m]).id].coming)
<1> DEFINE p == Opened(ml, m)
           h == Head(ml[m])
           at(n, j) == IF n = m THEN j + 1 ELSE j
<1>1. ml \in [Managers -> Seq(Mail)]
  BY DEF Sound, PlacesTyped
<1>2. /\ p \in [Managers -> Seq(Mail)]
      /\ \A n \in Managers : \A j \in 1..Len(p[n]) :
           at(n, j) \in 1..Len(ml[n]) /\ p[n][j] = ml[n][at(n, j)] /\ (n = m => at(n, j) # 1)
      /\ h = ml[m][1] /\ 1 \in 1..Len(ml[m])
  BY <1>1, OpenedIs
<1>3. \A n \in Managers : \A i, j \in 1..Len(p[n]) : i # j => at(n, i) # at(n, j)
  OBVIOUS
<1> HIDE DEF p, h, at
<1>4. OnWire(w, p, ag, an, s)
  <2>1. \A id : NotMailed(ml, id) => NotMailed(p, id)
    BY <1>2 DEF NotMailed
  <2> QED  BY <2>1 DEF Sound, OnWire
<1>5. InMail(p, ag, an, s)
  <2> SUFFICES ASSUME NEW n \in Managers, NEW j \in 1..Len(p[n]), p[n][j].kind = "document"
               PROVE  /\ Unanswered(ag, an, s, p[n][j].id)
                      /\ \A o \in Managers : \A i \in 1..Len(p[o]) :
                           p[o][i].kind = "document" /\ (o # n \/ i # j) => p[o][i].id # p[n][j].id
    BY DEF InMail
  <2> DEFINE k == at(n, j)
  <2>1. k \in 1..Len(ml[n]) /\ p[n][j] = ml[n][k]
    BY <1>2
  <2>2. ASSUME NEW o \in Managers, NEW i \in 1..Len(p[o]), p[o][i].kind = "document", o # n \/ i # j
        PROVE  p[o][i].id # p[n][j].id
    <3> DEFINE l == at(o, i)
    <3>1. l \in 1..Len(ml[o]) /\ p[o][i] = ml[o][l] /\ (o # n \/ l # k)
      BY <1>2, <1>3, <2>2
    <3> HIDE DEF l, k
    <3> QED  BY <2>1, <2>2, <3>1 DEF Sound, InMail
  <2> HIDE DEF k
  <2> QED  BY <2>1, <2>2 DEF Sound, InMail
<1>6. SymbolMail(p, ag)
  <2> SUFFICES ASSUME NEW n \in Managers, NEW j \in 1..Len(p[n]), p[n][j].kind = "symbol"
               PROVE  /\ p[n][j].id \in DOMAIN ag
                      /\ n \in ag[p[n][j].id].of \ (ag[p[n][j].id].results \cup ag[p[n][j].id].coming)
                      /\ \A i \in 1..Len(p[n]) : p[n][i].kind = "symbol" /\ i # j => p[n][i].id # p[n][j].id
    BY DEF SymbolMail
  <2> DEFINE k == at(n, j)
  <2>1. k \in 1..Len(ml[n]) /\ p[n][j] = ml[n][k]
    BY <1>2
  <2>2. ASSUME NEW i \in 1..Len(p[n]), p[n][i].kind = "symbol", i # j
        PROVE  p[n][i].id # p[n][j].id
    <3> DEFINE l == at(n, i)
    <3>1. l \in 1..Len(ml[n]) /\ p[n][i] = ml[n][l] /\ l # k
      BY <1>2, <1>3, <2>2
    <3> HIDE DEF l, k
    <3> QED  BY <2>1, <2>2, <3>1 DEF Sound, SymbolMail
  <2> HIDE DEF k
  <2> QED  BY <2>1, <2>2 DEF Sound, SymbolMail
<1>7. ASSUME h.kind = "document" PROVE InHand(w, p, ag, an, s, h.id)
  <2>1. Unanswered(ag, an, s, h.id)
    BY <1>2, <1>7 DEF Sound, InMail
  <2>2. NotAsked(w, h.id)
    BY <1>2, <1>7 DEF Sound, OnWire, NotMailed, NotAsked
  <2>3. NotMailed(p, h.id)
    <3> SUFFICES ASSUME NEW n \in Managers, NEW j \in 1..Len(p[n]), p[n][j].kind = "document"
                 PROVE  p[n][j].id # h.id
      BY DEF NotMailed
    <3> DEFINE k == at(n, j)
    <3>1. k \in 1..Len(ml[n]) /\ p[n][j] = ml[n][k] /\ (n # m \/ k # 1)
      BY <1>2
    <3> HIDE DEF k
    <3>2. InMail(ml, ag, an, s)
      BY DEF Sound
    <3> QED  BY <1>2, <1>7, <3>1, <3>2 DEF InMail
  <2> QED  BY <2>1, <2>2, <2>3 DEF InHand
<1>8. ASSUME h.kind = "symbol"
      PROVE  /\ NoSymbols(p, m, h.id) /\ h.id \in DOMAIN ag
             /\ m \in ag[h.id].of \ (ag[h.id].results \cup ag[h.id].coming)
  <2>1. NoSymbols(p, m, h.id)
    <3> SUFFICES ASSUME NEW j \in 1..Len(p[m]), p[m][j].kind = "symbol" PROVE p[m][j].id # h.id
      BY DEF NoSymbols
    <3> DEFINE k == at(m, j)
    <3>1. k \in 1..Len(ml[m]) /\ p[m][j] = ml[m][k] /\ k # 1
      BY <1>2
    <3> HIDE DEF k
    <3> QED  BY <1>2, <1>8, <3>1 DEF Sound, SymbolMail
  <2> QED  BY <1>2, <1>8, <2>1 DEF Sound, SymbolMail
<1>9. Sound(w, p, ag, an, s)
  BY <1>2, <1>4, <1>5, <1>6 DEF Sound, PlacesTyped
<1> QED  BY <1>7, <1>8, <1>9 DEF p, h

\* workspace/symbol that is in hand goes to all managers there are, and an
\* aggregator counts them.
SentTo(ml, ws, e) == [m \in Managers |-> IF m \in ws THEN Append(ml[m], e) ELSE ml[m]]
Counting(ag, id, ws) ==
  [i \in DOMAIN ag \cup {id} |->
     IF i # id THEN ag[i]
     ELSE [remaining |-> Cardinality(ws), results |-> {}, coming |-> {}, of |-> ws]]

LEMMA SentToIs ==
  ASSUME NEW ml \in [Managers -> Seq(Mail)], NEW ws \in SUBSET Managers, NEW e \in Mail
  PROVE  /\ SentTo(ml, ws, e) \in [Managers -> Seq(Mail)]
         /\ \A n \in Managers : \A j \in 1..Len(SentTo(ml, ws, e)[n]) :
              \/ j \in 1..Len(ml[n]) /\ SentTo(ml, ws, e)[n][j] = ml[n][j]
              \/ n \in ws /\ j = Len(ml[n]) + 1 /\ SentTo(ml, ws, e)[n][j] = e
<1> DEFINE q == SentTo(ml, ws, e)
<1>1. \A n \in Managers : ml[n] \in Seq(Mail) /\ Len(ml[n]) \in Nat
  OBVIOUS
<1>2. \A n \in Managers : q[n] = IF n \in ws THEN Append(ml[n], e) ELSE ml[n]
  BY DEF SentTo
<1>3. q \in [Managers -> Seq(Mail)]
  BY <1>1 DEF SentTo
<1> HIDE DEF q
<1>4. ASSUME NEW n \in Managers, NEW j \in 1..Len(q[n])
      PROVE  \/ j \in 1..Len(ml[n]) /\ q[n][j] = ml[n][j]
             \/ n \in ws /\ j = Len(ml[n]) + 1 /\ q[n][j] = e
  <2>1. CASE n \notin ws
    BY <1>2, <1>4, <2>1
  <2>2. CASE n \in ws
    <3>1. q[n] = Append(ml[n], e) /\ ml[n] \in Seq(Mail)
      BY <1>1, <1>2, <2>2
    <3>2. /\ Len(q[n]) = Len(ml[n]) + 1 /\ \A i \in 1..Len(ml[n]) : q[n][i] = ml[n][i]
          /\ q[n][Len(ml[n]) + 1] = e
      BY <3>1, AppendProperties
    <3> QED  BY <1>1, <2>2, <3>2
  <2> QED  BY <2>1, <2>2
<1> QED  BY <1>3, <1>4 DEF q

LEMMA PostSymbols ==
  ASSUME NEW w, NEW ml, NEW ag, NEW an, NEW s, Sound(w, ml, ag, an, s),
         NEW id, InHand(w, ml, ag, an, s, id), NEW ws \in SUBSET Managers, ws # {},
         NEW e \in Mail, e.kind = "symbol", e.id = id
  PROVE  Sound(w, SentTo(ml, ws, e), Counting(ag, id, ws), an, s)
<1> DEFINE q == SentTo(ml, ws, e)
           g == Counting(ag, id, ws)
<1>1. /\ ml \in [Managers -> Seq(Mail)] /\ ag \in [DOMAIN ag -> Aggregator]
      /\ DOMAIN ag \subseteq 1..s
  BY DEF Sound, PlacesTyped
<1>2. /\ q \in [Managers -> Seq(Mail)]
      /\ \A n \in Managers : \A j \in 1..Len(q[n]) :
           \/ j \in 1..Len(ml[n]) /\ q[n][j] = ml[n][j]
           \/ n \in ws /\ j = Len(ml[n]) + 1 /\ q[n][j] = e
  BY <1>1, SentToIs
<1>3. id \in 1..s /\ an[id] = <<>> /\ id \notin DOMAIN ag /\ NotAsked(w, id) /\ NotMailed(ml, id)
  BY DEF InHand, Unanswered
<1>4. /\ DOMAIN g = DOMAIN ag \cup {id}
      /\ g[id] = [remaining |-> Cardinality(ws), results |-> {}, coming |-> {}, of |-> ws]
      /\ \A i \in DOMAIN ag : g[i] = ag[i] /\ i # id
      /\ g = [i \in DOMAIN g |-> g[i]]
  BY <1>3 DEF Counting
<1>5. Cardinality(ws) \in Nat
  BY ServerAssumption, FS_Subset, FS_CardinalityType
<1> HIDE DEF q, g
<1>6. PlacesTyped(w, q, g, an, s)
  <2>1. g[id] \in Aggregator
    BY <1>4, <1>5 DEF Aggregator
  <2>2. \A i \in DOMAIN g : g[i] \in Aggregator
    BY <1>1, <1>4, <2>1
  <2>3. g \in [DOMAIN g -> Aggregator]
    BY <1>4, <2>2
  <2> QED  BY <1>1, <1>2, <1>3, <1>4, <2>3 DEF Sound, PlacesTyped
<1>7. \A i : i # id /\ Unanswered(ag, an, s, i) => Unanswered(g, an, s, i)
  BY <1>4 DEF Unanswered
<1>8. \A n \in Managers : \A j \in 1..Len(q[n]) :
        q[n][j].kind = "document" => j \in 1..Len(ml[n]) /\ q[n][j] = ml[n][j]
  BY <1>2
<1>9. OnWire(w, q, g, an, s)
  BY <1>3, <1>7, <1>8 DEF Sound, OnWire, NotAsked, NotMailed
<1>10. InMail(q, g, an, s)
  <2>1. InMail(ml, ag, an, s) /\ NotMailed(ml, id)
    BY <1>3 DEF Sound
  <2> SUFFICES ASSUME NEW m \in Managers, NEW j \in 1..Len(q[m]), q[m][j].kind = "document"
               PROVE  /\ Unanswered(g, an, s, q[m][j].id)
                      /\ \A n \in Managers : \A i \in 1..Len(q[n]) :
                           q[n][i].kind = "document" /\ (n # m \/ i # j) => q[n][i].id # q[m][j].id
    BY DEF InMail
  <2>2. j \in 1..Len(ml[m]) /\ q[m][j] = ml[m][j]
    BY <1>8
  <2>3. Unanswered(g, an, s, q[m][j].id)
    BY <1>7, <2>1, <2>2 DEF InMail, NotMailed
  <2> QED  BY <1>8, <2>1, <2>2, <2>3 DEF InMail
<1>11. SymbolMail(q, g)
  <2> SUFFICES ASSUME NEW m \in Managers, NEW j \in 1..Len(q[m]), q[m][j].kind = "symbol"
               PROVE  /\ q[m][j].id \in DOMAIN g
                      /\ m \in g[q[m][j].id].of \ (g[q[m][j].id].results \cup g[q[m][j].id].coming)
                      /\ \A i \in 1..Len(q[m]) :
                           q[m][i].kind = "symbol" /\ i # j => q[m][i].id # q[m][j].id
    BY DEF SymbolMail
  <2>1. \A i \in 1..Len(ml[m]) : ml[m][i].kind = "symbol" => ml[m][i].id \in DOMAIN ag
    BY DEF Sound, SymbolMail
  <2>2. CASE j \in 1..Len(ml[m]) /\ q[m][j] = ml[m][j]
    <3>1. \A i \in 1..Len(q[m]) : q[m][i].kind = "symbol" /\ i # j => q[m][i].id # q[m][j].id
      BY <1>2, <1>3, <2>1, <2>2 DEF Sound, SymbolMail
    <3> QED  BY <1>4, <2>1, <2>2, <3>1 DEF Sound, SymbolMail
  <2>3. CASE m \in ws /\ j = Len(ml[m]) + 1 /\ q[m][j] = e
    <3>1. \A i \in 1..Len(q[m]) : q[m][i].kind = "symbol" /\ i # j => q[m][i].id # q[m][j].id
      BY <1>2, <1>3, <2>1, <2>3
    <3> QED  BY <1>4, <2>3, <3>1
  <2> QED  BY <1>2, <2>2, <2>3
<1>12. Collected(g, an)
  <2>1. ws \ {} = ws
    OBVIOUS
  <2>2. Counts(g[id]) /\ an[id] = IF g[id].results = g[id].of THEN <<g[id].of>> ELSE <<>>
    BY <1>3, <1>4, <2>1 DEF Counts
  <2> QED  BY <1>4, <2>2 DEF Sound, Collected
<1> QED  BY <1>6, <1>9, <1>10, <1>11, <1>12 DEF Sound, q, g

\* A manager that was to find the symbols has found them.
LEMMA SymbolsFound ==
  ASSUME NEW w, NEW ml, NEW ag, NEW an, NEW s, Sound(w, ml, ag, an, s),
         NEW id \in DOMAIN ag, NEW m \in Managers, NoSymbols(ml, m, id),
         m \in ag[id].of \ (ag[id].results \cup ag[id].coming)
  PROVE  Sound(w, ml, [ag EXCEPT ![id].coming = @ \cup {m}], an, s)
<1> DEFINE g == [ag EXCEPT ![id].coming = @ \cup {m}]
<1>1. ag \in [DOMAIN ag -> Aggregator] /\ ag[id] \in Aggregator
  BY DEF Sound, PlacesTyped
<1>2. /\ DOMAIN g = DOMAIN ag /\ g \in [DOMAIN g -> Aggregator]
      /\ \A i \in DOMAIN ag : i # id => g[i] = ag[i]
      /\ g[id].coming = ag[id].coming \cup {m} /\ g[id].results = ag[id].results
      /\ g[id].of = ag[id].of /\ g[id].remaining = ag[id].remaining
  BY <1>1 DEF Aggregator
<1> HIDE DEF g
<1>3. PlacesTyped(w, ml, g, an, s)
  BY <1>2 DEF Sound, PlacesTyped
<1>4. \A i : Unanswered(ag, an, s, i) => Unanswered(g, an, s, i)
  BY <1>2 DEF Unanswered
<1>5. OnWire(w, ml, g, an, s) /\ InMail(ml, g, an, s)
  BY <1>4 DEF Sound, OnWire, InMail
<1>6. SymbolMail(ml, g)
  <2> SUFFICES ASSUME NEW n \in Managers, NEW j \in 1..Len(ml[n]), ml[n][j].kind = "symbol"
               PROVE  /\ ml[n][j].id \in DOMAIN g
                      /\ n \in g[ml[n][j].id].of \ (g[ml[n][j].id].results \cup g[ml[n][j].id].coming)
    BY DEF Sound, SymbolMail
  <2>1. /\ ml[n][j].id \in DOMAIN ag
        /\ n \in ag[ml[n][j].id].of \ (ag[ml[n][j].id].results \cup ag[ml[n][j].id].coming)
    BY DEF Sound, SymbolMail
  <2>2. CASE ml[n][j].id # id
    BY <1>2, <2>1, <2>2
  <2>3. CASE ml[n][j].id = id
    <3>1. n # m
      BY <2>3 DEF NoSymbols
    <3> QED  BY <1>2, <2>1, <2>3, <3>1
  <2> QED  BY <2>2, <2>3
<1>7. Collected(g, an)
  <2>1. Counts(ag[id])
    BY DEF Sound, Collected
  <2>2. Counts(g[id])
    BY <1>2, <2>1 DEF Counts
  <2> QED  BY <1>2, <2>2 DEF Sound, Collected
<1> QED  BY <1>3, <1>5, <1>6, <1>7 DEF Sound, g

\* The results of one manager are added; those of the last are the answer.
Added(a, m) ==
  [a EXCEPT !.remaining = @ - 1, !.results = @ \cup {m}, !.coming = @ \ {m}]
Settled(an, id, a) ==
  IF a.remaining = 0 THEN [an EXCEPT ![id] = Append(@, a.results)] ELSE an

LEMMA ResultsAdded ==
  ASSUME NEW w, NEW ml, NEW ag, NEW an, NEW s, Sound(w, ml, ag, an, s),
         NEW id \in DOMAIN ag, NEW m \in ag[id].coming
  PROVE  Sound(w, ml, [ag EXCEPT ![id] = Added(ag[id], m)],
               Settled(an, id, Added(ag[id], m)), s)
<1> DEFINE c == ag[id]
           a == Added(c, m)
           b == Settled(an, id, a)
           g == [ag EXCEPT ![id] = a]
<1>1. /\ ag \in [DOMAIN ag -> Aggregator] /\ c \in Aggregator /\ Counts(c)
      /\ an \in [Ids -> Seq(Values)] /\ id \in Ids /\ id \in 1..s /\ s \in Nat
      /\ an[id] = IF c.results = c.of THEN <<c.of>> ELSE <<>>
  BY ServerAssumption DEF Sound, PlacesTyped, Collected, Ids
<1>a. a = [c EXCEPT !.remaining = @ - 1, !.results = @ \cup {m}, !.coming = @ \ {m}]
  BY DEF Added
<1> HIDE DEF a, c
<1>2. /\ a.remaining = c.remaining - 1 /\ a.results = c.results \cup {m}
      /\ a.coming = c.coming \ {m} /\ a.of = c.of /\ DOMAIN a = DOMAIN c
      /\ a = [remaining |-> c.remaining - 1, results |-> c.results \cup {m},
              coming |-> c.coming \ {m}, of |-> c.of]
  BY <1>1, <1>a DEF Aggregator
<1>3. /\ DOMAIN g = DOMAIN ag /\ g[id] = a
      /\ \A i \in DOMAIN ag : i # id => g[i] = ag[i]
  BY <1>1
<1>c. b = IF a.remaining = 0 THEN [an EXCEPT ![id] = Append(@, a.results)] ELSE an
  BY DEF Settled
<1> HIDE DEF b, g
<1>4. m \in Managers /\ m \in c.coming /\ m \in c.of \ c.results /\ an[id] = <<>>
  BY <1>1 DEF Counts, Aggregator, c
<1> DEFINE left == c.of \ c.results
<1>5. IsFiniteSet(left) /\ Cardinality(left) \in Nat /\ c.remaining = Cardinality(left)
  <2>1. left \in SUBSET Managers
    BY <1>1 DEF Aggregator
  <2>2. IsFiniteSet(left)
    BY <2>1, ServerAssumption, FS_Subset
  <2> HIDE DEF left
  <2>3. Cardinality(left) \in Nat
    BY <2>2, FS_CardinalityType
  <2> QED  BY <1>1, <2>2, <2>3 DEF Counts, left
<1>6. /\ a.of \ a.results = left \ {m} /\ Cardinality(left \ {m}) = Cardinality(left) - 1
      /\ IsFiniteSet(left \ {m})
  <2>1. a.of \ a.results = left \ {m} /\ m \in left
    BY <1>2, <1>4
  <2> HIDE DEF left
  <2> QED  BY <1>5, <2>1, FS_RemoveElement
<1>7. a.remaining \in Nat /\ a.remaining = Cardinality(a.of \ a.results)
  <2>1. Cardinality(left \ {m}) \in Nat
    BY <1>6, FS_CardinalityType
  <2>2. a.remaining = c.remaining - 1 /\ c.remaining = Cardinality(left)
    BY <1>2, <1>5
  <2> HIDE DEF left
  <2> QED  BY <1>6, <2>1, <2>2
<1>8. a \in Aggregator /\ Counts(a)
  <2>1. a.results \subseteq a.of /\ a.coming \subseteq a.of /\ a.coming \cap a.results = {}
    BY <1>1, <1>2, <1>4 DEF Counts
  <2>2. a \in Aggregator
    BY <1>1, <1>2, <1>4, <1>7 DEF Aggregator
  <2> QED  BY <1>7, <2>1, <2>2 DEF Counts
<1>9. a.remaining = 0 <=> a.results = a.of
  <2>1. a.of \ a.results = {} <=> a.results = a.of
    BY <1>8 DEF Counts
  <2> HIDE DEF left
  <2> QED  BY <1>6, <1>7, <2>1, FS_EmptySet
<1>10. /\ b \in [Ids -> Seq(Values)] /\ (\A i \in Ids : i # id => b[i] = an[i])
       /\ b[id] = IF a.results = a.of THEN <<a.of>> ELSE <<>>
  <2>1. a.results \in Values
    BY <1>8 DEF Aggregator, Values
  <2>2. CASE a.remaining = 0
    <3>1. b = [an EXCEPT ![id] = Append(@, a.results)]
      BY <1>c, <2>2
    <3>2. Append(<<>>, a.results) = <<a.results>>
      OBVIOUS
    <3>3. <<a.results>> \in Seq(Values)
      BY <2>1
    <3> QED  BY <1>1, <1>4, <1>9, <2>2, <3>1, <3>2, <3>3
  <2>3. CASE a.remaining # 0
    BY <1>1, <1>4, <1>9, <1>c, <2>3
  <2> QED  BY <2>2, <2>3
<1>11. PlacesTyped(w, ml, g, b, s)
  <2>1. g \in [DOMAIN g -> Aggregator]
    BY <1>1, <1>3, <1>8 DEF g
  <2> QED  BY <1>3, <1>10, <2>1 DEF Sound, PlacesTyped
<1>12. \A i : Unanswered(ag, an, s, i) => Unanswered(g, b, s, i)
  <2>1. 1..s \subseteq Ids
    BY ServerAssumption DEF Sound, PlacesTyped, Ids
  <2> QED  BY <1>3, <1>10, <2>1 DEF Unanswered
<1>13. OnWire(w, ml, g, b, s) /\ InMail(ml, g, b, s)
  BY <1>12 DEF Sound, OnWire, InMail
<1>14. a.results \cup a.coming = c.results \cup c.coming
  BY <1>2, <1>4
<1>15. SymbolMail(ml, g)
  <2>1. \A i \in DOMAIN ag : g[i].of \ (g[i].results \cup g[i].coming)
                             = ag[i].of \ (ag[i].results \cup ag[i].coming)
    BY <1>2, <1>3, <1>14 DEF c
  <2> QED  BY <1>3, <2>1 DEF Sound, SymbolMail
<1>16. Collected(g, b)
  <2>1. DOMAIN ag \subseteq Ids
    BY ServerAssumption DEF Sound, PlacesTyped, Ids
  <2> QED  BY <1>3, <1>8, <1>10, <2>1 DEF Sound, Collected
<1>17. Once(b, s)
  <2>1. Len(b[id]) <= 1 /\ ~(id > s)
    <3>1. Len(<<a.of>>) <= 1 /\ Len(<<>>) <= 1
      OBVIOUS
    <3>2. Len(b[id]) <= 1
      BY <1>10, <3>1, Zenon
    <3> QED  BY <1>1, <3>2
  <2> QED  BY <1>10, <2>1 DEF Sound, Once
<1> QED  BY <1>11, <1>13, <1>15, <1>16, <1>17 DEF Sound, a, b, c, g

------------------------------------------------------------------------------
(* Every step of the server keeps requests in their places.                *)

InPlace == Sound(wire, mail, aggregators, answers, sent)
Where == <<wire, mail, aggregators, answers, sent>>

LEMMA ClientPlaces ==
  ASSUME EInv, InPlace, ClientStep \/ Responds PROVE InPlace'
<1>1. wire \in Seq(Messages) /\ sent \in Nat /\ Budget \in Nat /\ mine \in Nat
  BY ServerAssumption DEF EInv, ServerTyped
<1>2. ASSUME NEW x \in Messages, x.kind \notin RequestKinds, wire' = Append(wire, x),
             UNCHANGED <<mail, aggregators, answers>>, sent' = sent
      PROVE  InPlace'
  BY <1>2, TellWire DEF InPlace
<1>3. ASSUME NEW x \in Messages, x.kind \in RequestKinds, x.id = sent + 1, ClientAct(x)
      PROVE  InPlace'
  <2>1. /\ wire' = Append(wire, x) /\ sent' = sent + 1 /\ sent + 1 <= Budget
        /\ UNCHANGED <<mail, aggregators, answers>>
    BY <1>1, <1>3 DEF ClientAct, serverVars
  <2> QED  BY <1>3, <2>1, AskWire DEF InPlace
<1>4. ASSUME NEW kind \in RequestKinds, NEW m \in Managers \cup {NoResult, "object"},
             ClientAct(Asking(kind, m))
      PROVE  InPlace'
  <2>1. sent + 1 \in Ids
    BY <1>1, <1>4 DEF ClientAct, Ids
  <2>2. /\ Asking(kind, m) \in Messages /\ Asking(kind, m).kind \in RequestKinds
        /\ Asking(kind, m).id = sent + 1
    BY <2>1 DEF Asking, Messages, Asks
  <2> QED  BY <1>3, <1>4, <2>2
<1>5. ASSUME NEW kind \in {"initialized", "didOpen", "settings", "exit"},
             NEW m \in Managers \cup {NoResult} \cup Nat, ClientAct(Telling(kind, m))
      PROVE  InPlace'
  <2>1. Telling(kind, m) \in Messages /\ Telling(kind, m).kind \notin RequestKinds
    BY DEF Telling, Messages, Tells, RequestKinds
  <2>2. /\ wire' = Append(wire, Telling(kind, m)) /\ UNCHANGED <<mail, aggregators, answers>>
        /\ sent' = sent + 1 /\ sent + 1 <= Budget
    BY <1>1, <1>5 DEF ClientAct, serverVars
  <2> QED  BY <1>1, <2>1, <2>2, TellWire, LaterSound DEF InPlace
<1>6. CASE Responds
  <2>1. PICK r \in toAnswer, accepted \in BOOLEAN : Respond(r, accepted)
    BY <1>6 DEF Responds
  <2> DEFINE x == [kind |-> "response", id |-> r.id, ok |-> accepted, result |-> mine]
  <2>2. r.id \in Nat
    BY DEF EInv, ServerTyped, Expected
  <2>3. x \in Messages /\ x.kind \notin RequestKinds
    BY <1>1, <2>2 DEF Messages, Responses, RequestKinds
  <2>4. wire' = Append(wire, x) /\ UNCHANGED <<mail, aggregators, answers>> /\ sent' = sent
    BY <2>1 DEF Respond, serverVars
  <2> HIDE DEF x
  <2> QED  BY <1>2, <2>3, <2>4
<1>7. CASE ClientStep
  <2>1. {"initialize", "document", "symbol", "shutdown", "unknown"} \subseteq RequestKinds
    BY DEF RequestKinds
  <2>2. mine + 1 \in Nat
    BY <1>1
  <2> QED  BY <1>4, <1>5, <1>7, <2>1, <2>2
           DEF ClientStep, SendInitialize, SendInitialized, SendRequest, SendOpen, SendSettings,
               SendExit
<1> QED  BY <1>6, <1>7

LEMMA HandlerPlaces ==
  ASSUME EInv, InPlace, HandleWire PROVE InPlace'
<1> DEFINE x == Head(wire)
<1>1. wire # <<>> /\ wire' = Tail(wire) /\ sent' = sent
  BY DEF HandleWire, RequestRefused, HandleInitialize, IgnoreInitialize, HandleRouted,
         HandleSymbol, HandleShutdown, HandleUnknown, HandleInitialized, HandleDidOpen, HandleSettings, HandleExit,
         HandleResponse, Receive
<1>2. /\ Sound(wire', mail, aggregators, answers, sent) /\ x \in Messages
      /\ x.kind \in RequestKinds => InHand(wire', mail, aggregators, answers, sent, x.id)
  BY <1>1, TakeWire DEF InPlace
<1>3. ASSUME UNCHANGED <<mail, aggregators, answers>> PROVE InPlace'
  BY <1>1, <1>2, <1>3 DEF InPlace
<1>4. ASSUME x.kind \in RequestKinds, NEW v \in Values, Answer(x.id, v),
             UNCHANGED <<mail, aggregators>>
      PROVE  InPlace'
  BY <1>1, <1>2, <1>4, AnswerIt DEF InPlace, Answer
<1>5. /\ {"error"} \in Values /\ {"capabilities"} \in Values /\ {} \in Values
      /\ {"initialize", "document", "symbol", "shutdown", "unknown"} = RequestKinds
  BY DEF Values, RequestKinds
<1>6. x.kind \in RequestKinds => x.id \in Nat
  BY <1>2, MessageKinds, ServerAssumption DEF Asks, Ids
<1>7. workspaces \subseteq Managers /\ mail \in [Managers -> Seq(Mail)]
  BY DEF EInv, ServerTyped
<1>8. CASE RequestRefused
  BY <1>4, <1>5, <1>8 DEF RequestRefused, Message
<1>9. CASE HandleInitialize
  BY <1>4, <1>5, <1>9 DEF HandleInitialize, Receive, Message
<1>10. CASE HandleShutdown
  BY <1>4, <1>5, <1>10 DEF HandleShutdown, Receive, Message
<1>11. CASE HandleUnknown
  BY <1>4, <1>5, <1>11 DEF HandleUnknown, Receive, Message
<1>12. CASE IgnoreInitialize \/ HandleInitialized \/ HandleSettings \/ HandleExit \/ HandleResponse
  BY <1>3, <1>12 DEF IgnoreInitialize, HandleInitialized, HandleSettings, HandleExit, HandleResponse
<1>13. CASE HandleRouted
  <2>1. x.kind = "document"
    BY <1>13 DEF HandleRouted, Receive, Message
  <2>2. CASE x.of \in workspaces
    <3> DEFINE e == [kind |-> "document", id |-> x.id]
    <3>1. e \in Mail /\ e.kind = "document" /\ e.id = x.id
      BY <1>5, <1>6, <2>1 DEF Mail
    <3>2. mail' = Posted(mail, x.of, e) /\ UNCHANGED <<aggregators, answers>>
      BY <1>13, <2>2 DEF HandleRouted, Message, Posted
    <3>3. x.of \in Managers
      BY <1>7, <2>2
    <3> HIDE DEF e
    <3>4. Sound(wire', Posted(mail, x.of, e), aggregators, answers, sent)
      BY <1>2, <1>5, <2>1, <3>1, <3>3, PostDocument
    <3> QED  BY <1>1, <3>2, <3>4 DEF InPlace
  <2>3. CASE x.of \notin workspaces
    BY <1>4, <1>5, <1>13, <2>1, <2>3 DEF HandleRouted, Message
  <2> QED  BY <2>2, <2>3
<1>14. CASE HandleSymbol
  <2>1. x.kind = "symbol"
    BY <1>14 DEF HandleSymbol, Receive, Message
  <2>2. CASE workspaces = {}
    BY <1>4, <1>5, <1>14, <2>1, <2>2 DEF HandleSymbol, Message
  <2>3. CASE workspaces # {}
    <3> DEFINE e == [kind |-> "symbol", id |-> x.id]
    <3>1. e \in Mail /\ e.kind = "symbol" /\ e.id = x.id
      BY <1>5, <1>6, <2>1 DEF Mail
    <3>2. /\ mail' = SentTo(mail, workspaces, e)
          /\ aggregators' = Counting(aggregators, x.id, workspaces) /\ UNCHANGED answers
      BY <1>14, <2>3 DEF HandleSymbol, Message, SentTo, Counting, Count
    <3> HIDE DEF e
    <3>3. Sound(wire', SentTo(mail, workspaces, e), Counting(aggregators, x.id, workspaces),
                answers, sent)
      BY <1>2, <1>5, <1>7, <2>1, <2>3, <3>1, PostSymbols
    <3> QED  BY <1>1, <3>2, <3>3 DEF InPlace
  <2> QED  BY <2>2, <2>3
<1>15. CASE HandleDidOpen
  <2>1. CASE x.of \in workspaces
    <3> DEFINE e == [kind |-> "didOpen", id |-> 0]
    <3>1. e \in Mail /\ e.kind = "didOpen"
      BY DEF Mail
    <3>2. mail' = Posted(mail, x.of, e) /\ UNCHANGED <<aggregators, answers>>
      BY <1>15, <2>1 DEF HandleDidOpen, Message, Posted
    <3>3. x.of \in Managers
      BY <1>7, <2>1
    <3> HIDE DEF e
    <3>4. Sound(wire', Posted(mail, x.of, e), aggregators, answers, sent)
      BY <1>2, <3>1, <3>3, PostNotice
    <3> QED  BY <1>1, <3>2, <3>4 DEF InPlace
  <2>2. CASE x.of \notin workspaces
    BY <1>3, <1>15, <2>2 DEF HandleDidOpen, Message
  <2> QED  BY <2>1, <2>2
<1> QED  BY <1>8, <1>9, <1>10, <1>11, <1>12, <1>13, <1>14, <1>15 DEF HandleWire

LEMMA ManagerPlaces ==
  ASSUME EInv, InPlace, NEW m \in Managers, ManagerStep(m) PROVE InPlace'
<1> DEFINE h == Head(mail[m])
<1>1. CASE DoneCompiling(m)
  <2>1. UNCHANGED Where
    BY <1>1 DEF DoneCompiling, Where
  <2> QED  BY <2>1 DEF InPlace, Where
<1>2. ASSUME NEW kind, TakeMail(m, kind)
      PROVE  /\ mail' = Opened(mail, m) /\ h.kind = kind /\ UNCHANGED <<wire, sent>>
             /\ Sound(wire, Opened(mail, m), aggregators, answers, sent)
             /\ h.kind = "document" =>
                  InHand(wire, Opened(mail, m), aggregators, answers, sent, h.id)
             /\ h.kind = "symbol" =>
                  /\ NoSymbols(Opened(mail, m), m, h.id) /\ h.id \in DOMAIN aggregators
                  /\ m \in aggregators[h.id].of \ (aggregators[h.id].results
                                                    \cup aggregators[h.id].coming)
  <2>1. mail[m] # <<>> /\ mail' = Opened(mail, m) /\ h.kind = kind /\ UNCHANGED <<wire, sent>>
    BY <1>2 DEF TakeMail, Opened
  <2> QED  BY <2>1, TakeMailSound DEF InPlace
<1>3. CASE AnswerDocument(m)
  <2>1. TakeMail(m, "document") /\ Answer(h.id, {m}) /\ UNCHANGED aggregators
    BY <1>3 DEF AnswerDocument
  <2>2. {m} \in Values
    BY DEF Values
  <2> HIDE DEF h
  <2>3. /\ Sound(wire, Opened(mail, m), aggregators, answers, sent)
        /\ InHand(wire, Opened(mail, m), aggregators, answers, sent, h.id)
        /\ mail' = Opened(mail, m) /\ UNCHANGED <<wire, sent>>
    BY <1>2, <2>1
  <2>4. Sound(wire, Opened(mail, m), aggregators,
              [answers EXCEPT ![h.id] = Append(@, {m})], sent)
    BY <2>2, <2>3, AnswerIt
  <2> QED  BY <2>1, <2>3, <2>4 DEF InPlace, Answer
<1>4. CASE FindSymbols(m)
  <2>1. /\ TakeMail(m, "symbol") /\ UNCHANGED answers
        /\ aggregators' = [aggregators EXCEPT ![h.id].coming = @ \cup {m}]
    BY <1>4 DEF FindSymbols
  <2> HIDE DEF h
  <2>2. /\ Sound(wire, Opened(mail, m), aggregators, answers, sent)
        /\ NoSymbols(Opened(mail, m), m, h.id) /\ h.id \in DOMAIN aggregators
        /\ m \in aggregators[h.id].of \ (aggregators[h.id].results
                                          \cup aggregators[h.id].coming)
        /\ mail' = Opened(mail, m) /\ UNCHANGED <<wire, sent>>
    BY <1>2, <2>1
  <2>3. Sound(wire, Opened(mail, m), [aggregators EXCEPT ![h.id].coming = @ \cup {m}],
              answers, sent)
    BY <2>2, SymbolsFound
  <2> QED  BY <2>1, <2>2, <2>3 DEF InPlace
<1>5. ASSUME NEW p \in Packages, OpenAndCompile(m, p) PROVE InPlace'
  <2>1. TakeMail(m, "didOpen") /\ UNCHANGED <<answers, aggregators>>
    BY <1>5 DEF OpenAndCompile
  <2> QED  BY <1>2, <2>1 DEF InPlace
<1> QED  BY <1>1, <1>3, <1>4, <1>5 DEF ManagerStep

LEMMA AggregatorPlaces ==
  ASSUME InPlace, Aggregate PROVE InPlace'
<1>1. PICK id \in DOMAIN aggregators, m \in Managers : AddResults(id, m)
  BY DEF Aggregate
<1>2. /\ m \in aggregators[id].coming
      /\ aggregators' = [aggregators EXCEPT ![id] = Added(aggregators[id], m)]
      /\ answers' = Settled(answers, id, Added(aggregators[id], m))
      /\ UNCHANGED <<wire, mail, sent>>
  BY <1>1 DEF AddResults, IsLast, Answer, Added, Settled
<1>3. Sound(wire, mail, [aggregators EXCEPT ![id] = Added(aggregators[id], m)],
            Settled(answers, id, Added(aggregators[id], m)), sent)
  BY <1>2, ResultsAdded DEF InPlace
<1> QED  BY <1>2, <1>3 DEF InPlace

LEMMA PlacesKept == EInv /\ InPlace /\ [ServerNext]_allVars => InPlace'
<1> SUFFICES ASSUME EInv, InPlace, [ServerNext]_allVars PROVE InPlace'
  OBVIOUS
<1>1. CASE SendToClient \/ Dispose \/ TakeSettings \/ RunCompiler \/ UNCHANGED allVars
  <2>1. UNCHANGED Where
    BY <1>1 DEF SendToClient, Dispose, TakeSettings, RunCompiler, allVars, serverVars, clientVars,
                Where
  <2> QED  BY <2>1 DEF InPlace, Where
<1> QED  BY <1>1, ClientPlaces, HandlerPlaces, ManagerPlaces, AggregatorPlaces DEF ServerNext

\* A request of the client is in no two places, on the wire, in the mail of one
\* manager or with an aggregator, and in none of the first two once it is answered
\* (language_server.pony:110-180, workspace_router.pony:48-64).
THEOREM RequestsHaveOnePlace == ServerSpec => []InPlace
<1>1. ServerInit => InPlace
  <2> SUFFICES ASSUME ServerInit PROVE InPlace
    OBVIOUS
  <2>1. /\ wire = <<>> /\ mail = [m \in Managers |-> <<>>] /\ aggregators = <<>>
        /\ answers = [id \in Ids |-> <<>>] /\ sent = 0
    BY DEF ServerInit
  <2>2. DOMAIN aggregators = {}
    BY <2>1
  <2>3. PlacesTyped(wire, mail, aggregators, answers, sent)
    <3>1. aggregators \in [{} -> Aggregator]
      BY <2>1
    <3> QED  BY <2>1, <2>2, <3>1, ServerAssumption DEF PlacesTyped
  <2>4. OnWire(wire, mail, aggregators, answers, sent)
    BY <2>1 DEF OnWire
  <2>5. InMail(mail, aggregators, answers, sent) /\ SymbolMail(mail, aggregators)
    BY <2>1 DEF InMail, SymbolMail
  <2>6. Collected(aggregators, answers) /\ Once(answers, sent)
    BY <2>1, <2>2 DEF Collected, Once
  <2> QED  BY <2>3, <2>4, <2>5, <2>6 DEF InPlace, Sound
<1> QED  BY <1>1, PlacesKept, ServerInvariant, PTL DEF ServerSpec

\* No request of the client is answered twice, by whichever way it goes
\* (language_server.pony:181-284, workspace_symbol_aggregator.pony:21-28).
THEOREM RequestsAnsweredOnce == ServerSpec => []AnsweredOnce
<1>1. InPlace => AnsweredOnce
  BY DEF InPlace, Sound, Once, AnsweredOnce
<1> QED  BY <1>1, RequestsHaveOnePlace, PTL

\* workspace/symbol is answered once and with the symbols of every workspace
\* there was when it was asked (workspace_symbol_aggregator.pony:21-28).
THEOREM SymbolsComeWhole == ServerSpec => []SymbolAnswerIsWhole
<1>1. InPlace => SymbolAnswerIsWhole
  BY DEF InPlace, Sound, Collected, SymbolAnswerIsWhole
<1> QED  BY <1>1, RequestsHaveOnePlace, PTL

-----------------------------------------------------------------------------
(***************************************************************************)
(* The client's settings reach the compiler, whatever else is on the way   *)
(* and however often they change.  Two ways lead there: the client pushes  *)
(* them, or is asked for them; both end in the compiler's mailbox.  No     *)
(* value on either overtakes a newer one, and until the newest has arrived *)
(* it is on one of them.                                                   *)
(***************************************************************************)

\* A message the value of which is for the compiler, or would be if it answers
\* a request for the settings.
Carries(x) == x.kind = "response" \/ (x.kind = "settings" /\ x.of # NoResult)
Value(x) == IF x.kind = "response" THEN x.result ELSE x.of

\* What is on the wire is newer than what is in the mailbox, and that newer than
\* what the compiler has; 0 stands for no settings, and changes nothing.
Ordered(w, ml, s, top) ==
  /\ w \in Seq(Messages) /\ ml \in Seq(Nat) /\ top \in Nat /\ s \in 0..top
  /\ \A i \in 1..Len(ml) :
       /\ ml[i] \in 0..top
       /\ ml[i] = 0 \/ s <= ml[i]
       /\ \A j \in 1..Len(ml) : i < j => ml[j] = 0 \/ ml[i] <= ml[j]
  /\ \A k \in 1..Len(w) : Carries(w[k]) =>
       /\ Value(w[k]) \in s..top
       /\ \A i \in 1..Len(ml) : ml[i] <= Value(w[k])
       /\ \A l \in 1..Len(w) : Carries(w[l]) /\ k < l => Value(w[k]) <= Value(w[l])

\* The newest value is held, carried, or about to be asked for: so it will be when
\* the server hears that the client is initialized.
Held == {settings} \cup ToSet(settingsMail)
Brings(x) ==
  \/ x.kind = "settings" /\ x.of \in {mine, NoResult}
  \/ /\ x.kind = "response" /\ x.result = mine
     /\ \E e \in ToSet(expecting) : e.id = x.id /\ e.method = "configuration"
  \/ x.kind = "initialized" /\ CanAsk
Coming ==
  \/ mine \in Held
  \/ \E x \in ToSet(wire) : Brings(x)
  \/ \E q \in ToSet(sends) \cup toAnswer : q.method = "configuration"

\* A change that was told of before initialize may have gone unheard; the client will
\* be asked once it says that it is initialized.
Unasked == "configuration" \in caps /\ initialized # "yes"

\* Only a client that can be asked sends a change without the settings.
Pulls ==
  \A x \in ToSet(wire) : x.kind = "settings" =>
    x.of \in Nat \/ (x.of = NoResult /\ "configuration" \in caps)

SInv ==
  /\ Ordered(wire, settingsMail, settings, mine)
  /\ Pulls
  /\ state # "shuttingDown" => Coming \/ Unasked

------------------------------------------------------------------------------
(* The elements of a sequence.                                             *)

LEMMA Elements ==
  ASSUME NEW S, NEW s \in Seq(S), NEW e \in S
  PROVE  ToSet(s) \subseteq S /\ ToSet(Append(s, e)) = ToSet(s) \cup {e}
<1>1. DOMAIN s = 1..Len(s) /\ Len(s) \in Nat
  OBVIOUS
<1>2. ToSet(s) \subseteq S
  BY <1>1 DEF ToSet
<1> DEFINE t == Append(s, e)
<1>3. /\ DOMAIN t = 1..(Len(s) + 1) /\ t[Len(s) + 1] = e
      /\ \A k \in 1..Len(s) : t[k] = s[k]
  OBVIOUS
<1> HIDE DEF t
<1>4. 1..(Len(s) + 1) = 1..Len(s) \cup {Len(s) + 1}
  BY <1>1
<1>5. ToSet(t) = ToSet(s) \cup {e}
  BY <1>1, <1>3, <1>4 DEF ToSet
<1> QED  BY <1>2, <1>5 DEF t

LEMMA ElementsOfTail ==
  ASSUME NEW S, NEW s \in Seq(S), s # <<>>
  PROVE  ToSet(s) = {Head(s)} \cup ToSet(Tail(s))
<1> DEFINE t == Tail(s)
<1>1. /\ DOMAIN s = 1..Len(s) /\ Len(s) \in Nat \ {0} /\ Head(s) = s[1]
      /\ DOMAIN t = 1..(Len(s) - 1) /\ \A k \in 1..(Len(s) - 1) : t[k] = s[k + 1]
  BY HeadTailProperties
<1> HIDE DEF t
<1>2. \A k \in 1..Len(s) : k = 1 \/ k - 1 \in 1..(Len(s) - 1)
  BY <1>1
<1>3. \A k \in 1..Len(s) : s[k] = Head(s) \/ s[k] \in ToSet(t)
  <2> TAKE k \in 1..Len(s)
  <2>1. CASE k - 1 \in 1..(Len(s) - 1)
    <3>1. t[k - 1] = s[k]
      BY <1>1, <2>1
    <3> QED  BY <1>1, <2>1, <3>1 DEF ToSet
  <2> QED  BY <1>1, <1>2, <2>1
<1>4. \A k \in 1..(Len(s) - 1) : k + 1 \in 1..Len(s) /\ t[k] = s[k + 1]
  BY <1>1
<1>5. ToSet(t) \subseteq ToSet(s)
  BY <1>1, <1>4 DEF ToSet
<1>6. Head(s) \in ToSet(s)
  BY <1>1 DEF ToSet
<1>7. ToSet(s) \subseteq {Head(s)} \cup ToSet(t)
  BY <1>1, <1>3 DEF ToSet
<1> QED  BY <1>5, <1>6, <1>7 DEF t

LEMMA ElementsOfConcat ==
  ASSUME NEW S, NEW a \in Seq(S), NEW b \in Seq(S)
  PROVE  ToSet(a \o b) = ToSet(a) \cup ToSet(b)
<1> DEFINE t == a \o b
<1>1. /\ DOMAIN a = 1..Len(a) /\ DOMAIN b = 1..Len(b) /\ Len(a) \in Nat /\ Len(b) \in Nat
      /\ DOMAIN t = 1..(Len(a) + Len(b))
      /\ \A k \in 1..(Len(a) + Len(b)) : t[k] = IF k <= Len(a) THEN a[k] ELSE b[k - Len(a)]
  OBVIOUS
<1> HIDE DEF t
<1>2. \A k \in 1..Len(a) : k \in DOMAIN t /\ t[k] = a[k]
  BY <1>1
<1>3. \A k \in 1..Len(b) : k + Len(a) \in DOMAIN t /\ t[k + Len(a)] = b[k]
  BY <1>1
<1>4. \A k \in DOMAIN t : (k \in DOMAIN a /\ t[k] = a[k])
                          \/ (k - Len(a) \in DOMAIN b /\ t[k] = b[k - Len(a)])
  BY <1>1
<1>5. ToSet(a) \subseteq ToSet(t)
  BY <1>1, <1>2 DEF ToSet
<1>6. ToSet(b) \subseteq ToSet(t)
  BY <1>1, <1>3 DEF ToSet
<1>7. ToSet(t) \subseteq ToSet(a) \cup ToSet(b)
  BY <1>4 DEF ToSet
<1> QED  BY <1>5, <1>6, <1>7 DEF t

\* All but one are there still.
LEMMA ElementsWithout ==
  ASSUME NEW S, NEW s \in Seq(S), NEW i \in 1..Len(s)
  PROVE  ToSet(s) \subseteq ToSet(RemoveAt(s, i)) \cup {s[i]}
<1> DEFINE t == RemoveAt(s, i)
<1>1. /\ DOMAIN t = 1..(Len(s) - 1) /\ DOMAIN s = 1..Len(s)
      /\ \A k \in 1..(Len(s) - 1) : t[k] = s[IF k < i THEN k ELSE k + 1]
  BY Without
<1> HIDE DEF t
<1>2. ASSUME NEW k \in 1..Len(s), k # i PROVE s[k] \in ToSet(t)
  <2>1. CASE k < i
    <3>1. k \in 1..(Len(s) - 1) /\ t[k] = s[k]
      BY <1>1, <2>1
    <3> QED  BY <1>1, <3>1 DEF ToSet
  <2>2. CASE k > i
    <3>1. k - 1 \in 1..(Len(s) - 1) /\ t[k - 1] = s[k]
      BY <1>1, <2>2
    <3> QED  BY <1>1, <3>1 DEF ToSet
  <2> QED  BY <1>2, <2>1, <2>2
<1> QED  BY <1>1, <1>2 DEF ToSet, t

------------------------------------------------------------------------------
(* Order.                                                                  *)

\* The server takes a message; if it has a value, that goes to the mailbox.
LEMMA TakenInOrder ==
  ASSUME NEW w, NEW ml, NEW s, NEW top, Ordered(w, ml, s, top), w # <<>>
  PROVE  /\ Ordered(Tail(w), ml, s, top)
         /\ Carries(Head(w)) => Ordered(Tail(w), Append(ml, Value(Head(w))), s, top)
<1> DEFINE t == Tail(w)
<1>1. /\ t \in Seq(Messages) /\ Len(t) = Len(w) - 1 /\ Len(w) \in Nat \ {0}
      /\ \A k \in 1..Len(t) : k + 1 \in 1..Len(w) /\ t[k] = w[k + 1]
      /\ Head(w) = w[1] /\ 1 \in 1..Len(w)
  BY HeadTailProperties DEF Ordered
<1> HIDE DEF t
<1>2. \A k \in 1..Len(t) : Carries(t[k]) =>
        /\ Value(t[k]) \in s..top
        /\ \A i \in 1..Len(ml) : ml[i] <= Value(t[k])
        /\ \A l \in 1..Len(t) : Carries(t[l]) /\ k < l => Value(t[k]) <= Value(t[l])
  <2> SUFFICES ASSUME NEW k \in 1..Len(t), Carries(t[k])
               PROVE  /\ Value(t[k]) \in s..top
                      /\ \A i \in 1..Len(ml) : ml[i] <= Value(t[k])
                      /\ \A l \in 1..Len(t) : Carries(t[l]) /\ k < l => Value(t[k]) <= Value(t[l])
    OBVIOUS
  <2>1. k + 1 \in 1..Len(w) /\ Carries(w[k + 1]) /\ t[k] = w[k + 1]
    BY <1>1
  <2>2. \A l \in 1..Len(t) : k < l => l + 1 \in 1..Len(w) /\ k + 1 < l + 1 /\ t[l] = w[l + 1]
    BY <1>1
  <2> QED  BY <2>1, <2>2 DEF Ordered
<1>3. Ordered(t, ml, s, top)
  BY <1>1, <1>2 DEF Ordered
<1>4. ASSUME Carries(Head(w)) PROVE Ordered(t, Append(ml, Value(Head(w))), s, top)
  <2> DEFINE v == Value(Head(w))
             m == Append(ml, v)
  <2>1. /\ v \in s..top /\ \A i \in 1..Len(ml) : ml[i] <= v
    BY <1>1, <1>4 DEF Ordered
  <2>2. \A k \in 1..Len(t) : Carries(t[k]) => v <= Value(t[k])
    <3> SUFFICES ASSUME NEW k \in 1..Len(t), Carries(t[k]) PROVE v <= Value(t[k])
      OBVIOUS
    <3>1. k + 1 \in 1..Len(w) /\ t[k] = w[k + 1] /\ 1 < k + 1
      BY <1>1
    <3> QED  BY <1>1, <1>4, <3>1 DEF Ordered
  <2> HIDE DEF v
  <2>3. ml \in Seq(Nat) /\ s \in Nat /\ top \in Nat
    BY DEF Ordered
  <2>4. v \in Nat
    BY <2>1, <2>3
  <2>5. /\ m \in Seq(Nat) /\ Len(m) = Len(ml) + 1 /\ Len(ml) \in Nat /\ m[Len(ml) + 1] = v
        /\ \A i \in 1..Len(ml) : m[i] = ml[i]
    BY <2>3, <2>4
  <2> HIDE DEF m
  <2>6. \A i \in 1..Len(m) :
          /\ m[i] \in 0..top
          /\ m[i] = 0 \/ s <= m[i]
          /\ \A j \in 1..Len(m) : i < j => m[j] = 0 \/ m[i] <= m[j]
    <3> SUFFICES ASSUME NEW i \in 1..Len(m)
                 PROVE  /\ m[i] \in 0..top
                        /\ m[i] = 0 \/ s <= m[i]
                        /\ \A j \in 1..Len(m) : i < j => m[j] = 0 \/ m[i] <= m[j]
      OBVIOUS
    <3>1. CASE i = Len(ml) + 1
      <4>1. m[i] = v /\ \A j \in 1..Len(m) : ~(i < j)
        BY <2>5, <3>1
      <4> QED  BY <2>1, <2>3, <2>4, <4>1
    <3>2. CASE i \in 1..Len(ml)
      <4>1. /\ ml[i] \in 0..top /\ (ml[i] = 0 \/ s <= ml[i])
            /\ \A j \in 1..Len(ml) : i < j => ml[j] = 0 \/ ml[i] <= ml[j]
        BY <3>2 DEF Ordered
      <4>2. \A j \in 1..Len(m) : j \in 1..Len(ml) \/ m[j] = v
        BY <2>5
      <4> QED  BY <2>1, <2>5, <3>2, <4>1, <4>2
    <3> QED  BY <2>5, <3>1, <3>2
  <2>7. \A k \in 1..Len(t) : Carries(t[k]) => \A i \in 1..Len(m) : m[i] <= Value(t[k])
    <3> SUFFICES ASSUME NEW k \in 1..Len(t), Carries(t[k]), NEW i \in 1..Len(m)
                 PROVE  m[i] <= Value(t[k])
      OBVIOUS
    <3>1. i \in 1..Len(ml) \/ m[i] = v
      BY <2>5
    <3> QED  BY <1>2, <2>2, <2>5, <3>1
  <2>8. Ordered(t, m, s, top)
    BY <1>1, <1>2, <1>3, <2>5, <2>6, <2>7 DEF Ordered
  <2> QED  BY <2>8 DEF m, v
<1> QED  BY <1>3, <1>4 DEF t

\* "No settings" is put into the mailbox.
LEMMA NoneInOrder ==
  ASSUME NEW w, NEW ml, NEW s, NEW top, Ordered(w, ml, s, top)
  PROVE  Ordered(w, Append(ml, 0), s, top)
<1> DEFINE m == Append(ml, 0)
<1>1. /\ m \in Seq(Nat) /\ Len(m) = Len(ml) + 1 /\ Len(ml) \in Nat /\ m[Len(ml) + 1] = 0
      /\ \A i \in 1..Len(ml) : m[i] = ml[i]
  BY DEF Ordered
<1> HIDE DEF m
<1>2. s \in Nat /\ top \in Nat
  BY DEF Ordered
<1>3. \A i \in 1..Len(m) : i \in 1..Len(ml) \/ (i = Len(ml) + 1 /\ m[i] = 0)
  BY <1>1
<1>4. \A i \in 1..Len(m) :
        /\ m[i] \in 0..top
        /\ m[i] = 0 \/ s <= m[i]
        /\ \A j \in 1..Len(m) : i < j => m[j] = 0 \/ m[i] <= m[j]
  <2> TAKE i \in 1..Len(m)
  <2>1. CASE i \in 1..Len(ml)
    BY <1>1, <1>3, <2>1 DEF Ordered
  <2>2. CASE i = Len(ml) + 1
    <3>1. m[i] = 0 /\ \A j \in 1..Len(m) : ~(i < j)
      BY <1>1, <2>2
    <3> QED  BY <1>2, <3>1
  <2> QED  BY <1>3, <2>1, <2>2
<1>5. \A k \in 1..Len(w) : Carries(w[k]) => \A i \in 1..Len(m) : m[i] <= Value(w[k])
  <2> SUFFICES ASSUME NEW k \in 1..Len(w), Carries(w[k]), NEW i \in 1..Len(m)
               PROVE  m[i] <= Value(w[k])
    OBVIOUS
  <2>1. Value(w[k]) \in s..top /\ \A j \in 1..Len(ml) : ml[j] <= Value(w[k])
    BY DEF Ordered
  <2> QED  BY <1>1, <1>2, <1>3, <2>1
<1>6. Ordered(w, m, s, top)
  BY <1>1, <1>4, <1>5 DEF Ordered
<1> QED  BY <1>6 DEF m

\* The client says something: if it has a value, that is the newest there is.
LEMMA SaidInOrder ==
  ASSUME NEW w, NEW ml, NEW s, NEW top, Ordered(w, ml, s, top),
         NEW x \in Messages, NEW new \in Nat, new >= top, Carries(x) => Value(x) = new
  PROVE  Ordered(Append(w, x), ml, s, new)
<1> DEFINE t == Append(w, x)
<1>1. /\ t \in Seq(Messages) /\ Len(t) = Len(w) + 1 /\ Len(w) \in Nat
      /\ (\A k \in 1..Len(w) : t[k] = w[k]) /\ t[Len(w) + 1] = x
  BY DEF Ordered
<1> HIDE DEF t
<1>2. s \in 0..top /\ top \in Nat /\ ml \in Seq(Nat)
  BY DEF Ordered
<1>3. s \in 0..new
  BY <1>2
<1>4. \A i \in 1..Len(ml) :
        /\ ml[i] \in 0..new
        /\ ml[i] = 0 \/ s <= ml[i]
        /\ \A j \in 1..Len(ml) : i < j => ml[j] = 0 \/ ml[i] <= ml[j]
  <2> TAKE i \in 1..Len(ml)
  <2>1. /\ ml[i] \in 0..top
        /\ ml[i] = 0 \/ s <= ml[i]
        /\ \A j \in 1..Len(ml) : i < j => ml[j] = 0 \/ ml[i] <= ml[j]
    BY DEF Ordered
  <2>2. ml[i] \in 0..new
    BY <1>2, <2>1
  <2> QED  BY <2>1, <2>2
<1>5. ASSUME NEW k \in 1..Len(w), Carries(w[k])
      PROVE  /\ Value(w[k]) \in s..top
             /\ \A i \in 1..Len(ml) : ml[i] <= Value(w[k])
             /\ \A l \in 1..Len(w) : Carries(w[l]) /\ k < l => Value(w[k]) <= Value(w[l])
  BY <1>5 DEF Ordered
<1>6. \A k \in 1..Len(t) : k \in 1..Len(w) \/ (k = Len(w) + 1 /\ t[k] = x)
  BY <1>1
<1>7. \A k \in 1..Len(t) : Carries(t[k]) =>
        /\ Value(t[k]) \in s..new
        /\ \A i \in 1..Len(ml) : ml[i] <= Value(t[k])
        /\ \A l \in 1..Len(t) : Carries(t[l]) /\ k < l => Value(t[k]) <= Value(t[l])
  <2> SUFFICES ASSUME NEW k \in 1..Len(t), Carries(t[k])
               PROVE  /\ Value(t[k]) \in s..new
                      /\ \A i \in 1..Len(ml) : ml[i] <= Value(t[k])
                      /\ \A l \in 1..Len(t) : Carries(t[l]) /\ k < l => Value(t[k]) <= Value(t[l])
    OBVIOUS
  <2>1. CASE k \in 1..Len(w)
    <3>1. /\ Carries(w[k]) /\ t[k] = w[k]
      BY <1>1, <2>1
    <3>2. Value(w[k]) \in s..new /\ Value(w[k]) <= new
      BY <1>2, <1>5, <2>1, <3>1
    <3>3. \A l \in 1..Len(t) : Carries(t[l]) /\ k < l => Value(t[k]) <= Value(t[l])
      <4> SUFFICES ASSUME NEW l \in 1..Len(t), Carries(t[l]), k < l PROVE Value(t[k]) <= Value(t[l])
        OBVIOUS
      <4>1. CASE l \in 1..Len(w)
        BY <1>1, <1>5, <2>1, <3>1, <4>1
      <4>2. CASE t[l] = x
        BY <3>1, <3>2, <4>2
      <4> QED  BY <1>6, <4>1, <4>2
    <3> QED  BY <1>5, <2>1, <3>1, <3>2, <3>3
  <2>2. CASE k = Len(w) + 1
    <3>1. Value(t[k]) = new /\ \A l \in 1..Len(t) : ~(k < l)
      BY <1>1, <2>2
    <3> QED  BY <1>3, <1>4, <3>1
  <2> QED  BY <1>6, <2>1, <2>2
<1>8. Ordered(t, ml, s, new)
  BY <1>1, <1>2, <1>3, <1>4, <1>7 DEF Ordered
<1> QED  BY <1>8 DEF t

\* The compiler takes what is in its mailbox.
LEMMA GivenInOrder ==
  ASSUME NEW w, NEW ml, NEW s, NEW top, Ordered(w, ml, s, top), ml # <<>>
  PROVE  /\ Ordered(w, Tail(ml), IF Head(ml) = 0 THEN s ELSE Head(ml), top)
         /\ s = top \/ top \in ToSet(ml) =>
              top \in {IF Head(ml) = 0 THEN s ELSE Head(ml)} \cup ToSet(Tail(ml))
<1> DEFINE t == Tail(ml)
           h == Head(ml)
           n == IF h = 0 THEN s ELSE h
<1>1. /\ t \in Seq(Nat) /\ Len(t) = Len(ml) - 1 /\ Len(ml) \in Nat \ {0}
      /\ \A k \in 1..Len(t) : k + 1 \in 1..Len(ml) /\ t[k] = ml[k + 1] /\ 1 < k + 1
      /\ h = ml[1] /\ 1 \in 1..Len(ml) /\ s \in 0..top /\ top \in Nat
  BY HeadTailProperties DEF Ordered
<1>2. ToSet(ml) = {h} \cup ToSet(t)
  BY ElementsOfTail DEF Ordered
<1>3. h \in 0..top /\ (h = 0 \/ s <= h)
  BY <1>1 DEF Ordered
<1> HIDE DEF t, h
<1>4. n \in 0..top /\ (h = 0 \/ s <= n) /\ (n = s \/ n = h)
  BY <1>1, <1>3
<1> HIDE DEF n
<1>5. \A i \in 1..Len(t) :
        /\ t[i] \in 0..top
        /\ t[i] = 0 \/ n <= t[i]
        /\ \A j \in 1..Len(t) : i < j => t[j] = 0 \/ t[i] <= t[j]
  <2> SUFFICES ASSUME NEW i \in 1..Len(t)
               PROVE  /\ t[i] \in 0..top
                      /\ t[i] = 0 \/ n <= t[i]
                      /\ \A j \in 1..Len(t) : i < j => t[j] = 0 \/ t[i] <= t[j]
    OBVIOUS
  <2>1. i + 1 \in 1..Len(ml) /\ t[i] = ml[i + 1] /\ 1 < i + 1
    BY <1>1
  <2>2. \A j \in 1..Len(t) : i < j => j + 1 \in 1..Len(ml) /\ t[j] = ml[j + 1] /\ i + 1 < j + 1
    BY <1>1
  <2>3. t[i] \in 0..top /\ (t[i] = 0 \/ s <= t[i]) /\ (t[i] = 0 \/ h <= t[i])
    BY <1>1, <2>1 DEF Ordered
  <2>4. \A j \in 1..Len(t) : i < j => t[j] = 0 \/ t[i] <= t[j]
    BY <2>1, <2>2 DEF Ordered
  <2> QED  BY <1>4, <2>3, <2>4
<1>6. \A k \in 1..Len(w) : Carries(w[k]) =>
        /\ Value(w[k]) \in n..top
        /\ \A i \in 1..Len(t) : t[i] <= Value(w[k])
  <2> SUFFICES ASSUME NEW k \in 1..Len(w), Carries(w[k])
               PROVE  Value(w[k]) \in n..top /\ \A i \in 1..Len(t) : t[i] <= Value(w[k])
    OBVIOUS
  <2>1. Value(w[k]) \in s..top /\ \A i \in 1..Len(ml) : ml[i] <= Value(w[k])
    BY DEF Ordered
  <2>2. h <= Value(w[k])
    BY <1>1, <2>1
  <2>3. n <= Value(w[k])
    BY <1>4, <2>1, <2>2
  <2>4. \A i \in 1..Len(t) : t[i] <= Value(w[k])
    BY <1>1, <2>1
  <2>5. n \in 0..top /\ Value(w[k]) \in 0..top
    BY <1>1, <1>4, <2>1
  <2> QED  BY <1>1, <2>1, <2>3, <2>4, <2>5
<1>7. Ordered(w, t, n, top)
  BY <1>1, <1>4, <1>5, <1>6 DEF Ordered
<1>8. ASSUME s = top \/ top \in ToSet(ml) PROVE top \in {n} \cup ToSet(t)
  <2>1. CASE s = top
    BY <1>1, <1>3, <2>1 DEF n
  <2>2. CASE top = h
    BY <1>1, <2>2 DEF n
  <2> QED  BY <1>2, <1>8, <2>1, <2>2
<1> QED  BY <1>7, <1>8 DEF t, h, n

------------------------------------------------------------------------------
(* What is coming stays so.                                                *)

LEMMA ComingStays ==
  ASSUME SInv, mine' = mine, state' # "shuttingDown" => state # "shuttingDown",
         Unasked => Unasked' \/ Coming',
         mine \in Held => mine' \in Held' \/ Coming',
         \A x \in ToSet(wire) : Brings(x) => (x \in ToSet(wire') /\ Brings(x)') \/ Coming',
         \A q \in ToSet(sends) \cup toAnswer : q.method = "configuration" =>
           q \in ToSet(sends') \cup toAnswer' \/ Coming'
  PROVE  state' # "shuttingDown" => Coming' \/ Unasked'
  BY DEF SInv, Coming

\* Whoever else does something: what is on the way stays there.
LEMMA OthersKeepSettings ==
  ASSUME SInv, UNCHANGED <<settings, settingsMail, wire, expecting, toAnswer, mine, caps,
                           initialized, state>>,
         ToSet(sends) \subseteq ToSet(sends')
  PROVE  SInv'
<1>1. Ordered(wire, settingsMail, settings, mine)'
  BY DEF SInv
<1>2. Pulls'
  BY DEF SInv, Pulls
<1>3. (\A x : Brings(x)' <=> Brings(x)) /\ (Unasked => Unasked')
  BY DEF Brings, CanAsk, Known, Unasked
<1>4. state' # "shuttingDown" => Coming' \/ Unasked'
  BY <1>3, ComingStays DEF SInv, Held
<1> QED  BY <1>1, <1>2, <1>4 DEF SInv

\* The client says something, and its settings are as they were.
LEMMA ActKeepsSettings ==
  ASSUME EInv, SInv, NEW x \in Messages, ClientAct(x), ~Carries(x), x.kind # "settings", mine' = mine,
         initialized' = "yes" => initialized = "yes" \/ (x.kind = "initialized" /\ Known)
  PROVE  SInv'
<1>1. /\ wire' = Append(wire, x)
      /\ UNCHANGED <<settings, settingsMail, expecting, toAnswer, sends, caps, state>>
  BY DEF ClientAct, serverVars
<1>2. wire \in Seq(Messages) /\ mine \in Nat
  BY DEF EInv, ServerTyped
<1>3. ToSet(wire') = ToSet(wire) \cup {x}
  BY <1>1, <1>2, Elements
<1>4. Ordered(wire, settingsMail, settings, mine)'
  <2>1. mine >= mine
    BY <1>2
  <2>2. Ordered(Append(wire, x), settingsMail, settings, mine)
    BY <1>2, <2>1, SaidInOrder DEF SInv
  <2> QED  BY <1>1, <2>2
<1>5. Pulls'
  BY <1>1, <1>3 DEF SInv, Pulls
<1>6. \A y : Brings(y)' <=> Brings(y)
  BY <1>1 DEF Brings, CanAsk, Known
<1>7. Unasked => Unasked' \/ Coming'
  <2>1. CASE initialized' = "yes" => initialized = "yes"
    BY <1>1, <2>1 DEF Unasked
  <2>2. CASE x.kind = "initialized" /\ Known
    <3>1. Unasked => Brings(x)
      BY <2>2 DEF Unasked, Brings, CanAsk
    <3> QED  BY <1>3, <1>6, <3>1 DEF Coming
  <2> QED  BY <2>1, <2>2
<1>8. state' # "shuttingDown" => Coming' \/ Unasked'
  BY <1>1, <1>3, <1>6, <1>7, ComingStays DEF SInv, Held
<1> QED  BY <1>4, <1>5, <1>8 DEF SInv

\* The settings change: the client says so.
LEMMA ChangeKeepsSettings ==
  ASSUME EInv, SInv, SendSettings
  PROVE  SInv'
<1>1. PICK of \in {mine + 1, NoResult} :
        ClientAct(Telling("settings", of)) /\ (of = NoResult => "configuration" \in caps)
  BY ServerAssumption DEF SendSettings, EInv, ServerTyped
<1> DEFINE x == Telling("settings", of)
<1>2. /\ wire' = Append(wire, x) /\ mine' = mine + 1
      /\ UNCHANGED <<settings, settingsMail, caps>>
  BY <1>1 DEF SendSettings, ClientAct, serverVars
<1>3. wire \in Seq(Messages) /\ mine \in Nat /\ mine + 1 \in Nat /\ mine + 1 >= mine
  BY DEF EInv, ServerTyped
<1>4. x \in Messages /\ x.kind = "settings" /\ x.of = of
  BY <1>1, <1>3 DEF Messages, Tells, Telling
<1>5. Carries(x) => Value(x) = mine + 1
  BY <1>1, <1>4 DEF Carries, Value
<1> HIDE DEF x
<1>6. ToSet(wire') = ToSet(wire) \cup {x}
  BY <1>2, <1>3, <1>4, Elements
<1>7. Ordered(wire, settingsMail, settings, mine)'
  <2>1. Ordered(Append(wire, x), settingsMail, settings, mine + 1)
    BY <1>3, <1>4, <1>5, SaidInOrder DEF SInv
  <2> QED  BY <1>2, <2>1
<1>8. Pulls'
  BY <1>1, <1>2, <1>3, <1>4, <1>6 DEF SInv, Pulls
<1>9. Coming'
  <2>1. Brings(x)'
    BY <1>1, <1>2, <1>4 DEF Brings
  <2> QED  BY <1>6, <2>1 DEF Coming
<1> QED  BY <1>7, <1>8, <1>9 DEF SInv

\* The client answers: if it was asked for its settings, with the newest.
LEMMA RespondKeepsSettings ==
  ASSUME EInv, SInv, NEW r \in toAnswer, NEW accepted \in BOOLEAN, Respond(r, accepted)
  PROVE  SInv'
<1>1. /\ wire \in Seq(Messages) /\ mine \in Nat /\ mine >= mine /\ r \in Expected
      /\ expecting \in Seq(Expected)
  BY DEF EInv, ServerTyped
<1>2. PICK x \in Messages :
        x = [kind |-> "response", id |-> r.id, ok |-> accepted, result |-> mine]
  BY <1>1 DEF Messages, Responses, Expected
<1>3. /\ wire' = Append(wire, x) /\ toAnswer' = toAnswer \ {r}
      /\ x.kind = "response" /\ x.id = r.id /\ x.result = mine
      /\ UNCHANGED <<settings, settingsMail, expecting, sends, mine, caps, initialized, state>>
  BY <1>2 DEF Respond, serverVars
<1>4. Carries(x) => Value(x) = mine
  BY <1>3 DEF Value
<1>5. ToSet(wire') = ToSet(wire) \cup {x}
  BY <1>1, <1>3, Elements
<1>6. Ordered(wire, settingsMail, settings, mine)'
  <2>1. Ordered(Append(wire, x), settingsMail, settings, mine)
    BY <1>1, <1>3, <1>4, SaidInOrder DEF SInv
  <2> QED  BY <1>3, <2>1
<1>7. Pulls'
  BY <1>3, <1>5 DEF SInv, Pulls
<1>8. ASSUME r.method = "configuration" PROVE Coming'
  <2>1. PICK i \in 1..Len(expecting) : expecting[i] = r
    BY DEF EInv, Expectations
  <2>2. r \in ToSet(expecting')
    BY <1>1, <1>3, <2>1 DEF ToSet
  <2>3. Brings(x)'
    BY <1>3, <1>8, <2>2 DEF Brings
  <2> QED  BY <1>5, <2>3 DEF Coming
<1>9. (\A y : Brings(y)' <=> Brings(y)) /\ (Unasked => Unasked')
  BY <1>3 DEF Brings, CanAsk, Known, Unasked
<1>10. state' # "shuttingDown" => Coming' \/ Unasked'
  BY <1>3, <1>5, <1>8, <1>9, ComingStays DEF SInv, Held
<1> QED  BY <1>6, <1>7, <1>10 DEF SInv

\* The server sends what it was told to.
LEMMA SendKeepsSettings ==
  ASSUME EInv, SInv, SendToClient
  PROVE  SInv'
<1> DEFINE r == [id |-> idGen, method |-> Head(sends).method, token |-> Head(sends).token]
<1>1. /\ sends # <<>> /\ sends' = Tail(sends) /\ toAnswer' = toAnswer \cup {r}
      /\ expecting' = Append(expecting, r)
      /\ UNCHANGED <<wire, settings, settingsMail, mine, caps, initialized, state>>
  BY DEF SendToClient
<1>2. /\ sends \in Seq(Sendings) /\ expecting \in Seq(Expected) /\ idGen \in Nat
  BY DEF EInv, ServerTyped
<1>3. Head(sends) \in Sendings
  BY <1>1, <1>2, HeadTailProperties
<1>4. r \in Expected /\ r.method = Head(sends).method
  BY <1>2, <1>3 DEF Sendings, Expected
<1> HIDE DEF r
<1>5. ToSet(sends) = {Head(sends)} \cup ToSet(sends')
  BY <1>1, <1>2, ElementsOfTail
<1>6. ToSet(expecting') = ToSet(expecting) \cup {r}
  BY <1>1, <1>2, <1>4, Elements
<1>7. (\A x : Brings(x) => Brings(x)') /\ (Unasked => Unasked')
  BY <1>1, <1>6 DEF Brings, CanAsk, Known, Unasked
<1>8. ASSUME Head(sends).method = "configuration" PROVE Coming'
  BY <1>1, <1>4, <1>8 DEF Coming
<1>9. state' # "shuttingDown" => Coming' \/ Unasked'
  BY <1>1, <1>5, <1>7, <1>8, ComingStays DEF SInv, Held
<1>10. Ordered(wire, settingsMail, settings, mine)' /\ Pulls'
  BY <1>1 DEF SInv, Pulls
<1> QED  BY <1>9, <1>10 DEF SInv

\* The compiler takes a message from its mailbox.
LEMMA TakeKeepsSettings ==
  ASSUME SInv, TakeSettings
  PROVE  SInv'
<1>1. /\ settingsMail # <<>> /\ settingsMail' = Tail(settingsMail)
      /\ settings' = IF Head(settingsMail) = 0 THEN settings ELSE Head(settingsMail)
      /\ UNCHANGED <<wire, expecting, sends, toAnswer, mine, caps, initialized, state>>
  BY DEF TakeSettings, clientVars
<1>2. Ordered(wire, settingsMail, settings, mine)' /\ (mine \in Held => mine \in Held')
  BY <1>1, GivenInOrder DEF SInv, Held
<1>3. Pulls'
  BY <1>1 DEF SInv, Pulls
<1>4. (\A x : Brings(x)' <=> Brings(x)) /\ (Unasked => Unasked')
  BY <1>1 DEF Brings, CanAsk, Known, Unasked
<1>5. state' # "shuttingDown" => Coming' \/ Unasked'
  BY <1>1, <1>2, <1>4, ComingStays DEF SInv
<1> QED  BY <1>2, <1>3, <1>5 DEF SInv

\* The server takes a message that is not about settings, and perhaps tells the
\* compiler that there are none.
LEMMA HandlerKeepsSettings ==
  ASSUME EInv, SInv, wire # <<>>, wire' = Tail(wire), Head(wire).kind \notin {"settings", "response"},
         UNCHANGED <<settings, expecting, toAnswer, mine, caps, initialized>>,
         settingsMail' \in {settingsMail, Append(settingsMail, 0)},
         state' \in {state, "shuttingDown"} \/ (~Known /\ Known'),
         ToSet(sends) \subseteq ToSet(sends'),
         Head(wire).kind = "initialized" /\ CanAsk => Coming'
  PROVE  SInv'
<1>1. /\ wire \in Seq(Messages) /\ settingsMail \in Seq(Nat) /\ 0 \in Nat
  BY DEF EInv, ServerTyped, SInv, Ordered
<1>2. ToSet(wire) = {Head(wire)} \cup ToSet(wire')
  BY <1>1, ElementsOfTail
<1>3. Ordered(wire, settingsMail, settings, mine)'
  <2>1. Ordered(Tail(wire), settingsMail, settings, mine)
    BY TakenInOrder DEF SInv
  <2>2. Ordered(Tail(wire), Append(settingsMail, 0), settings, mine)
    BY <2>1, NoneInOrder
  <2> QED  BY <2>1, <2>2
<1>4. Pulls'
  BY <1>2 DEF SInv, Pulls
<1>5. Held \subseteq Held'
  <2>1. ToSet(settingsMail) \subseteq ToSet(Append(settingsMail, 0))
    BY <1>1, Elements
  <2>2. ToSet(settingsMail) \subseteq ToSet(settingsMail')
    BY <2>1
  <2> QED  BY <2>2 DEF Held
<1>6. (\A x : Brings(x) => Brings(x)') /\ (Unasked => Unasked')
  BY DEF Brings, CanAsk, Known, Unasked
<1>7. Brings(Head(wire)) => Coming'
  BY DEF Brings
<1>8. state' # "shuttingDown" => Coming' \/ Unasked'
  <2>1. state' # "shuttingDown" => state # "shuttingDown"
    BY DEF Known
  <2> QED  BY <1>2, <1>5, <1>6, <1>7, <2>1, ComingStays
<1> QED  BY <1>3, <1>4, <1>8 DEF SInv

\* The server hears of a change: it passes it on, or asks.
LEMMA SettingsKeepsSettings ==
  ASSUME EInv, SInv, HandleSettings
  PROVE  SInv'
<1>1. PICK x \in Messages : x = Head(wire)
  BY HeadTailProperties DEF HandleSettings, Receive, EInv, ServerTyped
<1>2. /\ wire # <<>> /\ wire' = Tail(wire) /\ x.kind = "settings"
      /\ UNCHANGED <<settings, expecting, toAnswer, mine, caps, initialized, state>>
      /\ IF x.of = NoResult
           THEN sends' = sends \o Pulled /\ UNCHANGED settingsMail
           ELSE settingsMail' = Append(settingsMail, x.of) /\ UNCHANGED sends
  BY <1>1 DEF HandleSettings, Receive, Message
<1>3. /\ wire \in Seq(Messages) /\ sends \in Seq(Sendings) /\ settingsMail \in Seq(Nat) /\ mine \in Nat
  BY DEF EInv, ServerTyped, SInv, Ordered
<1>4. ToSet(wire) = {x} \cup ToSet(wire')
  BY <1>1, <1>2, <1>3, ElementsOfTail
<1>5. x.of \in Nat \/ (x.of = NoResult /\ "configuration" \in caps)
  BY <1>2, <1>4 DEF SInv, Pulls
<1>6. /\ Sending("configuration", NoResult) \in Sendings
      /\ Sending("configuration", NoResult).method = "configuration"
  BY DEF Sending, Sendings, Methods, Tokens
<1>7. Pulled \in Seq(Sendings) /\ ToSet(sends \o Pulled) = ToSet(sends) \cup ToSet(Pulled)
  <2>1. Pulled \in Seq(Sendings)
    BY <1>6 DEF Pulled
  <2> QED  BY <1>3, <2>1, ElementsOfConcat
<1>8. Ordered(wire, settingsMail, settings, mine)'
  <2>1. Ordered(Tail(wire), settingsMail, settings, mine)
    BY <1>2, TakenInOrder DEF SInv
  <2>2. x.of # NoResult => Ordered(Tail(wire), Append(settingsMail, x.of), settings, mine)
    <3>1. x.of # NoResult => Carries(x) /\ Value(x) = x.of
      BY <1>2 DEF Carries, Value
    <3> QED  BY <1>1, <1>2, <3>1, TakenInOrder DEF SInv
  <2> QED  BY <1>2, <2>1, <2>2
<1>9. Pulls'
  BY <1>2, <1>4 DEF SInv, Pulls
<1>10. ToSet(settingsMail) \subseteq ToSet(settingsMail') /\ ToSet(sends) \subseteq ToSet(sends')
  <2>1. x.of \in Nat => ToSet(Append(settingsMail, x.of)) = ToSet(settingsMail) \cup {x.of}
    BY <1>3, Elements
  <2> QED  BY <1>2, <1>5, <1>7, <2>1
<1>11. (\A y : Brings(y)' <=> Brings(y)) /\ (Unasked' <=> Unasked)
  BY <1>2 DEF Brings, CanAsk, Known, Unasked
<1>12. ASSUME Brings(x), ~Unasked PROVE Coming'
  <2>1. CASE x.of = NoResult
    <3>1. CanAsk
      BY <1>5, <1>12, <2>1, ServerAssumption DEF EInv, NothingYet, Unasked, CanAsk, Known
    <3>2. Sending("configuration", NoResult) \in ToSet(Pulled)
      BY <3>1 DEF Pulled, ToSet
    <3>3. Sending("configuration", NoResult) \in ToSet(sends')
      BY <1>2, <1>7, <2>1, <3>2
    <3> QED  BY <1>6, <3>3 DEF Coming
  <2>2. CASE x.of # NoResult
    <3>1. x.of = mine
      BY <1>2, <1>12, <2>2 DEF Brings
    <3>2. ToSet(Append(settingsMail, mine)) = ToSet(settingsMail) \cup {mine}
      BY <1>3, Elements
    <3>3. mine \in ToSet(settingsMail')
      BY <1>2, <2>2, <3>1, <3>2
    <3> QED  BY <1>2, <3>3 DEF Coming, Held
  <2> QED  BY <2>1, <2>2
<1>13. state' # "shuttingDown" => Coming' \/ Unasked'
  <2>1. CASE Unasked
    BY <1>11, <2>1
  <2>2. CASE ~Unasked
    BY <1>2, <1>4, <1>10, <1>11, <1>12, <2>2, ComingStays DEF Held
  <2> QED  BY <2>1, <2>2
<1> QED  BY <1>8, <1>9, <1>13 DEF SInv

\* The server hears an answer: if it asked for the settings, they go to the
\* compiler.
LEMMA ResponseKeepsSettings ==
  ASSUME EInv, SInv, HandleResponse
  PROVE  SInv'
<1>1. PICK x \in Messages : x = Head(wire)
  BY HeadTailProperties DEF HandleResponse, EInv, ServerTyped
<1>2. /\ wire # <<>> /\ wire' = Tail(wire) /\ x.kind = "response"
      /\ UNCHANGED <<settings, sends, toAnswer, mine, caps, initialized, state>>
  BY <1>1 DEF HandleResponse, Message
<1>3. /\ wire \in Seq(Messages) /\ expecting \in Seq(Expected) /\ settingsMail \in Seq(Nat)
  BY DEF EInv, ServerTyped, SInv, Ordered
<1>4. ToSet(wire) = {x} \cup ToSet(wire')
  BY <1>1, <1>2, <1>3, ElementsOfTail
<1>5. Carries(x) /\ Value(x) = x.result /\ x.result \in Nat
  <2>1. x \in Responses
    BY <1>2, MessageKinds
  <2> QED  BY <1>2, <2>1 DEF Carries, Value, Responses
<1>6. /\ Ordered(Tail(wire), settingsMail, settings, mine)
      /\ Ordered(Tail(wire), Append(settingsMail, x.result), settings, mine)
  BY <1>1, <1>2, <1>5, TakenInOrder DEF SInv
<1>7. Pulls'
  BY <1>2, <1>4 DEF SInv, Pulls
<1>8. CASE state = "shuttingDown"
  <2>1. UNCHANGED settingsMail
    BY <1>8 DEF HandleResponse
  <2> QED  BY <1>2, <1>6, <1>7, <1>8, <2>1 DEF SInv
<1>9. CASE state # "shuttingDown"
  <2>1. PICK i \in 1..Len(expecting) : expecting[i].id = x.id
    <3>1. wire[1] = x /\ 1 \in 1..Len(wire)
      BY <1>1, <1>2, <1>3
    <3> QED  BY <1>2, <3>1 DEF EInv, OnTheirWay
  <2>2. Matches(x.id) = {i}
    BY <2>1 DEF Matches, EInv, Expectations
  <2>3. (CHOOSE k \in Matches(x.id) : \A j \in Matches(x.id) : k <= j) = i
    BY <2>2
  <2>4. /\ expecting' = RemoveAt(expecting, i)
        /\ settingsMail' = IF expecting[i].method # "configuration" THEN settingsMail
                           ELSE Append(settingsMail, x.result)
    BY <1>1, <1>9, <2>2, <2>3 DEF HandleResponse, Message
  <2>5. Ordered(wire, settingsMail, settings, mine)'
    BY <1>2, <1>6, <2>4
  <2>6. ToSet(settingsMail) \subseteq ToSet(settingsMail')
    BY <1>3, <1>5, <2>4, Elements
  <2>7. ToSet(expecting) \subseteq ToSet(expecting') \cup {expecting[i]}
    BY <1>3, <2>4, ElementsWithout
  <2>8. ASSUME Brings(x) PROVE Coming'
    <3>1. x.result = mine /\ expecting[i].method = "configuration"
      <4>1. PICK e \in ToSet(expecting) : e.id = x.id /\ e.method = "configuration"
        BY <1>2, <2>8 DEF Brings
      <4>2. PICK j \in 1..Len(expecting) : expecting[j] = e
        BY <1>3 DEF ToSet
      <4>3. j = i
        BY <2>1, <4>1, <4>2 DEF EInv, Expectations
      <4> QED  BY <1>2, <2>8, <4>1, <4>2, <4>3 DEF Brings
    <3>2. mine \in ToSet(settingsMail')
      BY <1>3, <1>5, <2>4, <3>1, Elements
    <3> QED  BY <1>2, <3>2 DEF Coming, Held
  <2>9. ASSUME NEW y \in ToSet(wire'), Brings(y), y # x PROVE Brings(y)'
    <3>1. CASE y.kind = "settings"
      BY <1>2, <2>9, <3>1 DEF Brings
    <3>2. CASE y.kind = "response"
      <4>1. y.id # x.id
        <5>1. PICK k \in 1..Len(wire) : wire[k] = y
          <6>1. DOMAIN wire = 1..Len(wire) /\ y \in ToSet(wire)
            BY <1>3, <1>4
          <6> QED  BY <6>1 DEF ToSet
        <5>2. wire[1] = x /\ 1 \in 1..Len(wire)
          BY <1>1, <1>2, <1>3
        <5> QED  BY <1>2, <2>9, <3>2, <5>1, <5>2 DEF EInv, OnTheirWay
      <4>2. PICK e \in ToSet(expecting) : e.id = y.id /\ e.method = "configuration"
        BY <2>9, <3>2 DEF Brings
      <4>3. e \in ToSet(expecting')
        BY <2>1, <2>7, <4>1, <4>2
      <4> QED  BY <1>2, <2>9, <3>2, <4>2, <4>3 DEF Brings
    <3>3. CASE y.kind = "initialized"
      BY <1>2, <2>9, <3>3 DEF Brings, CanAsk, Known
    <3> QED  BY <2>9, <3>1, <3>2, <3>3 DEF Brings
  <2>10. Coming' \/ Unasked'
    <3>1. Unasked => Unasked'
      BY <1>2 DEF Unasked
    <3>2. mine \in Held => mine' \in Held'
      BY <1>2, <2>6 DEF Held
    <3>3. \A y \in ToSet(wire) : Brings(y) => (y \in ToSet(wire') /\ Brings(y)') \/ Coming'
      BY <1>4, <2>8, <2>9
    <3> QED  BY <1>2, <1>9, <3>1, <3>2, <3>3, ComingStays
  <2> QED  BY <1>7, <2>5, <2>10 DEF SInv
<1> QED  BY <1>8, <1>9

------------------------------------------------------------------------------

LEMMA ClientKeepsSettings ==
  ASSUME EInv, SInv, ClientStep
  PROVE  SInv'
<1>1. ASSUME NEW kind \in {"initialized", "didOpen", "exit"}, NEW m \in Managers \cup {NoResult},
             ClientAct(Telling(kind, m)), mine' = mine,
             initialized' = "yes" => initialized = "yes" \/ (kind = "initialized" /\ Known)
      PROVE  SInv'
  <2>1. /\ Telling(kind, m) \in Messages /\ Telling(kind, m).kind = kind
    BY DEF Telling, Messages, Tells
  <2> QED  BY <1>1, <2>1, ActKeepsSettings DEF Carries
<1>2. ASSUME NEW kind \in RequestKinds, NEW m \in Managers \cup {NoResult, "object"},
             ClientAct(Asking(kind, m)), UNCHANGED <<mine, initialized>>
      PROVE  SInv'
  <2>1. sent + 1 \in Ids
    BY <1>2, ServerAssumption DEF ClientAct, EInv, ServerTyped, Ids
  <2>2. /\ Asking(kind, m) \in Messages /\ Asking(kind, m).kind = kind
    BY <2>1 DEF Asking, Messages, Asks
  <2> QED  BY <1>2, <2>2, ActKeepsSettings DEF Carries, RequestKinds
<1>3. CASE SendSettings
  BY <1>3, ChangeKeepsSettings
<1>4. CASE SendInitialize
  BY <1>2, <1>4 DEF SendInitialize, RequestKinds
<1>5. CASE SendInitialized
  BY <1>1, <1>5 DEF SendInitialized, Known
<1>6. CASE SendExit
  BY <1>1, <1>6 DEF SendExit
<1>7. ASSUME NEW m \in Managers, SendRequest("document", m) \/ SendOpen(m) PROVE SInv'
  BY <1>1, <1>2, <1>7 DEF SendRequest, SendOpen, RequestKinds
<1>8. ASSUME NEW kind \in {"symbol", "shutdown", "unknown"}, SendRequest(kind, NoResult) PROVE SInv'
  BY <1>2, <1>8 DEF SendRequest, RequestKinds
<1> QED  BY <1>3, <1>4, <1>5, <1>6, <1>7, <1>8 DEF ClientStep

LEMMA WireKeepsSettings ==
  ASSUME EInv, SInv, HandleWire
  PROVE  SInv'
<1>1. sends \in Seq(Sendings)
  BY DEF EInv, ServerTyped
<1>2. ASSUME NEW kind \in RequestKinds \cup {"initialized", "didOpen", "exit"}, Receive(kind),
             UNCHANGED expecting, settingsMail' \in {settingsMail, Append(settingsMail, 0)},
             state' \in {state, "shuttingDown"} \/ (~Known /\ Known'),
             ToSet(sends) \subseteq ToSet(sends'), kind = "initialized" /\ CanAsk => Coming'
      PROVE  SInv'
  <2>1. /\ wire # <<>> /\ wire' = Tail(wire) /\ Head(wire).kind = kind
        /\ UNCHANGED <<settings, toAnswer, mine, caps, initialized>>
    BY <1>2 DEF Receive, Message
  <2> QED  BY <1>2, <2>1, HandlerKeepsSettings DEF RequestKinds
<1>3. CASE RequestRefused
  BY <1>2, <1>3 DEF RequestRefused, RequestKinds
<1>4. CASE HandleInitialize
  BY <1>2, <1>4 DEF HandleInitialize, RequestKinds, Known
<1>5. CASE HandleRouted
  BY <1>2, <1>5 DEF HandleRouted, RequestKinds
<1>6. CASE HandleSymbol
  BY <1>2, <1>6 DEF HandleSymbol, RequestKinds
<1>7. CASE HandleShutdown
  BY <1>2, <1>7 DEF HandleShutdown, RequestKinds
<1>8. CASE HandleUnknown
  BY <1>2, <1>8 DEF HandleUnknown, RequestKinds
<1>9. CASE HandleInitialized
  <2> DEFINE a == IF CanRegister THEN <<Sending("register", NoResult)>> ELSE <<>>
             b == IF CanAsk THEN <<Sending("configuration", NoResult)>> ELSE <<>>
  <2>1. /\ Sending("register", NoResult) \in Sendings
        /\ Sending("configuration", NoResult) \in Sendings
    BY DEF Sending, Sendings, Methods, Tokens
  <2>2. a \in Seq(Sendings) /\ b \in Seq(Sendings)
    BY <2>1
  <2>3. sends' = sends \o a \o b
    BY <1>9 DEF HandleInitialized
  <2> HIDE DEF a, b
  <2>4. sends \o a \in Seq(Sendings) /\ ToSet(sends) \subseteq ToSet(sends \o a)
    BY <1>1, <2>2, ElementsOfConcat
  <2>5. ToSet((sends \o a) \o b) = ToSet(sends \o a) \cup ToSet(b)
    BY <2>2, <2>4, ElementsOfConcat
  <2>6. ToSet(sends) \subseteq ToSet(sends')
    BY <2>3, <2>4, <2>5
  <2>7. ASSUME CanAsk PROVE Coming'
    <3>1. Sending("configuration", NoResult) \in ToSet(b)
      BY <2>7 DEF b, ToSet
    <3> QED  BY <2>3, <2>5, <3>1 DEF Coming, Sending
  <2> QED  BY <1>2, <1>9, <2>6, <2>7 DEF HandleInitialized
<1>10. CASE HandleDidOpen
  BY <1>2, <1>10 DEF HandleDidOpen
<1>11. CASE HandleExit
  BY <1>2, <1>11 DEF HandleExit
<1>12. CASE IgnoreInitialize
  BY <1>2, <1>12 DEF IgnoreInitialize, RequestKinds
<1> QED  BY <1>3, <1>4, <1>5, <1>6, <1>7, <1>8, <1>9, <1>10, <1>11, <1>12, SettingsKeepsSettings,
            ResponseKeepsSettings DEF HandleWire

LEMMA ManagersKeepSettings ==
  ASSUME TypeOK, EInv, SInv, NEW m \in Managers, ManagerStep(m)
  PROVE  SInv'
<1>1. /\ \A p \in Packages : Sending("progress", Token(m, p)) \in Sendings
      /\ Sending("refresh", NoResult) \in Sendings
  BY DEF TypeOK, Sending, Sendings, Methods, Tokens, Token
<1>2. \A s \in Sendings : ToSet(sends) \subseteq ToSet(Append(sends, s))
  BY Elements DEF EInv, ServerTyped
<1>3. ASSUME UNCHANGED <<settings, settingsMail, wire, expecting, toAnswer, mine, caps, initialized,
                         state>>,
             sends' = sends \/ \E s \in Sendings : sends' = Append(sends, s)
      PROVE  SInv'
  BY <1>2, <1>3, OthersKeepSettings
<1>4. CASE AnswerDocument(m)
  BY <1>3, <1>4 DEF AnswerDocument, TakeMail
<1>5. CASE FindSymbols(m)
  BY <1>3, <1>5 DEF FindSymbols, TakeMail
<1>6. CASE DoneCompiling(m)
  BY <1>1, <1>3, <1>6 DEF DoneCompiling
<1>7. ASSUME NEW p \in Packages, OpenAndCompile(m, p) PROVE SInv'
  BY <1>1, <1>3, <1>7 DEF OpenAndCompile, TakeMail
<1> QED  BY <1>4, <1>5, <1>6, <1>7 DEF ManagerStep

\* What is on its way between client and compiler is in order, and the newest
\* settings are held, carried, or about to be asked for.
THEOREM SettingsOnTheirWay == ServerSpec => []SInv
<1>1. ServerInit => SInv
  <2> SUFFICES ASSUME ServerInit PROVE SInv
    OBVIOUS
  <2>1. /\ wire = <<>> /\ settingsMail = <<>> /\ settings = 0 /\ mine = 0
    BY DEF ServerInit
  <2>2. Ordered(wire, settingsMail, settings, mine)
    BY <2>1 DEF Ordered
  <2>3. Pulls
    BY <2>1 DEF Pulls, ToSet
  <2>4. Coming
    BY <2>1 DEF Coming, Held
  <2> QED  BY <2>2, <2>3, <2>4 DEF SInv
<1>2. TypeOK /\ EInv /\ SInv /\ [ServerNext]_allVars => SInv'
  <2> SUFFICES ASSUME TypeOK, EInv, SInv, [ServerNext]_allVars PROVE SInv'
    OBVIOUS
  <2>1. CASE ClientStep
    BY <2>1, ClientKeepsSettings
  <2>2. CASE Responds
    BY <2>2, RespondKeepsSettings DEF Responds
  <2>3. CASE HandleWire
    BY <2>3, WireKeepsSettings
  <2>4. CASE SendToClient
    BY <2>4, SendKeepsSettings
  <2>5. CASE Dispose
    BY <2>5, OthersKeepSettings DEF Dispose, clientVars
  <2>6. ASSUME NEW m \in Managers, ManagerStep(m) PROVE SInv'
    BY <2>6, ManagersKeepSettings
  <2>7. CASE Aggregate
    BY <2>7, OthersKeepSettings DEF Aggregate, AddResults
  <2>8. CASE TakeSettings
    BY <2>8, TakeKeepsSettings
  <2>9. CASE RunCompiler
    BY <2>9, OthersKeepSettings DEF RunCompiler, serverVars, clientVars
  <2>10. CASE UNCHANGED allVars
    BY <2>10, OthersKeepSettings DEF allVars, serverVars, clientVars
  <2> QED  BY <2>1, <2>2, <2>3, <2>4, <2>5, <2>6, <2>7, <2>8, <2>9, <2>10 DEF ServerNext
<1>3. ServerSpec => []TypeOK
  BY ServerKeepsProtocol, TypeCorrect, PTL
<1> QED  BY <1>1, <1>2, <1>3, ServerInvariant, PTL DEF ServerSpec

\* When nothing is on its way the compiler has the client's settings, pushed or
\* pulled, however often they have changed (language_server.pony:545-609, 288-329).
THEOREM SettingsArrive == ServerSpec => []SettingsSettle
<1>1. SInv => SettingsSettle
  <2> SUFFICES ASSUME SInv, wire = <<>>, sends = <<>>, toAnswer = {}, settingsMail = <<>>,
                      initialized = "yes", state = "initialized"
               PROVE  settings = mine
    BY DEF SettingsSettle
  <2>1. ToSet(wire) = {} /\ ToSet(sends) = {} /\ ToSet(settingsMail) = {}
    BY DEF ToSet
  <2> QED  BY <2>1 DEF SInv, Coming, Unasked, Held
<1> QED  BY <1>1, SettingsOnTheirWay, PTL

-------------------------------------------------------------------------------
(***************************************************************************)
(* Framing, for all frames that say what they give, streams of any length  *)
(* and every way to cut them.  FramedInv places the reader: what it has    *)
(* taken ends within the frame after the last it has handed on, at the     *)
(* start of a header line or of the content, and `length` is what the      *)
(* lines of that frame read so far say.                                    *)
(***************************************************************************)

Atoms == UNION {Range(frame.bytes) : frame \in Frames}

\* A reader that has taken p atoms of a frame.
Within(bytes, p, reads, said) ==
  /\ p \in 0..Len(bytes)
  /\ said = LengthUpTo(bytes, p)
  /\ reads = "header" =>
       /\ p = 0 \/ bytes[p] = LineBreak
       /\ \A i \in LineStarts(bytes) : i <= p => bytes[i] # LineBreak
  /\ reads = "content" => EndsHeaders(bytes, p)

WireIsOfTheFrames ==
  /\ written \in Seq(Frames) /\ stream \in Seq(Atoms) /\ starts \in Seq(Nat)
  /\ Len(starts) = Len(written) + 1
  /\ starts[1] = 0 /\ starts[Len(written) + 1] = Len(stream)
  /\ \A k \in 1..Len(written) :
       /\ starts[k + 1] = starts[k] + Len(written[k].bytes)
       /\ \A j \in 1..Len(written[k].bytes) : stream[starts[k] + j] = written[k].bytes[j]
  /\ \A j, k \in 1..(Len(written) + 1) : j < k => starts[j] < starts[k]

BufferIsOfTheWire ==
  /\ arrived \in 0..Len(stream)
  /\ buffer \in Seq(Atoms) /\ Len(buffer) <= arrived
  /\ \A i \in 1..Len(buffer) : buffer[i] = stream[arrived - Len(buffer) + i]

Results == {frame.gives : frame \in Frames}

OutIsOfTheFrames ==
  /\ out \in Seq(Results) /\ Len(out) <= Len(written)
  /\ \A i \in 1..Len(out) : out[i] = written[i].gives

\* How many atoms of the k-th frame have been taken, when the reader is there.
Taken(k) == arrived - Len(buffer) - starts[k]

ReaderIsWithinAFrame ==
  /\ parsing \in BOOLEAN
  /\ mode \in {"header", "content"}
  /\ Len(out) < Len(written) =>
       Within(written[Len(out) + 1].bytes, Taken(Len(out) + 1), mode, length)
  /\ Len(out) = Len(written) =>
       Taken(Len(out) + 1) = 0 /\ mode = "header" /\ length = NoLength

AllClean == \A i \in 1..Len(written) : written[i].clean

NextIsNotWhole ==
  ~parsing /\ AllClean /\ Len(out) < Len(written) => arrived < starts[Len(out) + 2]

FramedInv ==
  /\ WireIsOfTheFrames /\ BufferIsOfTheWire /\ OutIsOfTheFrames
  /\ ReaderIsWithinAFrame /\ NextIsNotWhole

------------------------------------------------------------------------------
(* Frames and lines.                                                       *)

\* What is assumed of a frame whose headers end at h.
Parts(frame, h) ==
  /\ h \in 1..Len(frame.bytes)
  /\ EndsHeaders(frame.bytes, h)
  /\ Means(frame.bytes, h, frame.gives)
  /\ frame.clean => HasOnlyHeaders(frame.bytes, h)

LEMMA FramesHaveParts ==
  ASSUME NEW frame \in Frames
  PROVE  frame.bytes \in Seq(Atoms) /\ \E h \in Nat : Parts(frame, h)
<1>1. Range(frame.bytes) \subseteq Atoms
  BY DEF Atoms
<1>2. frame.bytes \in Seq(Range(frame.bytes))
  BY FramesAssumption
<1>3. frame.bytes \in Seq(Atoms)
  BY <1>1, <1>2
<1>4. PICK h \in 1..Len(frame.bytes) :
        /\ EndsHeaders(frame.bytes, h)
        /\ Means(frame.bytes, h, frame.gives)
        /\ frame.clean => HasOnlyHeaders(frame.bytes, h)
  BY FramesAssumption
<1>5. h \in Nat
  BY <1>3, LenProperties
<1> QED
  BY <1>3, <1>4, <1>5 DEF Parts

LEMMA OneEndOfHeaders ==
  ASSUME NEW bytes \in Seq(Atoms), NEW h, NEW p, EndsHeaders(bytes, h), EndsHeaders(bytes, p)
  PROVE  h = p
<1>1. h \in 1..Len(bytes) /\ p \in 1..Len(bytes)
  BY LenProperties DEF EndsHeaders, LineStarts
<1>2. h <= p /\ p <= h
  BY DEF EndsHeaders
<1> QED
  BY <1>1, <1>2, LenProperties

LEMMA BeforeAFrame ==
  ASSUME NEW bytes \in Seq(Atoms)
  PROVE  Within(bytes, 0, "header", NoLength)
<1>1. \A i \in LineStarts(bytes) : ~(i <= 0)
  BY LenProperties DEF LineStarts
<1>2. LengthLines(bytes, 0) = {}
  BY <1>1 DEF LengthLines
<1> QED
  BY <1>1, <1>2, LenProperties DEF Within, LengthUpTo

\* One more line, from p + 1 to the break at q.
LEMMA LineStartsInALine ==
  ASSUME NEW bytes \in Seq(Atoms), NEW p \in Nat, NEW q \in 1..Len(bytes), p < q,
         p = 0 \/ bytes[p] = LineBreak,
         \A i \in (p + 1)..(q - 1) : bytes[i] # LineBreak
  PROVE  /\ p + 1 \in LineStarts(bytes)
         /\ \A i \in Nat : i <= q => (i \in LineStarts(bytes) <=>
              i = p + 1 \/ (i <= p /\ i \in LineStarts(bytes)))
<1>0. Len(bytes) \in Nat /\ DOMAIN bytes = 1..Len(bytes)
  BY LenProperties
<1>1. p + 1 \in LineStarts(bytes)
  <2>1. p + 1 \in DOMAIN bytes
    BY <1>0
  <2>2. p + 1 = 1 \/ bytes[(p + 1) - 1] = LineBreak
    <3>1. p = 0 => p + 1 = 1
      OBVIOUS
    <3>2. (p + 1) - 1 = p
      OBVIOUS
    <3> QED
      BY <3>1, <3>2
  <2> QED
    BY <2>1, <2>2 DEF LineStarts
<1>2. ASSUME NEW i \in Nat, i <= q, i > p + 1 PROVE i \notin LineStarts(bytes)
  <2>1. i - 1 \in (p + 1)..(q - 1) /\ i # 1
    BY <1>2, <1>0
  <2>2. bytes[i - 1] # LineBreak
    BY <2>1
  <2> QED
    BY <2>1, <2>2 DEF LineStarts
<1> QED
  BY <1>1, <1>2

LEMMA LengthOfOneMoreLine ==
  ASSUME NEW bytes \in Seq(Atoms), NEW p \in Nat, NEW q \in 1..Len(bytes), p < q,
         p = 0 \/ bytes[p] = LineBreak,
         \A i \in (p + 1)..(q - 1) : bytes[i] # LineBreak
  PROVE  LengthUpTo(bytes, q) = IF bytes[p + 1] \in DOMAIN Lengths
                                THEN LengthAtLine(bytes, p + 1) ELSE LengthUpTo(bytes, p)
<1>0. Len(bytes) \in Nat /\ \A i \in LineStarts(bytes) : i \in Nat
  BY LenProperties DEF LineStarts
<1>1. \A i \in Nat : i <= q => (i \in LineStarts(bytes) <=>
        i = p + 1 \/ (i <= p /\ i \in LineStarts(bytes)))
  BY LineStartsInALine
<1>2. CASE bytes[p + 1] \notin DOMAIN Lengths
  <2>1. LengthLines(bytes, q) = LengthLines(bytes, p)
    BY <1>0, <1>1, <1>2 DEF LengthLines
  <2> QED
    BY <2>1, <1>2 DEF LengthUpTo
<1>3. CASE bytes[p + 1] \in DOMAIN Lengths
  <2>0. p + 1 \in Nat /\ p + 1 <= q
    BY <1>0
  <2>5. p + 1 \in LineStarts(bytes)
    BY LineStartsInALine
  <2>1. p + 1 \in LengthLines(bytes, q)
    BY <2>0, <2>5, <1>3 DEF LengthLines
  <2>2. \A i \in LengthLines(bytes, q) : i \in Nat /\ i <= p + 1
    BY <1>0, <1>1 DEF LengthLines
  <2>3. (CHOOSE i \in LengthLines(bytes, q) : \A j \in LengthLines(bytes, q) : j <= i) = p + 1
    BY <2>1, <2>2
  <2>4. LengthLines(bytes, q) # {}
    BY <2>1
  <2>6. LengthUpTo(bytes, q) = LengthAtLine(bytes, CHOOSE i \in LengthLines(bytes, q) :
                                                     \A j \in LengthLines(bytes, q) : j <= i)
    BY <2>4, Zenon DEF LengthUpTo
  <2> QED
    BY <2>3, <2>6, <1>3, Zenon
<1> QED
  BY <1>2, <1>3

\* An empty line ends the headers, and another does not.
LEMMA EmptyLineIsRead ==
  ASSUME NEW bytes \in Seq(Atoms), NEW p \in Nat, NEW said, Within(bytes, p, "header", said),
         p + 1 <= Len(bytes), bytes[p + 1] = LineBreak
  PROVE  Within(bytes, p + 1, "content", said)
<1>0. Len(bytes) \in Nat /\ DOMAIN bytes = 1..Len(bytes)
  BY LenProperties
<1>1. p = 0 \/ bytes[p] = LineBreak
  BY DEF Within
<1>2. p + 1 \in 1..Len(bytes) /\ p < p + 1 /\ \A i \in (p + 1)..((p + 1) - 1) : bytes[i] # LineBreak
  BY <1>0
<1>3. LengthUpTo(bytes, p + 1) = LengthUpTo(bytes, p)
  <2>1. LengthUpTo(bytes, p + 1) = IF bytes[p + 1] \in DOMAIN Lengths
          THEN LengthAtLine(bytes, p + 1) ELSE LengthUpTo(bytes, p)
    BY <1>1, <1>2, LengthOfOneMoreLine
  <2> QED
    BY <2>1, LengthsAssumption
<1>4. \A i \in Nat : i <= p + 1 => (i \in LineStarts(bytes) <=>
        i = p + 1 \/ (i <= p /\ i \in LineStarts(bytes)))
  BY <1>1, <1>2, LineStartsInALine
<1>5. EndsHeaders(bytes, p + 1)
  <2>1. p + 1 \in LineStarts(bytes)
    BY <1>1, <1>2, LineStartsInALine
  <2>2. ASSUME NEW i \in LineStarts(bytes), bytes[i] = LineBreak PROVE p + 1 <= i
    <3>1. i \in Nat /\ ~(i <= p)
      BY <2>2, <1>0 DEF Within, LineStarts
    <3> QED
      BY <3>1
  <2> QED
    BY <2>1, <2>2 DEF EndsHeaders
<1> QED
  BY <1>0, <1>2, <1>3, <1>5 DEF Within

LEMMA HeaderLineIsRead ==
  ASSUME NEW bytes \in Seq(Atoms), NEW p \in Nat, NEW said, Within(bytes, p, "header", said),
         NEW q \in 1..Len(bytes), p + 1 < q, bytes[q] = LineBreak,
         \A i \in (p + 1)..(q - 1) : bytes[i] # LineBreak
  PROVE  Within(bytes, q, "header", IF bytes[p + 1] \in DOMAIN Lengths
                                    THEN LengthAtLine(bytes, p + 1) ELSE said)
<1>0. Len(bytes) \in Nat /\ \A i \in LineStarts(bytes) : i \in Nat
  BY LenProperties DEF LineStarts
<1>1. p = 0 \/ bytes[p] = LineBreak
  BY DEF Within
<1>2. LengthUpTo(bytes, q) = IF bytes[p + 1] \in DOMAIN Lengths
                             THEN LengthAtLine(bytes, p + 1) ELSE LengthUpTo(bytes, p)
  BY <1>1, LengthOfOneMoreLine
<1>3. \A i \in Nat : i <= q => (i \in LineStarts(bytes) <=>
        i = p + 1 \/ (i <= p /\ i \in LineStarts(bytes)))
  BY <1>1, LineStartsInALine
<1>4. ASSUME NEW i \in LineStarts(bytes), i <= q PROVE bytes[i] # LineBreak
  <2>1. i = p + 1 \/ i <= p
    BY <1>0, <1>3, <1>4
  <2>2. bytes[p + 1] # LineBreak
    OBVIOUS
  <2> QED
    BY <2>1, <2>2 DEF Within
<1> QED
  BY <1>0, <1>2, <1>4 DEF Within

------------------------------------------------------------------------------
(* Where the reader is.                                                    *)

\* The k-th frame is read, and p atoms of it have been taken.
Reading(k, frame, p, h) ==
  /\ k \in 1..Len(written) /\ k = Len(out) + 1 /\ frame = written[k] /\ p = Taken(k)
  /\ frame \in Frames /\ frame.bytes \in Seq(Atoms) /\ Parts(frame, h)
  /\ Within(frame.bytes, p, mode, length)
  /\ starts[k] \in Nat /\ starts[k + 1] = starts[k] + Len(frame.bytes)
  /\ arrived = starts[k] + p + Len(buffer)
  /\ \A i \in 1..Len(buffer) : p + i <= Len(frame.bytes) => buffer[i] = frame.bytes[p + i]

LEMMA ReaderIsSomewhere ==
  ASSUME FramedInv, Len(out) < Len(written)
  PROVE  \E k \in Nat, frame \in Frames, p \in Nat, h \in Nat : Reading(k, frame, p, h)
<1>1. /\ Len(out) \in Nat /\ Len(written) \in Nat /\ Len(buffer) \in Nat /\ Len(stream) \in Nat
      /\ arrived \in Nat
  BY LenProperties DEF FramedInv, OutIsOfTheFrames, WireIsOfTheFrames, BufferIsOfTheWire
<1>2. PICK k \in Nat : k = Len(out) + 1
  BY <1>1
<1>3. k \in 1..Len(written) /\ k \in 1..Len(starts) /\ k + 1 \in 1..Len(starts)
  BY <1>1, <1>2 DEF FramedInv, WireIsOfTheFrames
<1>4. PICK frame \in Frames : frame = written[k]
  BY <1>3, ElementOfSeq DEF FramedInv, WireIsOfTheFrames
<1>5. PICK h \in Nat : Parts(frame, h)
  BY FramesHaveParts
<1>6. frame.bytes \in Seq(Atoms) /\ Len(frame.bytes) \in Nat
  BY FramesHaveParts, LenProperties
<1>7. starts[k] \in Nat /\ starts[k + 1] = starts[k] + Len(frame.bytes)
  BY <1>3, <1>4, ElementOfSeq DEF FramedInv, WireIsOfTheFrames
<1>8. Within(frame.bytes, Taken(k), mode, length)
  BY <1>2, <1>4 DEF FramedInv, ReaderIsWithinAFrame
<1>9. PICK p \in Nat : p = Taken(k)
  BY <1>6, <1>8 DEF Within
<1>10. arrived = starts[k] + p + Len(buffer)
  BY <1>1, <1>7, <1>9 DEF Taken
<1>11. ASSUME NEW i \in 1..Len(buffer), p + i <= Len(frame.bytes)
       PROVE  buffer[i] = frame.bytes[p + i]
  <2>1. buffer[i] = stream[arrived - Len(buffer) + i]
    BY DEF FramedInv, BufferIsOfTheWire
  <2>2. arrived - Len(buffer) + i = starts[k] + (p + i)
    BY <1>1, <1>7, <1>10
  <2>3. p + i \in 1..Len(frame.bytes)
    BY <1>1, <1>6, <1>11
  <2>4. stream[starts[k] + (p + i)] = frame.bytes[p + i]
    BY <2>3, <1>3, <1>4 DEF FramedInv, WireIsOfTheFrames
  <2> QED
    BY <2>1, <2>2, <2>4
<1>12. Reading(k, frame, p, h)
  BY <1>2, <1>3, <1>4, <1>5, <1>6, <1>7, <1>8, <1>9, <1>10, <1>11 DEF Reading
<1> QED
  BY <1>12

LEMMA NoFrameNoBuffer ==
  ASSUME FramedInv, Len(out) >= Len(written)
  PROVE  Len(out) = Len(written) /\ Len(buffer) = 0 /\ mode = "header" /\ arrived = Len(stream)
<1>1. /\ Len(out) \in Nat /\ Len(written) \in Nat /\ Len(buffer) \in Nat /\ Len(stream) \in Nat
      /\ arrived \in 0..Len(stream)
  BY LenProperties DEF FramedInv, OutIsOfTheFrames, WireIsOfTheFrames, BufferIsOfTheWire
<1>2. Len(out) = Len(written)
  BY <1>1 DEF FramedInv, OutIsOfTheFrames
<1>3. starts[Len(out) + 1] = Len(stream)
  BY <1>2 DEF FramedInv, WireIsOfTheFrames
<1>4. Taken(Len(out) + 1) = 0 /\ mode = "header"
  BY <1>2 DEF FramedInv, ReaderIsWithinAFrame
<1> QED
  BY <1>1, <1>2, <1>3, <1>4 DEF Taken

LEMMA AFrameIsRead ==
  ASSUME FramedInv, Len(buffer) # 0 \/ mode = "content"
  PROVE  Len(out) < Len(written)
<1>1. Len(out) \in Nat /\ Len(written) \in Nat
  BY LenProperties DEF FramedInv, OutIsOfTheFrames, WireIsOfTheFrames
<1>2. ~(Len(out) >= Len(written))
  BY NoFrameNoBuffer
<1> QED
  BY <1>1, <1>2

LEMMA RestOfASeq ==
  ASSUME NEW S, NEW s \in Seq(S), NEW n \in 0..Len(s)
  PROVE  /\ SubSeq(s, n + 1, Len(s)) \in Seq(S)
         /\ Len(SubSeq(s, n + 1, Len(s))) = Len(s) - n
         /\ \A i \in 1..(Len(s) - n) : SubSeq(s, n + 1, Len(s))[i] = s[n + i]
<1>1. PICK m \in Nat : m = Len(s)
  BY LenProperties
<1>2. n \in Nat /\ n <= m
  BY <1>1
<1>3. \A i \in (n + 1)..m : s[i] \in S
  BY <1>1, <1>2, ElementOfSeq
<1>4. /\ SubSeq(s, n + 1, m) \in Seq(S)
      /\ Len(SubSeq(s, n + 1, m)) = IF n + 1 <= m THEN m - (n + 1) + 1 ELSE 0
      /\ \A i \in 1..(m - (n + 1) + 1) : SubSeq(s, n + 1, m)[i] = s[(n + 1) + i - 1]
  BY <1>1, <1>2, <1>3, SubSeqProperties
<1>5. m - (n + 1) + 1 = m - n /\ \A i \in Int : (n + 1) + i - 1 = n + i
  BY <1>2
<1>6. Len(SubSeq(s, n + 1, m)) = m - n
  BY <1>2, <1>4
<1> QED
  BY <1>1, <1>4, <1>5, <1>6

\* The first atoms of the buffer are taken.
LEMMA TakingKeepsTheBuffer ==
  ASSUME BufferIsOfTheWire, NEW n \in 0..Len(buffer),
         buffer' = SubSeq(buffer, n + 1, Len(buffer)), arrived' = arrived, stream' = stream
  PROVE  BufferIsOfTheWire' /\ Len(buffer') = Len(buffer) - n
<1>1. buffer \in Seq(Atoms) /\ Len(buffer) \in Nat /\ arrived \in Nat /\ n \in Nat
  BY LenProperties DEF BufferIsOfTheWire
<1>2. PICK rest \in Seq(Atoms) : /\ rest = SubSeq(buffer, n + 1, Len(buffer))
                                /\ Len(rest) = Len(buffer) - n
                                /\ \A i \in 1..Len(rest) : rest[i] = buffer[n + i]
  <2>1. /\ SubSeq(buffer, n + 1, Len(buffer)) \in Seq(Atoms)
        /\ Len(SubSeq(buffer, n + 1, Len(buffer))) = Len(buffer) - n
        /\ \A i \in 1..(Len(buffer) - n) : SubSeq(buffer, n + 1, Len(buffer))[i] = buffer[n + i]
    BY <1>1, RestOfASeq
  <2> QED
    BY <2>1
<1>3. buffer' = rest
  BY <1>2
<1>4. ASSUME NEW i \in 1..Len(rest) PROVE rest[i] = stream[arrived - Len(rest) + i]
  <2>0. i \in 1..(Len(buffer) - n) /\ rest[i] = buffer[n + i]
    BY <1>2
  <2>1. rest[i] = buffer[n + i] /\ n + i \in 1..Len(buffer)
    BY <2>0, <1>1
  <2>2. buffer[n + i] = stream[arrived - Len(buffer) + (n + i)]
    BY <2>1 DEF BufferIsOfTheWire
  <2>3. arrived - Len(buffer) + (n + i) = arrived - Len(rest) + i
    BY <1>1, <1>2
  <2> QED
    BY <2>1, <2>2, <2>3
<1>5. Len(rest) <= arrived
  BY <1>1, <1>2 DEF BufferIsOfTheWire
<1> QED
  BY <1>2, <1>3, <1>4, <1>5 DEF BufferIsOfTheWire

LEMMA StayingInTheFrame ==
  ASSUME NEW k, NEW frame, NEW p \in Nat, NEW h, Reading(k, frame, p, h), FramedInv,
         written' = written, starts' = starts, out' = out, arrived' = arrived,
         NEW n \in 0..Len(buffer), Len(buffer') = Len(buffer) - n,
         Within(frame.bytes, p + n, mode', length'),
         mode' \in {"header", "content"}, parsing' \in BOOLEAN
  PROVE  ReaderIsWithinAFrame'
<1>1. Len(buffer) \in Nat /\ n \in Nat /\ starts[k] \in Nat /\ Len(out) \in Nat /\ Len(written) \in Nat
  BY LenProperties DEF FramedInv, OutIsOfTheFrames, WireIsOfTheFrames, BufferIsOfTheWire, Reading
<1>2. k = Len(out) + 1 /\ k <= Len(written) /\ frame = written[k]
  BY <1>1 DEF Reading
<1>3. arrived - (Len(buffer) - n) - starts[k] = p + n
  <2>1. arrived = starts[k] + p + Len(buffer)
    BY DEF Reading
  <2> QED
    BY <1>1, <2>1
<1>4. Len(out) # Len(written)
  BY <1>1, <1>2
<1>5. Taken(k)' = p + n
  BY <1>3 DEF Taken
<1> QED
  BY <1>2, <1>4, <1>5 DEF ReaderIsWithinAFrame

------------------------------------------------------------------------------
(* Lines.                                                                  *)

LEMMA FirstIsTheFirst ==
  ASSUME buffer \in Seq(Atoms), Breaks # {}
  PROVE  /\ First \in 1..Len(buffer) /\ buffer[First] = LineBreak
         /\ \A i \in 1..(First - 1) : buffer[i] # LineBreak
<1> DEFINE R == {ss \in Nat \X Nat : ss[1] < ss[2]}
<1>1. Len(buffer) \in Nat /\ Breaks \subseteq Nat
  BY LenProperties DEF Breaks
<1>2. IsWellFoundedOn(R, Nat)
  BY NatLessThanWellFounded DEF OpToRel
<1> HIDE DEF R
<1>3. PICK least \in Breaks : \A j \in Breaks : ~(<<j, least>> \in R)
  BY <1>1, <1>2, WFMin
<1>4. \A j \in Breaks : least <= j
  <2>1. \A j \in Breaks : ~(j < least)
    BY <1>1, <1>3 DEF R
  <2> QED
    BY <1>1, <2>1
<1>5. First \in Breaks /\ \A j \in Breaks : First <= j
  BY <1>4 DEF First
<1>6. ASSUME NEW i \in 1..(First - 1) PROVE buffer[i] # LineBreak
  <2>1. i \in 1..Len(buffer) /\ ~(First <= i)
    BY <1>1, <1>5 DEF Breaks
  <2> QED
    BY <2>1, <1>5 DEF Breaks
<1> QED
  BY <1>5, <1>6 DEF Breaks

LEMMA LineProperties ==
  ASSUME buffer \in Seq(Atoms), Breaks # {}
  PROVE  /\ Line \in Seq(Atoms) /\ Len(Line) = First - 1
         /\ \A i \in 1..(First - 1) : Line[i] = buffer[i]
         /\ Line = <<>> <=> First = 1
<1>1. PICK m \in 1..Len(buffer) : m = First
  BY FirstIsTheFirst
<1>2. Len(buffer) \in Nat /\ m - 1 \in 0..Len(buffer) /\ m - 1 \in Int /\ m \in Nat
  BY LenProperties
<1>3. \A i \in 1..(m - 1) : buffer[i] \in Atoms
  BY <1>2, ElementOfSeq
<1>4. /\ SubSeq(buffer, 1, m - 1) \in Seq(Atoms)
      /\ Len(SubSeq(buffer, 1, m - 1)) = IF 1 <= m - 1 THEN (m - 1) - 1 + 1 ELSE 0
      /\ \A i \in 1..((m - 1) - 1 + 1) : SubSeq(buffer, 1, m - 1)[i] = buffer[1 + i - 1]
  BY <1>2, <1>3, SubSeqProperties
<1>5. (m - 1) - 1 + 1 = m - 1 /\ \A i \in Int : 1 + i - 1 = i
  BY <1>2
<1>6. PICK line \in Seq(Atoms) : line = SubSeq(buffer, 1, m - 1) /\ Len(line) = m - 1
  <2>1. Len(SubSeq(buffer, 1, m - 1)) = m - 1
    BY <1>2, <1>4
  <2> QED
    BY <1>4, <2>1
<1>7. line = <<>> <=> m = 1
  BY <1>2, <1>6, EmptySeq
<1> QED
  BY <1>1, <1>4, <1>5, <1>6, <1>7 DEF Line

\* The line that is read lies in the headers of the frame.
LineOf(frame, p, h, n) ==
  /\ n \in 1..Len(buffer) /\ n = First
  /\ p + n <= h /\ p < h
  /\ frame.bytes[p + n] = LineBreak
  /\ \A i \in (p + 1)..(p + n - 1) : frame.bytes[i] # LineBreak
  /\ \A i \in 1..(n - 1) : Line[i] = frame.bytes[p + i]

LEMMA LineIsOfTheHeaders ==
  ASSUME NEW k, NEW frame, NEW p \in Nat, NEW h \in Nat, Reading(k, frame, p, h), FramedInv,
         mode = "header", Breaks # {}
  PROVE  \E n \in Nat : LineOf(frame, p, h, n)
<1>1. PICK n \in 1..Len(buffer) : n = First
  BY FirstIsTheFirst DEF FramedInv, BufferIsOfTheWire
<1>2. /\ Len(buffer) \in Nat /\ n \in Nat /\ Len(frame.bytes) \in Nat
      /\ h \in 1..Len(frame.bytes) /\ p <= Len(frame.bytes)
  BY LenProperties DEF FramedInv, BufferIsOfTheWire, Reading, Parts, Within
<1>3. buffer[n] = LineBreak /\ \A i \in 1..(n - 1) : buffer[i] # LineBreak
  BY <1>1, FirstIsTheFirst DEF FramedInv, BufferIsOfTheWire
<1>4. h \in LineStarts(frame.bytes) /\ frame.bytes[h] = LineBreak
  BY DEF Reading, Parts, EndsHeaders
<1>5. p < h
  <2>1. ~(h <= p)
    BY <1>4 DEF Reading, Within
  <2> QED
    BY <1>2, <2>1
<1>6. \A i \in 1..Len(buffer) : p + i <= Len(frame.bytes) => buffer[i] = frame.bytes[p + i]
  BY DEF Reading
<1>7. n <= h - p
  <2>1. SUFFICES ASSUME h - p < n PROVE FALSE
    BY <1>2
  <2>2. h - p \in 1..(n - 1) /\ h - p \in 1..Len(buffer) /\ p + (h - p) = h
    BY <1>2, <1>5, <2>1
  <2>3. buffer[h - p] = frame.bytes[h]
    BY <1>2, <1>6, <2>2
  <2> QED
    BY <2>2, <2>3, <1>3, <1>4
<1>8. \A i \in 1..n : p + i <= Len(frame.bytes) /\ i \in 1..Len(buffer)
  BY <1>2, <1>7
<1>9. \A i \in 1..n : buffer[i] = frame.bytes[p + i]
  BY <1>6, <1>8
<1>10. frame.bytes[p + n] = LineBreak
  BY <1>2, <1>3, <1>9
<1>11. ASSUME NEW i \in (p + 1)..(p + n - 1) PROVE frame.bytes[i] # LineBreak
  <2>1. i - p \in 1..(n - 1) /\ i - p \in 1..n /\ p + (i - p) = i
    BY <1>2
  <2>2. buffer[i - p] = frame.bytes[p + (i - p)] /\ buffer[i - p] # LineBreak
    BY <2>1, <1>3, <1>9
  <2> QED
    BY <2>1, <2>2
<1>12. ASSUME NEW i \in 1..(n - 1) PROVE Line[i] = frame.bytes[p + i]
  <2>1. Line[i] = buffer[i]
    BY <1>1, LineProperties DEF FramedInv, BufferIsOfTheWire
  <2>2. i \in 1..n
    BY <1>2
  <2> QED
    BY <2>1, <2>2, <1>9
<1>13. p + n <= h
  BY <1>2, <1>7
<1> QED
  BY <1>1, <1>2, <1>5, <1>10, <1>11, <1>12, <1>13 DEF LineOf

------------------------------------------------------------------------------
(* The steps of the reader.                                                *)

LEMMA LineIsInTheFrame ==
  ASSUME NEW k, NEW frame, NEW p \in Nat, NEW h \in Nat, NEW n \in Nat, n > 1,
         Reading(k, frame, p, h), LineOf(frame, p, h, n)
  PROVE  /\ Len(frame.bytes) \in Nat /\ frame.bytes \in Seq(Atoms)
         /\ p + n \in 1..Len(frame.bytes) /\ p + 1 < p + n /\ p + n <= h /\ p < p + n
         /\ h \in 1..Len(frame.bytes)
<1>1. frame.bytes \in Seq(Atoms)
  BY DEF Reading
<1>2. PICK l \in Nat : l = Len(frame.bytes)
  BY <1>1, LenProperties
<1>3. h \in 1..l
  BY <1>2 DEF Reading, Parts
<1>4. p + n <= h
  BY DEF LineOf
<1>5. p + n \in 1..l /\ p + 1 < p + n /\ p < p + n
  BY <1>3, <1>4
<1> QED
  BY <1>1, <1>2, <1>3, <1>4, <1>5

\* A line is taken; what is left of the step is where the reader is then.
LEMMA ReadingALine ==
  ASSUME FramedInv, ReadsLine
  PROVE  /\ WireIsOfTheFrames' /\ BufferIsOfTheWire' /\ OutIsOfTheFrames'
         /\ First \in 0..Len(buffer) /\ Len(buffer') = Len(buffer) - First
         /\ \E k \in Nat, frame \in Frames, p \in Nat, h \in Nat, n \in Nat :
              Reading(k, frame, p, h) /\ LineOf(frame, p, h, n)
<1>0. buffer \in Seq(Atoms) /\ Len(buffer) \in Nat
  BY LenProperties DEF FramedInv, BufferIsOfTheWire
<1>1. First \in 1..Len(buffer)
  BY <1>0, FirstIsTheFirst DEF ReadsLine
<1>2. PICK m \in 0..Len(buffer) : m = First
  BY <1>0, <1>1
<1>3. /\ buffer' = SubSeq(buffer, m + 1, Len(buffer)) /\ arrived' = arrived /\ out' = out
      /\ written' = written /\ stream' = stream /\ starts' = starts
  BY <1>2 DEF ReadsLine, Rest, client
<1>4. BufferIsOfTheWire' /\ Len(buffer') = Len(buffer) - m
  BY <1>3, TakingKeepsTheBuffer DEF FramedInv
<1>5. WireIsOfTheFrames' /\ OutIsOfTheFrames'
  BY <1>3 DEF FramedInv, WireIsOfTheFrames, OutIsOfTheFrames
<1>6. Len(out) < Len(written)
  BY <1>0, <1>1, AFrameIsRead
<1>7. PICK k \in Nat, frame \in Frames, p \in Nat, h \in Nat : Reading(k, frame, p, h)
  BY <1>6, ReaderIsSomewhere
<1>8. \E n \in Nat : LineOf(frame, p, h, n)
  BY <1>7, LineIsOfTheHeaders DEF ReadsLine
<1> QED
  BY <1>2, <1>4, <1>5, <1>7, <1>8

LEMMA TakingAHeader ==
  ASSUME FramedInv, TakeHeader
  PROVE  FramedInv'
<1>1. /\ WireIsOfTheFrames' /\ BufferIsOfTheWire' /\ OutIsOfTheFrames'
      /\ First \in 0..Len(buffer) /\ Len(buffer') = Len(buffer) - First
  BY ReadingALine DEF TakeHeader
<1>2. PICK k \in Nat, frame \in Frames, p \in Nat, h \in Nat, n \in Nat :
        Reading(k, frame, p, h) /\ LineOf(frame, p, h, n)
  BY ReadingALine DEF TakeHeader
<1>3. n \in 1..Len(buffer) /\ n \in 0..Len(buffer) /\ Len(buffer') = Len(buffer) - n
  BY <1>1, <1>2 DEF LineOf
<1>4. Len(Line) = n - 1 /\ \A i \in 1..(n - 1) : Line[i] = frame.bytes[p + i]
  BY <1>2, LineProperties DEF LineOf, FramedInv, BufferIsOfTheWire, TakeHeader, ReadsLine
<1>5. n > 1
  BY <1>3, <1>4 DEF TakeHeader, IsHeader
<1>6. /\ Len(frame.bytes) \in Nat /\ frame.bytes \in Seq(Atoms)
      /\ p + n \in 1..Len(frame.bytes) /\ p + 1 < p + n
      /\ h \in 1..Len(frame.bytes)
  BY <1>2, <1>5, LineIsInTheFrame
<1>7. /\ frame.bytes[p + n] = LineBreak
      /\ \A i \in (p + 1)..(p + n - 1) : frame.bytes[i] # LineBreak
      /\ Within(frame.bytes, p, "header", length)
  BY <1>2 DEF LineOf, Reading, TakeHeader, ReadsLine
<1>8. Within(frame.bytes, p + n, "header", IF frame.bytes[p + 1] \in DOMAIN Lengths
                                           THEN LengthAtLine(frame.bytes, p + 1) ELSE length)
  <2>1. PICK q \in 1..Len(frame.bytes) : q = p + n
    BY <1>6
  <2>2. /\ p + 1 < q /\ frame.bytes[q] = LineBreak
        /\ \A i \in (p + 1)..(q - 1) : frame.bytes[i] # LineBreak
    BY <1>6, <1>7, <2>1
  <2>3. Within(frame.bytes, q, "header", IF frame.bytes[p + 1] \in DOMAIN Lengths
                                         THEN LengthAtLine(frame.bytes, p + 1) ELSE length)
    BY <1>6, <1>7, <2>2, HeaderLineIsRead
  <2> QED
    BY <2>1, <2>3
<1>9. Line[1] = frame.bytes[p + 1]
  BY <1>4, <1>5
<1>10. n = 2 <=> frame.bytes[(p + 1) + 1] = LineBreak
  <2>1. n = 2 => p + n = (p + 1) + 1
    BY <1>2
  <2>2. n # 2 => (p + 1) + 1 \in (p + 1)..(p + n - 1)
    BY <1>5
  <2> QED
    BY <2>1, <2>2, <1>7
<1>11. LengthIn(Line) = LengthAtLine(frame.bytes, p + 1)
  <2>1. Len(Line) = 1 <=> n = 2
    BY <1>4, <1>5
  <2> QED
    BY <2>1, <1>9, <1>10 DEF LengthIn, LengthAtLine
<1>12. Within(frame.bytes, p + n, mode', length')
  BY <1>8, <1>9, <1>11 DEF TakeHeader, ReadsLine, IsLength
<1>13. /\ written' = written /\ starts' = starts /\ out' = out /\ arrived' = arrived
       /\ mode' \in {"header", "content"} /\ parsing' = TRUE
  BY DEF TakeHeader, ReadsLine, client
<1>14. ReaderIsWithinAFrame'
  BY <1>2, <1>3, <1>12, <1>13, StayingInTheFrame
<1> QED
  BY <1>1, <1>13, <1>14 DEF FramedInv, NextIsNotWhole

LEMMA EndingTheHeaders ==
  ASSUME FramedInv, EndHeaders
  PROVE  FramedInv'
<1>1. /\ WireIsOfTheFrames' /\ BufferIsOfTheWire' /\ OutIsOfTheFrames'
      /\ First \in 0..Len(buffer) /\ Len(buffer') = Len(buffer) - First
  BY ReadingALine DEF EndHeaders
<1>2. PICK k \in Nat, frame \in Frames, p \in Nat, h \in Nat, n \in Nat :
        Reading(k, frame, p, h) /\ LineOf(frame, p, h, n)
  BY ReadingALine DEF EndHeaders
<1>3. n = 1
  <2>1. First = 1
    BY LineProperties DEF FramedInv, BufferIsOfTheWire, EndHeaders, ReadsLine
  <2> QED
    BY <2>1, <1>2 DEF LineOf
<1>4. 1 \in 0..Len(buffer) /\ Len(buffer') = Len(buffer) - 1
  BY <1>1, <1>2, <1>3 DEF LineOf
<1>5. /\ frame.bytes \in Seq(Atoms) /\ p + 1 <= Len(frame.bytes)
      /\ frame.bytes[p + 1] = LineBreak /\ Within(frame.bytes, p, "header", length)
  <2>1. p + 1 <= h /\ frame.bytes[p + 1] = LineBreak
    BY <1>2, <1>3 DEF LineOf
  <2>2. h <= Len(frame.bytes) /\ Len(frame.bytes) \in Nat
    BY <1>2, LenProperties DEF Reading, Parts
  <2> QED
    BY <2>1, <2>2, <1>2 DEF Reading, EndHeaders, ReadsLine
<1>6. Within(frame.bytes, p + 1, mode', length')
  BY <1>5, EmptyLineIsRead DEF EndHeaders
<1>7. /\ written' = written /\ starts' = starts /\ out' = out /\ arrived' = arrived
      /\ mode' \in {"header", "content"} /\ parsing' = TRUE
  BY DEF EndHeaders, ReadsLine, client
<1>8. ReaderIsWithinAFrame'
  BY <1>2, <1>4, <1>6, <1>7, StayingInTheFrame
<1> QED
  BY <1>1, <1>7, <1>8 DEF FramedInv, NextIsNotWhole

LEMMA TakingAMalformedLine ==
  ASSUME FramedInv, TakeMalformed
  PROVE  FramedInv'
<1>1. /\ WireIsOfTheFrames' /\ BufferIsOfTheWire' /\ OutIsOfTheFrames'
      /\ First \in 0..Len(buffer) /\ Len(buffer') = Len(buffer) - First
  BY ReadingALine DEF TakeMalformed
<1>2. PICK k \in Nat, frame \in Frames, p \in Nat, h \in Nat, n \in Nat :
        Reading(k, frame, p, h) /\ LineOf(frame, p, h, n)
  BY ReadingALine DEF TakeMalformed
<1>3. n \in 1..Len(buffer) /\ n \in 0..Len(buffer) /\ Len(buffer') = Len(buffer) - n
  BY <1>1, <1>2 DEF LineOf
<1>4. /\ Len(Line) = n - 1 /\ \A i \in 1..(n - 1) : Line[i] = frame.bytes[p + i]
      /\ n # 1
  BY <1>2, LineProperties DEF LineOf, FramedInv, BufferIsOfTheWire, TakeMalformed, ReadsLine
<1>5. n > 1
  BY <1>3, <1>4
<1>6. /\ Len(frame.bytes) \in Nat /\ frame.bytes \in Seq(Atoms)
      /\ p + n \in 1..Len(frame.bytes) /\ p + 1 < p + n /\ p + n <= h /\ p < p + n
      /\ h \in 1..Len(frame.bytes)
  BY <1>2, <1>5, LineIsInTheFrame
<1>7. /\ frame.bytes[p + n] = LineBreak
      /\ \A i \in (p + 1)..(p + n - 1) : frame.bytes[i] # LineBreak
      /\ Within(frame.bytes, p, "header", length)
  BY <1>2 DEF LineOf, Reading, TakeMalformed, ReadsLine
<1>8. Line[1] = frame.bytes[p + 1] /\ Line[1] \notin DOMAIN Lengths
  BY <1>4, <1>5 DEF TakeMalformed, IsHeader
<1>9. Within(frame.bytes, p + n, "header", length)
  <2>1. Within(frame.bytes, p + n, "header", IF frame.bytes[p + 1] \in DOMAIN Lengths
                                             THEN LengthAtLine(frame.bytes, p + 1) ELSE length)
    <3>1. PICK q \in 1..Len(frame.bytes) : q = p + n
      BY <1>6
    <3>2. /\ p + 1 < q /\ frame.bytes[q] = LineBreak
          /\ \A i \in (p + 1)..(q - 1) : frame.bytes[i] # LineBreak
      BY <1>6, <1>7, <3>1
    <3>3. Within(frame.bytes, q, "header", IF frame.bytes[p + 1] \in DOMAIN Lengths
                                           THEN LengthAtLine(frame.bytes, p + 1) ELSE length)
      BY <1>6, <1>7, <3>2, HeaderLineIsRead
    <3> QED
      BY <3>1, <3>3
  <2> QED
    BY <2>1, <1>8
<1>10. /\ written' = written /\ starts' = starts /\ out' = out /\ arrived' = arrived
       /\ mode' = "header" /\ length' = length /\ parsing' = FALSE
  BY DEF TakeMalformed, ReadsLine, client
<1>11. ReaderIsWithinAFrame'
  BY <1>2, <1>3, <1>9, <1>10, StayingInTheFrame
<1>12. ~frame.clean
  <2>1. SUFFICES ASSUME frame.clean PROVE FALSE
    OBVIOUS
  <2>2. p + 1 \in LineStarts(frame.bytes)
    BY <1>6, <1>7, LineStartsInALine DEF Within
  <2>3. p + 1 < h
    BY <1>6
  <2>4. PICK j \in (p + 1)..(h - 1) :
          /\ frame.bytes[j] \in DOMAIN Lengths \cup Headers
          /\ \A b \in (p + 1)..j : frame.bytes[b] # LineBreak
    BY <1>2, <2>1, <2>2, <2>3 DEF Reading, Parts, HasOnlyHeaders
  <2>5. ~(p + n <= j)
    BY <2>4, <1>6, <1>7
  <2>6. j - p \in 1..(n - 1) /\ p + (j - p) = j
    BY <2>5, <1>6
  <2>7. Line[j - p] = frame.bytes[j]
    BY <2>6, <1>4
  <2>8. IsHeader(Line)
    BY <2>4, <2>6, <2>7, <1>4 DEF IsHeader
  <2> QED
    BY <2>8 DEF TakeMalformed
<1>13. ~AllClean
  BY <1>2, <1>12 DEF AllClean, Reading
<1>14. NextIsNotWhole'
  BY <1>10, <1>13 DEF NextIsNotWhole, AllClean
<1> QED
  BY <1>1, <1>11, <1>14 DEF FramedInv

LEMMA AwaitingALine ==
  ASSUME FramedInv, AwaitLine
  PROVE  FramedInv'
<1>1. /\ written' = written /\ stream' = stream /\ starts' = starts /\ out' = out /\ arrived' = arrived
      /\ buffer' = buffer /\ mode' = mode /\ length' = length /\ parsing' = FALSE
  BY DEF AwaitLine, client
<1>2. /\ WireIsOfTheFrames' /\ BufferIsOfTheWire' /\ OutIsOfTheFrames'
      /\ ReaderIsWithinAFrame'
  BY <1>1 DEF FramedInv, WireIsOfTheFrames, BufferIsOfTheWire, OutIsOfTheFrames, ReaderIsWithinAFrame, Taken
<1>3. ASSUME Len(out) < Len(written) PROVE arrived < starts[Len(out) + 2]
  <2>1. PICK k \in Nat, frame \in Frames, p \in Nat, h \in Nat : Reading(k, frame, p, h)
    BY <1>3, ReaderIsSomewhere
  <2>2. /\ Len(buffer) \in Nat /\ Len(frame.bytes) \in Nat /\ h \in 1..Len(frame.bytes)
        /\ frame.bytes[h] = LineBreak /\ h \in LineStarts(frame.bytes)
        /\ mode = "header" /\ Len(out) \in Nat
    BY <2>1, LenProperties
       DEF FramedInv, BufferIsOfTheWire, OutIsOfTheFrames, Reading, Parts, EndsHeaders, AwaitLine
  <2>3. ~(h <= p)
    BY <2>1, <2>2 DEF Reading, Within
  <2>4. Len(buffer) < h - p
    <3>1. SUFFICES ASSUME h - p <= Len(buffer) PROVE FALSE
      BY <2>2
    <3>2. h - p \in 1..Len(buffer) /\ p + (h - p) = h
      BY <2>2, <2>3, <3>1
    <3>3. buffer[h - p] = LineBreak
      <4>1. \A i \in 1..Len(buffer) : p + i <= Len(frame.bytes) => buffer[i] = frame.bytes[p + i]
        BY <2>1 DEF Reading
      <4>2. p + (h - p) <= Len(frame.bytes)
        BY <2>2, <3>2
      <4>3. buffer[h - p] = frame.bytes[p + (h - p)]
        BY <4>1, <4>2, <3>2
      <4> QED
        BY <4>3, <3>2, <2>2
    <3>4. h - p \in Breaks
      BY <3>2, <3>3 DEF Breaks
    <3> QED
      BY <3>4 DEF AwaitLine
  <2>5. /\ arrived = starts[k] + p + Len(buffer) /\ starts[k + 1] = starts[k] + Len(frame.bytes)
        /\ starts[k] \in Nat /\ k = Len(out) + 1
    BY <2>1 DEF Reading
  <2>6. arrived < starts[k + 1]
    BY <2>2, <2>3, <2>4, <2>5
  <2>7. k + 1 = Len(out) + 2
    BY <2>2, <2>5
  <2> QED
    BY <2>6, <2>7
<1>4. NextIsNotWhole'
  BY <1>1, <1>3 DEF NextIsNotWhole
<1> QED
  BY <1>2, <1>4 DEF FramedInv

\* The frame that is read has been taken to its end, and what it gives is handed on.
LEMMA HandingOn ==
  ASSUME FramedInv, NEW k, NEW frame, NEW p, NEW h, Reading(k, frame, p, h),
         written' = written, stream' = stream, starts' = starts, arrived' = arrived, parsing' = TRUE,
         out' = Append(out, frame.gives), mode' = "header", length' = NoLength,
         BufferIsOfTheWire', arrived - Len(buffer') = starts[k + 1]
  PROVE  FramedInv'
<1>1. /\ Len(out) \in Nat /\ Len(written) \in Nat /\ k = Len(out) + 1 /\ k <= Len(written)
      /\ frame = written[k] /\ frame \in Frames /\ out \in Seq(Results)
      /\ frame.bytes \in Seq(Atoms)
  <2>1. out \in Seq(Results) /\ written \in Seq(Frames)
    BY DEF FramedInv, OutIsOfTheFrames, WireIsOfTheFrames
  <2>2. Len(out) \in Nat /\ Len(written) \in Nat
    BY <2>1, LenProperties
  <2> QED
    BY <2>1, <2>2 DEF Reading
<1>2. frame.gives \in Results
  BY <1>1 DEF Results
<1>3. /\ out' \in Seq(Results) /\ Len(out') = k /\ out'[k] = frame.gives
      /\ \A i \in 1..(k - 1) : out'[i] = out[i]
  BY <1>1, <1>2, AppendProperties
<1>4. OutIsOfTheFrames'
  <2>1. ASSUME NEW i \in 1..k PROVE out'[i] = written[i].gives
    <3>1. CASE i = k
      BY <3>1, <1>1, <1>3
    <3>2. CASE i # k
      <4>1. i \in 1..(k - 1) /\ i \in 1..Len(out)
        BY <1>1, <3>2
      <4> QED
        BY <4>1, <1>3 DEF FramedInv, OutIsOfTheFrames
    <3> QED
      BY <3>1, <3>2
  <2> QED
    BY <2>1, <1>1, <1>3 DEF OutIsOfTheFrames
<1>5. starts[k + 1] \in Nat
  <2>1. starts[k] \in Nat /\ starts[k + 1] = starts[k] + Len(frame.bytes)
    BY DEF Reading
  <2> QED
    BY <2>1, <1>1, LenProperties
<1>6. Taken(k + 1)' = 0
  BY <1>5 DEF Taken
<1>7. ASSUME k < Len(written) PROVE Within(written[k + 1].bytes, 0, "header", NoLength)
  <2>1. k + 1 \in 1..Len(written)
    BY <1>1, <1>7
  <2>2. written[k + 1] \in Frames
    BY <2>1, ElementOfSeq DEF FramedInv, WireIsOfTheFrames
  <2> QED
    BY <2>2, FramesHaveParts, BeforeAFrame
<1>8. ReaderIsWithinAFrame'
  BY <1>3, <1>6, <1>7 DEF ReaderIsWithinAFrame
<1>9. WireIsOfTheFrames'
  BY DEF FramedInv, WireIsOfTheFrames
<1> QED
  BY <1>4, <1>8, <1>9 DEF FramedInv, NextIsNotWhole

\* In the content, all of the headers have been taken.
LEMMA HeadersAreTaken ==
  ASSUME FramedInv, mode = "content"
  PROVE  \E k \in Nat, frame \in Frames, h \in Nat :
           /\ Reading(k, frame, h, h) /\ Parts(frame, h)
           /\ length = LengthUpTo(frame.bytes, h) /\ frame.bytes \in Seq(Atoms)
<1>1. PICK k \in Nat, frame \in Frames, p \in Nat, h \in Nat : Reading(k, frame, p, h)
  BY AFrameIsRead, ReaderIsSomewhere
<1>2. EndsHeaders(frame.bytes, h) /\ EndsHeaders(frame.bytes, p)
  BY <1>1 DEF Reading, Parts, Within
<1>3. frame.bytes \in Seq(Atoms)
  BY <1>1 DEF Reading
<1>4. p = h
  BY <1>2, <1>3, OneEndOfHeaders
<1> QED
  BY <1>1, <1>4 DEF Reading, Within

LEMMA RefusingTheHeaders ==
  ASSUME FramedInv, RefuseHeaders
  PROVE  FramedInv'
<1>1. PICK k \in Nat, frame \in Frames, h \in Nat :
        /\ Reading(k, frame, h, h) /\ Parts(frame, h)
        /\ length = LengthUpTo(frame.bytes, h) /\ frame.bytes \in Seq(Atoms)
  BY HeadersAreTaken DEF RefuseHeaders
<1>2. /\ written' = written /\ stream' = stream /\ starts' = starts /\ arrived' = arrived
      /\ buffer' = buffer /\ mode' = "header" /\ length' = NoLength /\ parsing' = TRUE
      /\ length \in {NoLength, Unusable}
      /\ out' = Append(out, IF length = NoLength THEN "NoContentLength" ELSE "InvalidContentLength")
  BY DEF RefuseHeaders, Gives, LengthAfter, client
<1>3. /\ SubSeq(frame.bytes, h + 1, Len(frame.bytes)) = <<>>
      /\ frame.gives = IF length = NoLength THEN "NoContentLength" ELSE "InvalidContentLength"
  BY <1>1, <1>2, LengthsAssumption DEF Parts, Means
<1>4. h = Len(frame.bytes)
  <2>1. h \in 0..Len(frame.bytes)
    BY <1>1, LenProperties DEF Parts
  <2>2. Len(SubSeq(frame.bytes, h + 1, Len(frame.bytes))) = Len(frame.bytes) - h
    BY <2>1, <1>1, RestOfASeq
  <2>3. Len(frame.bytes) - h = 0
    BY <2>2, <1>3, EmptySeq
  <2> QED
    BY <2>1, <2>3, <1>1, LenProperties
<1>5. arrived - Len(buffer') = starts[k + 1]
  <2>1. /\ arrived = starts[k] + h + Len(buffer) /\ starts[k + 1] = starts[k] + Len(frame.bytes)
        /\ starts[k] \in Nat /\ Len(buffer) \in Nat
    BY <1>1, LenProperties DEF Reading, FramedInv, BufferIsOfTheWire
  <2> QED
    BY <2>1, <1>2, <1>4
<1>6. BufferIsOfTheWire'
  BY <1>2 DEF FramedInv, BufferIsOfTheWire
<1> QED
  BY <1>1, <1>2, <1>3, <1>5, <1>6, HandingOn

LEMMA TakingTheContent ==
  ASSUME FramedInv, TakeContent
  PROVE  FramedInv'
<1>1. PICK k \in Nat, frame \in Frames, h \in Nat :
        /\ Reading(k, frame, h, h) /\ Parts(frame, h)
        /\ length = LengthUpTo(frame.bytes, h) /\ frame.bytes \in Seq(Atoms)
  BY HeadersAreTaken DEF TakeContent
<1> DEFINE said == SubSeq(frame.bytes, h + 1, Len(frame.bytes))
           read == SubSeq(buffer, 1, length)
<1>2. /\ written' = written /\ stream' = stream /\ starts' = starts /\ arrived' = arrived
      /\ buffer' = SubSeq(buffer, length + 1, Len(buffer))
      /\ mode' = "header" /\ length' = NoLength /\ parsing' = TRUE
      /\ length \notin {NoLength, Unusable} /\ Len(buffer) >= length
      /\ out' = Append(out, IF read \in DOMAIN Contents THEN Contents[read] ELSE "InvalidJSON")
  BY DEF TakeContent, Gives, LengthAfter, client, Complete
<1>3. /\ Len(said) = length
      /\ frame.gives = IF said \in DOMAIN Contents THEN Contents[said] ELSE "InvalidJSON"
  BY <1>1, <1>2 DEF Parts, Means
<1>4. /\ Len(frame.bytes) \in Nat /\ Len(buffer) \in Nat /\ h \in 0..Len(frame.bytes)
      /\ buffer \in Seq(Atoms)
  BY <1>1, LenProperties DEF FramedInv, BufferIsOfTheWire, Parts
<1> HIDE DEF said, read
<1>5. /\ said \in Seq(Atoms) /\ Len(said) = Len(frame.bytes) - h
      /\ \A i \in 1..(Len(frame.bytes) - h) : said[i] = frame.bytes[h + i]
  BY <1>1, <1>4, RestOfASeq DEF said
<1>6. length \in 0..Len(buffer) /\ length = Len(frame.bytes) - h
  BY <1>2, <1>3, <1>4, <1>5
<1>7. /\ read \in Seq(Atoms) /\ Len(read) = length
      /\ \A i \in 1..length : read[i] = buffer[i]
  <2>1. \A i \in 1..length : buffer[i] \in Atoms
    BY <1>4, <1>6, ElementOfSeq
  <2>2. /\ read \in Seq(Atoms) /\ Len(read) = IF 1 <= length THEN length - 1 + 1 ELSE 0
        /\ \A i \in 1..(length - 1 + 1) : read[i] = buffer[1 + i - 1]
    BY <2>1, <1>6, SubSeqProperties DEF read
  <2>3. length - 1 + 1 = length /\ \A i \in Int : 1 + i - 1 = i
    BY <1>6
  <2>4. Len(read) = length
    BY <2>2, <1>6
  <2> QED
    BY <2>2, <2>3, <2>4
<1>8. read = said
  <2>1. ASSUME NEW i \in 1..length PROVE read[i] = said[i]
    <3>1. i \in 1..Len(buffer) /\ h + i <= Len(frame.bytes) /\ i \in 1..(Len(frame.bytes) - h)
      BY <1>4, <1>6
    <3>2. buffer[i] = frame.bytes[h + i]
      BY <3>1, <1>1 DEF Reading
    <3> QED
      BY <3>1, <3>2, <1>5, <1>7
  <2> QED
    BY <2>1, <1>3, <1>5, <1>7, SeqEqual
<1>9. BufferIsOfTheWire' /\ Len(buffer') = Len(buffer) - length
  BY <1>2, <1>6, TakingKeepsTheBuffer DEF FramedInv
<1>10. arrived - Len(buffer') = starts[k + 1]
  <2>1. /\ arrived = starts[k] + h + Len(buffer) /\ starts[k + 1] = starts[k] + Len(frame.bytes)
        /\ starts[k] \in Nat
    BY <1>1 DEF Reading
  <2>2. PICK a \in Nat, b \in Nat, c \in Nat, l \in Nat :
          a = starts[k] /\ b = Len(buffer) /\ c = Len(frame.bytes) /\ l = length
    <3>1. starts[k] \in Nat /\ Len(buffer) \in Nat /\ Len(frame.bytes) \in Nat /\ length \in Nat
      BY <2>1, <1>4, <1>6
    <3> QED
      BY <3>1, Zenon
  <2>3. arrived = a + h + b /\ starts[k + 1] = a + c /\ l = c - h /\ Len(buffer') = b - l
    BY <2>1, <2>2, <1>6, <1>9
  <2>4. (a + h + b) - (b - (c - h)) = a + c
    <3>1. a \in Int /\ b \in Int /\ c \in Int /\ h \in Int
      BY <1>4, <2>2
    <3> QED
      BY <3>1
  <2> QED
    BY <2>3, <2>4
<1>11. out' = Append(out, frame.gives)
  BY <1>2, <1>3, <1>8
<1> QED
  BY <1>1, <1>2, <1>9, <1>10, <1>11, HandingOn

LEMMA AwaitingTheContent ==
  ASSUME FramedInv, AwaitContent
  PROVE  FramedInv'
<1>1. /\ written' = written /\ stream' = stream /\ starts' = starts /\ out' = out /\ arrived' = arrived
      /\ buffer' = buffer /\ mode' = mode /\ length' = length /\ parsing' = FALSE
  BY DEF AwaitContent, client
<1>2. /\ WireIsOfTheFrames' /\ BufferIsOfTheWire' /\ OutIsOfTheFrames'
      /\ ReaderIsWithinAFrame'
  BY <1>1 DEF FramedInv, WireIsOfTheFrames, BufferIsOfTheWire, OutIsOfTheFrames, ReaderIsWithinAFrame, Taken
<1>3. PICK k \in Nat, frame \in Frames, h \in Nat :
        /\ Reading(k, frame, h, h) /\ Parts(frame, h)
        /\ length = LengthUpTo(frame.bytes, h) /\ frame.bytes \in Seq(Atoms)
  BY HeadersAreTaken DEF AwaitContent
<1>4. /\ Len(frame.bytes) \in Nat /\ Len(buffer) \in Nat /\ h \in 0..Len(frame.bytes)
      /\ Len(out) \in Nat
  BY <1>3, LenProperties DEF FramedInv, BufferIsOfTheWire, OutIsOfTheFrames, Parts
<1>5. length = Len(frame.bytes) - h
  <2>1. Len(SubSeq(frame.bytes, h + 1, Len(frame.bytes))) = length
    BY <1>3 DEF Parts, Means, AwaitContent
  <2> QED
    BY <2>1, <1>3, <1>4, RestOfASeq
<1>6. ~(Len(buffer) >= length)
  BY DEF AwaitContent, Complete
<1>7. /\ arrived = starts[k] + h + Len(buffer) /\ starts[k + 1] = starts[k] + Len(frame.bytes)
      /\ starts[k] \in Nat /\ k = Len(out) + 1
  BY <1>3 DEF Reading
<1>8. arrived < starts[k + 1] /\ k + 1 = Len(out) + 2
  BY <1>4, <1>5, <1>6, <1>7
<1>9. NextIsNotWhole'
  BY <1>1, <1>8 DEF NextIsNotWhole
<1> QED
  BY <1>2, <1>9 DEF FramedInv

------------------------------------------------------------------------------
(* The client and the channel.                                             *)

LEMMA WritingKeepsTheWire ==
  ASSUME FramedInv, NEW frame \in Frames, Write(frame)
  PROVE  /\ WireIsOfTheFrames' /\ Len(written') = Len(written) + 1 /\ Len(stream') >= Len(stream)
         /\ \A k \in 1..Len(written) : written'[k] = written[k]
         /\ \A k \in 1..(Len(written) + 1) : starts'[k] = starts[k]
         /\ \A i \in 1..Len(stream) : stream'[i] = stream[i]
         /\ written'[Len(written) + 1] = frame
         /\ starts'[Len(written) + 2] > Len(stream)
<1>1. /\ written \in Seq(Frames) /\ stream \in Seq(Atoms) /\ starts \in Seq(Nat)
      /\ frame.bytes \in Seq(Atoms)
  BY FramesHaveParts DEF FramedInv, WireIsOfTheFrames
<1>2. PICK n \in Nat, m \in Nat, l \in Nat : n = Len(written) /\ m = Len(stream) /\ l = Len(frame.bytes)
  <2>1. Len(written) \in Nat /\ Len(stream) \in Nat /\ Len(frame.bytes) \in Nat
    BY <1>1, LenProperties
  <2> QED
    BY <2>1, Zenon
<1>3. l > 0
  <2>1. PICK h \in Nat : Parts(frame, h)
    BY FramesHaveParts
  <2>2. h \in 1..l
    BY <1>2, <2>1 DEF Parts
  <2> QED
    BY <1>2, <2>2
<1>4. /\ Len(starts) = n + 1 /\ starts[1] = 0 /\ starts[n + 1] = m
      /\ \A k \in 1..n : starts[k + 1] = starts[k] + Len(written[k].bytes)
      /\ \A k \in 1..n : \A j \in 1..Len(written[k].bytes) : stream[starts[k] + j] = written[k].bytes[j]
      /\ \A j, k \in 1..(n + 1) : j < k => starts[j] < starts[k]
  BY <1>2 DEF FramedInv, WireIsOfTheFrames
<1>5. /\ written' \in Seq(Frames) /\ Len(written') = n + 1 /\ written'[n + 1] = frame
      /\ \A k \in 1..n : written'[k] = written[k]
  BY <1>1, <1>2, AppendProperties DEF Write
<1>6. /\ stream' \in Seq(Atoms) /\ Len(stream') = m + l
      /\ \A i \in 1..m : stream'[i] = stream[i]
      /\ \A j \in 1..l : stream'[m + j] = frame.bytes[j]
  <2>1. stream' = stream \o frame.bytes
    BY DEF Write
  <2>2. /\ stream' \in Seq(Atoms) /\ Len(stream') = Len(stream) + Len(frame.bytes)
        /\ \A i \in 1..(Len(stream) + Len(frame.bytes)) :
             stream'[i] = IF i <= Len(stream) THEN stream[i] ELSE frame.bytes[i - Len(stream)]
    BY <2>1, <1>1, ConcatProperties
  <2>3. \A i \in 1..(m + l) : stream'[i] = IF i <= m THEN stream[i] ELSE frame.bytes[i - m]
    BY <2>2, <1>2
  <2>4. ASSUME NEW j \in 1..l PROVE stream'[m + j] = frame.bytes[j]
    <3>1. m + j \in 1..(m + l) /\ ~(m + j <= m) /\ (m + j) - m = j
      BY <1>2
    <3> QED
      BY <3>1, <2>3
  <2>5. \A i \in 1..m : stream'[i] = stream[i]
    BY <2>3, <1>2
  <2> QED
    BY <2>2, <2>4, <2>5, <1>2
<1>7. /\ starts' \in Seq(Nat) /\ Len(starts') = n + 2 /\ starts'[n + 2] = m + l
      /\ \A k \in 1..(n + 1) : starts'[k] = starts[k]
  <2>1. m + l \in Nat /\ starts' = Append(starts, m + l)
    BY <1>2 DEF Write
  <2>2. /\ starts' \in Seq(Nat) /\ Len(starts') = Len(starts) + 1
        /\ starts'[Len(starts) + 1] = m + l
        /\ \A k \in 1..Len(starts) : starts'[k] = starts[k]
    BY <1>1, <2>1, AppendProperties
  <2>3. (n + 1) + 1 = n + 2
    BY <1>2
  <2> QED
    BY <2>2, <2>3, <1>4
<1>8. \A k \in 1..(n + 1) : starts[k] \in Nat /\ starts[k] <= m
  <2>1. ASSUME NEW k \in 1..(n + 1) PROVE starts[k] \in Nat /\ starts[k] <= m
    <3>1. starts[k] \in Nat
      BY <1>1, <1>4, ElementOfSeq
    <3>2. CASE k = n + 1
      BY <3>1, <3>2, <1>2, <1>4
    <3>3. CASE k # n + 1
      <4>1. k < n + 1 /\ n + 1 \in 1..(n + 1)
        BY <1>2, <3>3
      <4>2. starts[k] < starts[n + 1]
        BY <4>1, <1>4
      <4> QED
        BY <3>1, <4>2, <1>2, <1>4
    <3> QED
      BY <3>2, <3>3
  <2> QED
    BY <2>1
<1>9. ASSUME NEW k \in 1..(n + 1)
      PROVE  /\ starts'[k + 1] = starts'[k] + Len(written'[k].bytes)
             /\ \A j \in 1..Len(written'[k].bytes) : stream'[starts'[k] + j] = written'[k].bytes[j]
  <2>1. CASE k = n + 1
    <3>1. starts'[k] = m /\ starts'[k + 1] = m + l /\ written'[k] = frame
      <4>1. k + 1 = n + 2 /\ k \in 1..(n + 1)
        BY <1>2, <2>1
      <4> QED
        BY <4>1, <2>1, <1>4, <1>5, <1>7
    <3> QED
      BY <3>1, <1>2, <1>6
  <2>2. CASE k # n + 1
    <3>1. k \in 1..n /\ k + 1 \in 1..(n + 1)
      BY <1>2, <2>2
    <3>2. starts'[k] = starts[k] /\ starts'[k + 1] = starts[k + 1] /\ written'[k] = written[k]
      BY <3>1, <1>5, <1>7
    <3>3. ASSUME NEW j \in 1..Len(written[k].bytes)
          PROVE  stream'[starts[k] + j] = written[k].bytes[j]
      <4>1. starts[k] \in Nat /\ starts[k + 1] = starts[k] + Len(written[k].bytes) /\ starts[k + 1] <= m
        BY <3>1, <1>4, <1>8
      <4>2. Len(written[k].bytes) \in Nat
        <5>1. written[k] \in Frames
          BY <3>1, <1>1, <1>2, ElementOfSeq
        <5> QED
          BY <5>1, FramesHaveParts, LenProperties
      <4>3. starts[k] + j \in 1..m
        BY <4>1, <4>2, <1>2
      <4> QED
        BY <4>3, <3>1, <1>4, <1>6
    <3> QED
      BY <3>1, <3>2, <3>3, <1>4
  <2> QED
    BY <2>1, <2>2
<1>10. ASSUME NEW j \in 1..(n + 2), NEW k \in 1..(n + 2), j < k PROVE starts'[j] < starts'[k]
  <2>1. j \in 1..(n + 1) /\ starts'[j] = starts[j]
    <3>1. j \in 1..(n + 1)
      BY <1>2, <1>10
    <3> QED
      BY <3>1, <1>7
  <2>2. CASE k = n + 2
    BY <2>1, <2>2, <1>2, <1>3, <1>7, <1>8
  <2>3. CASE k # n + 2
    <3>1. k \in 1..(n + 1)
      BY <1>2, <2>3
    <3> QED
      BY <3>1, <2>1, <1>4, <1>7, <1>10
  <2> QED
    BY <2>2, <2>3
<1>11. starts'[1] = 0 /\ starts'[(n + 1) + 1] = m + l
  <2>1. 1 \in 1..(n + 1) /\ (n + 1) + 1 = n + 2
    BY <1>2
  <2> QED
    BY <2>1, <1>4, <1>7
<1>12. \A j, k \in 1..((n + 1) + 1) : j < k => starts'[j] < starts'[k]
  <2>1. (n + 1) + 1 = n + 2
    BY <1>2
  <2> QED
    BY <2>1, <1>10
<1>13. Len(starts') = Len(written') + 1
  BY <1>2, <1>5, <1>7
<1>14. WireIsOfTheFrames'
  BY <1>5, <1>6, <1>7, <1>9, <1>11, <1>12, <1>13 DEF WireIsOfTheFrames
<1> QED
  BY <1>2, <1>3, <1>5, <1>6, <1>7, <1>14

LEMMA WritingAFrame ==
  ASSUME FramedInv, NEW frame \in Frames, Write(frame)
  PROVE  FramedInv'
<1>1. /\ WireIsOfTheFrames' /\ Len(written') = Len(written) + 1 /\ Len(stream') >= Len(stream)
      /\ \A k \in 1..Len(written) : written'[k] = written[k]
      /\ \A k \in 1..(Len(written) + 1) : starts'[k] = starts[k]
      /\ \A i \in 1..Len(stream) : stream'[i] = stream[i]
      /\ written'[Len(written) + 1] = frame
      /\ starts'[Len(written) + 2] > Len(stream)
  BY WritingKeepsTheWire
<1>2. /\ arrived' = arrived /\ buffer' = buffer /\ length' = length /\ mode' = mode
      /\ parsing' = parsing /\ out' = out
  BY DEF Write
<1>3. /\ Len(written) \in Nat /\ Len(stream) \in Nat /\ Len(out) \in Nat /\ Len(buffer) \in Nat
      /\ Len(out) <= Len(written) /\ arrived \in 0..Len(stream) /\ Len(buffer) <= arrived
      /\ Len(stream') \in Nat
  BY <1>1, LenProperties DEF FramedInv, WireIsOfTheFrames, BufferIsOfTheWire, OutIsOfTheFrames
<1>4. BufferIsOfTheWire'
  <2>1. ASSUME NEW i \in 1..Len(buffer) PROVE buffer[i] = stream'[arrived - Len(buffer) + i]
    <3>1. arrived - Len(buffer) + i \in 1..Len(stream)
      BY <1>3
    <3>2. buffer[i] = stream[arrived - Len(buffer) + i]
      BY DEF FramedInv, BufferIsOfTheWire
    <3> QED
      BY <1>1, <3>1, <3>2
  <2>2. arrived \in 0..Len(stream')
    BY <1>1, <1>3
  <2> QED
    BY <2>1, <2>2, <1>2 DEF FramedInv, BufferIsOfTheWire
<1>5. OutIsOfTheFrames'
  <2>1. ASSUME NEW i \in 1..Len(out) PROVE out[i] = written'[i].gives
    <3>1. i \in 1..Len(written)
      BY <1>3
    <3> QED
      BY <3>1, <1>1 DEF FramedInv, OutIsOfTheFrames
  <2>2. Len(out) <= Len(written')
    BY <1>1, <1>3
  <2> QED
    BY <2>1, <2>2, <1>2 DEF FramedInv, OutIsOfTheFrames
<1>6. Len(out) + 1 \in 1..(Len(written) + 1) /\ Len(out) # Len(written')
  BY <1>1, <1>3
<1>7. Taken(Len(out) + 1)' = Taken(Len(out) + 1)
  BY <1>1, <1>2, <1>6 DEF Taken
<1>8. Within(written'[Len(out) + 1].bytes, Taken(Len(out) + 1), mode, length)
  <2>1. CASE Len(out) < Len(written)
    <3>1. Len(out) + 1 \in 1..Len(written)
      BY <1>3, <2>1
    <3> QED
      BY <3>1, <2>1, <1>1 DEF FramedInv, ReaderIsWithinAFrame
  <2>2. CASE Len(out) = Len(written)
    BY <2>2, <1>1, FramesHaveParts, BeforeAFrame DEF FramedInv, ReaderIsWithinAFrame
  <2> QED
    BY <2>1, <2>2, <1>3
<1>9. ReaderIsWithinAFrame'
  BY <1>2, <1>6, <1>7, <1>8 DEF FramedInv, ReaderIsWithinAFrame
<1>10. NextIsNotWhole'
  <2>1. SUFFICES ASSUME ~parsing, AllClean' PROVE arrived < starts'[Len(out) + 2]
    BY <1>2 DEF NextIsNotWhole
  <2>2. CASE Len(out) < Len(written)
    <3>1. AllClean
      <4>1. ASSUME NEW k \in 1..Len(written) PROVE written[k].clean
        <5>1. k \in 1..Len(written')
          BY <1>1, <1>3
        <5> QED
          BY <5>1, <1>1, <2>1 DEF AllClean
      <4> QED
        BY <4>1 DEF AllClean
    <3>2. arrived < starts[Len(out) + 2]
      BY <3>1, <2>1, <2>2 DEF FramedInv, NextIsNotWhole
    <3>3. Len(out) + 2 \in 1..(Len(written) + 1)
      BY <1>3, <2>2
    <3> QED
      BY <3>2, <3>3, <1>1
  <2>3. CASE Len(out) = Len(written)
    <3>1. starts'[Len(out) + 2] \in Nat
      <4>1. Len(out) + 2 \in 1..(Len(written') + 1)
        BY <1>1, <1>3, <2>3
      <4> QED
        BY <4>1, <1>1, ElementOfSeq DEF WireIsOfTheFrames
    <3> QED
      BY <3>1, <2>3, <1>1, <1>3
  <2> QED
    BY <2>2, <2>3, <1>3
<1> QED
  BY <1>1, <1>4, <1>5, <1>9, <1>10 DEF FramedInv

LEMMA Arriving ==
  ASSUME FramedInv, Arrive
  PROVE  FramedInv'
<1>1. PICK upTo \in (arrived + 1)..Len(stream) :
        buffer' = buffer \o SubSeq(stream, arrived + 1, upTo) /\ arrived' = upTo
  BY DEF Arrive, Appended
<1>2. /\ written' = written /\ stream' = stream /\ starts' = starts /\ out' = out
      /\ mode' = mode /\ length' = length /\ parsing' = TRUE
  BY DEF Arrive, client
<1>3. stream \in Seq(Atoms) /\ buffer \in Seq(Atoms)
  BY DEF FramedInv, WireIsOfTheFrames, BufferIsOfTheWire
<1>4. PICK m \in Nat, b \in Nat, a \in Nat, u \in Nat :
        /\ m = Len(stream) /\ b = Len(buffer) /\ a = arrived /\ u = upTo
        /\ a < u /\ u <= m /\ b <= a
  <2>1. /\ Len(stream) \in Nat /\ Len(buffer) \in Nat /\ arrived \in Nat /\ Len(buffer) <= arrived
    BY <1>3, LenProperties DEF FramedInv, BufferIsOfTheWire
  <2>2. upTo \in Nat /\ arrived < upTo /\ upTo <= Len(stream)
    BY <2>1
  <2> QED
    BY <2>1, <2>2, Zenon
<1>5. PICK chunk \in Seq(Atoms) : /\ chunk = SubSeq(stream, a + 1, u) /\ Len(chunk) = u - a
                                 /\ \A i \in 1..(u - a) : chunk[i] = stream[a + i]
  <2>1. \A i \in (a + 1)..u : stream[i] \in Atoms
    BY <1>3, <1>4, ElementOfSeq
  <2>2. /\ SubSeq(stream, a + 1, u) \in Seq(Atoms)
        /\ Len(SubSeq(stream, a + 1, u)) = IF a + 1 <= u THEN u - (a + 1) + 1 ELSE 0
        /\ \A i \in 1..(u - (a + 1) + 1) : SubSeq(stream, a + 1, u)[i] = stream[(a + 1) + i - 1]
    BY <2>1, <1>4, SubSeqProperties
  <2>3. u - (a + 1) + 1 = u - a /\ \A i \in Int : (a + 1) + i - 1 = a + i
    BY <1>4
  <2>4. Len(SubSeq(stream, a + 1, u)) = u - a
    <3>1. a + 1 <= u
      BY <1>4
    <3> QED
      BY <3>1, <2>2, <2>3
  <2>5. ASSUME NEW i \in 1..(u - a) PROVE SubSeq(stream, a + 1, u)[i] = stream[a + i]
    BY <2>2, <2>3, <1>4
  <2> QED
    BY <2>2, <2>4, <2>5
<1>6. /\ buffer' \in Seq(Atoms) /\ Len(buffer') = b + (u - a)
      /\ \A i \in 1..(b + (u - a)) : buffer'[i] = IF i <= b THEN buffer[i] ELSE chunk[i - b]
  <2>1. buffer' = buffer \o chunk
    BY <1>1, <1>4, <1>5
  <2> QED
    BY <2>1, <1>3, <1>4, <1>5, ConcatProperties
<1>7. ASSUME NEW i \in 1..(b + (u - a)) PROVE buffer'[i] = stream[u - (b + (u - a)) + i]
  <2>1. u - (b + (u - a)) + i = a - b + i
    BY <1>4
  <2>2. CASE i <= b
    <3>1. i \in 1..Len(buffer) /\ buffer'[i] = buffer[i]
      BY <2>2, <1>4, <1>6
    <3>2. buffer[i] = stream[a - b + i]
      BY <3>1, <1>4 DEF FramedInv, BufferIsOfTheWire
    <3> QED
      BY <3>1, <3>2, <2>1
  <2>3. CASE ~(i <= b)
    <3>1. i - b \in 1..(u - a) /\ a + (i - b) = a - b + i
      BY <2>3, <1>4
    <3>2. buffer'[i] = chunk[i - b] /\ chunk[i - b] = stream[a + (i - b)]
      BY <3>1, <2>3, <1>5, <1>6
    <3> QED
      BY <3>1, <3>2, <2>1
  <2> QED
    BY <2>2, <2>3
<1>8. BufferIsOfTheWire'
  <2>1. arrived' = u /\ u \in 0..Len(stream) /\ Len(buffer') <= u
    BY <1>1, <1>4, <1>6
  <2> QED
    BY <2>1, <1>2, <1>6, <1>7 DEF BufferIsOfTheWire
<1>9. WireIsOfTheFrames' /\ OutIsOfTheFrames'
  BY <1>2 DEF FramedInv, WireIsOfTheFrames, OutIsOfTheFrames
<1>10. arrived' - Len(buffer') = arrived - Len(buffer)
  <2>1. u - (b + (u - a)) = a - b
    BY <1>4
  <2> QED
    BY <2>1, <1>1, <1>4, <1>6
<1>11. Taken(Len(out) + 1)' = Taken(Len(out) + 1)
  BY <1>2, <1>10 DEF Taken
<1>12. ReaderIsWithinAFrame'
  BY <1>2, <1>11 DEF FramedInv, ReaderIsWithinAFrame
<1> QED
  BY <1>2, <1>8, <1>9, <1>12 DEF FramedInv, NextIsNotWhole

------------------------------------------------------------------------------
(* The invariant and what follows from it.                                 *)

LEMMA InitIsWithin == FramingInit => FramedInv
<1> SUFFICES ASSUME FramingInit PROVE FramedInv
  OBVIOUS
<1>1. WireIsOfTheFrames
  BY EmptySeq DEF FramingInit, WireIsOfTheFrames
<1>2. BufferIsOfTheWire /\ OutIsOfTheFrames
  BY EmptySeq DEF FramingInit, BufferIsOfTheWire, OutIsOfTheFrames
<1>3. ReaderIsWithinAFrame
  <2>1. Len(out) = 0 /\ Len(written) = 0 /\ Len(buffer) = 0 /\ arrived = 0 /\ starts[1] = 0
    BY EmptySeq DEF FramingInit
  <2>2. Taken(1) = 0 /\ Len(out) + 1 = 1
    BY <2>1 DEF Taken
  <2>3. ~(Len(out) < Len(written)) /\ Taken(Len(out) + 1) = 0
    BY <2>1, <2>2
  <2>4. parsing \in BOOLEAN /\ mode = "header" /\ length = NoLength
    BY DEF FramingInit
  <2> QED
    BY <2>3, <2>4 DEF ReaderIsWithinAFrame
<1>4. NextIsNotWhole
  BY DEF FramingInit, NextIsNotWhole
<1> QED
  BY <1>1, <1>2, <1>3, <1>4 DEF FramedInv

LEMMA NextStaysWithin == FramedInv /\ [FramingNext]_framingVars => FramedInv'
<1> SUFFICES ASSUME FramedInv, [FramingNext]_framingVars PROVE FramedInv'
  OBVIOUS
<1>1. ASSUME NEW frame \in Frames, Write(frame) PROVE FramedInv'
  BY <1>1, WritingAFrame
<1>2. CASE Arrive
  BY <1>2, Arriving
<1>3. CASE TakeHeader
  BY <1>3, TakingAHeader
<1>4. CASE TakeMalformed
  BY <1>4, TakingAMalformedLine
<1>5. CASE EndHeaders
  BY <1>5, EndingTheHeaders
<1>6. CASE AwaitLine
  BY <1>6, AwaitingALine
<1>7. CASE RefuseHeaders
  BY <1>7, RefusingTheHeaders
<1>8. CASE TakeContent
  BY <1>8, TakingTheContent
<1>9. CASE AwaitContent
  BY <1>9, AwaitingTheContent
<1>10. CASE UNCHANGED framingVars
  BY <1>10 DEF framingVars, client, FramedInv, WireIsOfTheFrames, BufferIsOfTheWire, OutIsOfTheFrames,
               ReaderIsWithinAFrame, NextIsNotWhole, AllClean, Taken
<1> QED
  BY <1>1, <1>2, <1>3, <1>4, <1>5, <1>6, <1>7, <1>8, <1>9, <1>10 DEF FramingNext, Parse

\* notifier.pony: at every moment the reader is within the frame after the last
\* it has handed on, with the length that frame says and none of an earlier one.
THEOREM ReaderIsWithin == FramingSpec => []FramedInv
<1>1. FramingInit => FramedInv
  BY InitIsWithin
<1>2. FramedInv /\ [FramingNext]_framingVars => FramedInv'
  BY NextStaysWithin
<1> QED
  BY <1>1, <1>2, PTL DEF FramingSpec

LEMMA WithinIsInOrder == FramedInv => InOrder
<1> SUFFICES ASSUME FramedInv PROVE InOrder
  OBVIOUS
<1> DEFINE given == [i \in 1..Len(written) |-> written[i].gives]
<1>1. /\ Len(out) \in Nat /\ Len(written) \in Nat /\ Len(out) <= Len(written)
      /\ \A i \in 1..Len(out) : out[i] = written[i].gives
      /\ out \in Seq(Results)
  BY LenProperties DEF FramedInv, OutIsOfTheFrames, WireIsOfTheFrames
<1>2. \A i \in 1..Len(written) : written[i].gives \in Results
  BY ElementOfSeq DEF FramedInv, WireIsOfTheFrames, Results
<1>3. given \in Seq(Results) /\ Len(given) = Len(written)
  BY <1>1, <1>2
<1>4. \A i \in 1..Len(out) : given[i] = out[i]
  BY <1>1
<1> HIDE DEF given
<1>5. SubSeq(out, 1, Len(out)) = SubSeq(given, 1, Len(out))
  BY <1>1, <1>3, <1>4
<1>6. IsPrefix(out, given)
  BY <1>1, <1>3, <1>5 DEF IsPrefix
<1> QED
  BY <1>6 DEF InOrder, given

\* BaseProtocol.apply: for every set of frames and every cutting of the stream, what
\* is handed on is what the frames give, in their order.
THEOREM MessagesComeOutInOrder == FramingSpec => []InOrder
<1>1. FramedInv => InOrder
  BY WithinIsInOrder
<1> QED
  BY <1>1, ReaderIsWithin, PTL

LEMMA WithinWaitsForNothing == FramedInv => NothingWaits
<1> SUFFICES ASSUME FramedInv, ~parsing, AllClean, NEW i \in 1..Len(written)
             PROVE  i <= Len(out) <=> starts[i + 1] <= arrived
  BY DEF NothingWaits, AllClean
<1>1. PICK n \in Nat, o \in Nat : n = Len(written) /\ o = Len(out) /\ o <= n
  <2>1. Len(written) \in Nat /\ Len(out) \in Nat /\ Len(out) <= Len(written)
    BY LenProperties DEF FramedInv, WireIsOfTheFrames, OutIsOfTheFrames
  <2> QED
    BY <2>1, Zenon
<1>2. \A k \in 1..(n + 1) : starts[k] \in Nat
  BY <1>1, ElementOfSeq DEF FramedInv, WireIsOfTheFrames
<1>3. \A j, k \in 1..(n + 1) : j <= k => starts[j] <= starts[k]
  <2>1. \A j, k \in 1..(n + 1) : j < k => starts[j] < starts[k]
    BY <1>1 DEF FramedInv, WireIsOfTheFrames
  <2> QED
    BY <2>1, <1>1, <1>2
<1>4. PICK a \in Nat, b \in Nat : a = arrived /\ b = Len(buffer) /\ b <= a
  <2>1. arrived \in Nat /\ Len(buffer) \in Nat /\ Len(buffer) <= arrived
    BY LenProperties DEF FramedInv, BufferIsOfTheWire, WireIsOfTheFrames
  <2> QED
    BY <2>1, Zenon
<1>5. o + 1 \in 1..(n + 1) /\ i + 1 \in 1..(n + 1)
  BY <1>1
<1>6. CASE i <= o
  <2>1. a - b - starts[o + 1] >= 0
    <3>1. CASE o < n
      <4>1. PICK k \in Nat, frame \in Frames, p \in Nat, h \in Nat : Reading(k, frame, p, h)
        BY <3>1, <1>1, ReaderIsSomewhere
      <4>2. p = a - b - starts[o + 1]
        BY <4>1, <1>1, <1>4 DEF Reading, Taken
      <4> QED
        BY <4>1, <4>2
    <3>2. CASE o = n
      BY <3>2, <1>1, <1>4 DEF FramedInv, ReaderIsWithinAFrame, Taken
    <3> QED
      BY <3>1, <3>2, <1>1
  <2>2. i + 1 <= o + 1
    BY <1>1, <1>6
  <2>3. starts[i + 1] <= starts[o + 1] /\ starts[i + 1] \in Nat /\ starts[o + 1] \in Nat
    BY <2>2, <1>2, <1>3, <1>5
  <2>4. starts[i + 1] <= a
    BY <2>1, <2>3, <1>4
  <2> QED
    BY <2>4, <1>1, <1>4, <1>6
<1>7. CASE ~(i <= o)
  <2>1. o < n /\ o + 2 \in 1..(n + 1) /\ o + 2 <= i + 1
    BY <1>1, <1>7
  <2>2. a < starts[o + 2]
    BY <2>1, <1>1, <1>4 DEF FramedInv, NextIsNotWhole
  <2>3. starts[o + 2] <= starts[i + 1] /\ starts[i + 1] \in Nat /\ starts[o + 2] \in Nat
    BY <2>1, <1>2, <1>3, <1>5
  <2>4. ~(starts[i + 1] <= a)
    BY <2>2, <2>3, <1>4
  <2> QED
    BY <2>4, <1>1, <1>4, <1>7
<1> QED
  BY <1>6, <1>7

\* BaseProtocol.apply: when it returns and every line of the headers was one, the
\* frames that have been handed on are those that have arrived whole.
THEOREM WholeFramesAreHandedOn == FramingSpec => []NothingWaits
<1>1. FramedInv => NothingWaits
  BY WithinWaitsForNothing
<1> QED
  BY <1>1, ReaderIsWithin, PTL
===============================================================================
