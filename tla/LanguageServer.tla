---------------------------- MODULE LanguageServer ----------------------------
(***************************************************************************)
(* The actor of language_server.pony between its client and the workspace  *)
(* managers it makes, with the router, the aggregators of workspace/symbol *)
(* and the compiler they all share.  Of a manager there is what requests,  *)
(* compiles and progress need: Workspace.tla has the rest.                 *)
(*                                                                         *)
(* One step is one behaviour of one actor.  What the client sends waits on *)
(* `wire`; what it is sent it has at once, and may take its time to react. *)
(***************************************************************************)
EXTENDS CompileProtocol, FiniteSets, TLC

CONSTANTS
  Clients,         \* the capabilities each client the server may meet has: sets of
                   \* "configuration", "dynamic" (registration), "progress", "refresh",
                   \* and "strings" if its request ids are no numbers
  Budget,          \* bound: no more than this many acts of the client,
  Ahead            \* and no new one with this many messages untaken

ASSUME ServerAssumption ==
  IsFiniteSet(Managers) /\ {Budget, Ahead} \subseteq Nat /\ NoResult \notin Nat

VARIABLES
  caps,            \* _client: the capabilities of the client
  state,           \* _state
  workspaces,      \* _router: the managers registered
  expecting,       \* _expect_responses_for
  idGen,           \* _request_id_gen
  sends,           \* send_request messages the server has not taken
  disposing,       \* whether a dispose message is on its way to the server
  mail,            \* requests and notifications each manager has not taken
  aggregators,     \* of each workspace/symbol request that has one
  settingsMail,    \* apply_settings messages the compiler has not taken
  settings         \* the settings the compiler has, 0 if none

VARIABLES
  sent,            \* messages the client has sent, each with its number as id
  wire,            \* those the server has not taken
  answers,         \* the responses to each request of the client
  toAnswer,        \* requests of the server the client has not answered
  reported,        \* $/progress notifications, by token
  mine,            \* the client's settings, a new number for every change; 0 is none
  initialized      \* "no", "yes" (said once initialize was answered), "gone" (exit)

serverVars == <<state, workspaces, expecting, idGen, sends, disposing, mail,
                aggregators, settingsMail, settings>>
clientVars == <<caps, sent, wire, answers, toAnswer, reported, mine, initialized>>
allVars == <<vars, serverVars, clientVars>>

Ids == 1..Budget
RequestKinds == {"initialize", "document", "symbol", "shutdown", "unknown"}

ServerInit ==
  /\ Init
  /\ caps \in Clients
  /\ state = "uninitialized"
  /\ workspaces = {}
  /\ expecting = <<>>
  /\ idGen = 0
  /\ sends = <<>>
  /\ disposing = FALSE
  /\ mail = [m \in Managers |-> <<>>]
  /\ aggregators = <<>>
  /\ settingsMail = <<>>
  /\ settings = 0
  /\ sent = 0
  /\ wire = <<>>
  /\ answers = [id \in Ids |-> <<>>]
  /\ toAnswer = {}
  /\ reported = <<>>
  /\ mine = 0
  /\ initialized = "no"

------------------------------------------------------------------------------
(* The client.  It may say anything at any time, as only its own users     *)
(* could tell it not to; after exit it says nothing.                       *)

ClientAct(message) ==
  /\ sent < Budget /\ Len(wire) < Ahead
  /\ initialized # "gone"
  /\ sent' = sent + 1
  /\ wire' = Append(wire, message)
  /\ UNCHANGED <<caps, vars, serverVars, answers, toAnswer, reported>>

Asking(kind, m) == [kind |-> kind, id |-> sent + 1, of |-> m]
Telling(kind, m) == [kind |-> kind, of |-> m]

\* The parameters may be the object they should be or none: initialize can come
\* twice, or never.
SendInitialize ==
  /\ \E params \in {"object", NoResult} : ClientAct(Asking("initialize", params))
  /\ UNCHANGED <<mine, initialized>>

SendInitialized ==
  /\ initialized' = IF state # "uninitialized" THEN "yes" ELSE initialized
  /\ ClientAct(Telling("initialized", NoResult))
  /\ UNCHANGED mine

SendRequest(kind, m) ==
  /\ ClientAct(Asking(kind, m))
  /\ UNCHANGED <<mine, initialized>>

SendOpen(m) ==
  /\ ClientAct(Telling("didOpen", m))
  /\ UNCHANGED <<mine, initialized>>

\* The settings change: the client sends them, or if it can be asked for them
\* that they have changed.
SendSettings ==
  /\ mine' = mine + 1
  /\ \/ ClientAct(Telling("settings", mine + 1))
     \/ "configuration" \in caps /\ ClientAct(Telling("settings", NoResult))
  /\ UNCHANGED initialized

SendExit ==
  /\ ClientAct(Telling("exit", NoResult))
  /\ initialized' = "gone"
  /\ UNCHANGED mine

\* It answers what it is asked, in any order; to make a progress token it may
\* decline.
Respond(r, accepted) ==
  /\ r \in toAnswer
  /\ ~accepted => r.method = "progress"
  /\ initialized # "gone"
  /\ toAnswer' = toAnswer \ {r}
  /\ wire' = Append(wire, [kind |-> "response", id |-> r.id, ok |-> accepted, result |-> mine])
  /\ UNCHANGED <<caps, vars, serverVars, sent, answers, reported, mine, initialized>>

------------------------------------------------------------------------------
(* What the server does with a message.                                    *)

Answer(id, with) == answers' = [answers EXCEPT ![id] = Append(@, with)]

\* A message to itself or from a manager: `send_request`.
Sending(method, token) == [method |-> method, token |-> token]

Message == Head(wire)

Receive(kind) ==
  /\ wire # <<>>
  /\ Message.kind = kind
  /\ wire' = Tail(wire)
  /\ UNCHANGED <<vars, caps, sent, toAnswer, reported, mine, initialized, settings>>

\* A request in a state that has no use for it is answered with an error.
RequestRefused ==
  /\ wire # <<>> /\ Message.kind \in RequestKinds
  /\ \/ state = "uninitialized" /\ Message.kind # "initialize"
     \/ state = "initialized" /\ Message.kind = "initialize"
     \/ state = "shuttingDown"
  /\ Receive(Message.kind)
  /\ Answer(Message.id, {"error"})
  /\ UNCHANGED <<state, workspaces, expecting, idGen, sends, disposing, mail, aggregators,
                 settingsMail>>

\* handle_initialize: a manager is made for every workspace found.
IdAfterInitialize == IF "strings" \in caps THEN idGen ELSE Message.id + 1
HandleInitialize ==
  /\ state = "uninitialized"
  /\ Receive("initialize")
  /\ Message.of = "object"
  /\ \E found \in SUBSET Managers : workspaces' = found
  /\ idGen' = IdAfterInitialize
  /\ state' = "initialized"
  /\ Answer(Message.id, {"capabilities"})
  /\ UNCHANGED <<expecting, sends, disposing, mail, aggregators,
                 settingsMail>>

\* With parameters that are no object it is not answered, and changes nothing.
IgnoreInitialize ==
  /\ state = "uninitialized"
  /\ Receive("initialize")
  /\ Message.of # "object"
  /\ UNCHANGED <<state, workspaces, expecting, idGen, sends, disposing, mail, aggregators,
                 settingsMail, answers>>

\* A request about a document is passed on to the manager of its workspace.
HandleRouted ==
  /\ state = "initialized"
  /\ Receive("document")
  /\ IF Message.of \in workspaces
       THEN /\ mail' = [mail EXCEPT ![Message.of] =
                 Append(@, [kind |-> "document", id |-> Message.id])]
            /\ UNCHANGED answers
       ELSE Answer(Message.id, {"error"}) /\ UNCHANGED mail
  /\ UNCHANGED <<state, workspaces, expecting, idGen, sends, disposing, aggregators,
                 settingsMail>>

\* workspace/symbol goes to every manager, and an aggregator counts.
CountMinusOne == Cardinality(workspaces) - 1
CountOfAll == Cardinality(Managers)
Count == Cardinality(workspaces)
HandleSymbol ==
  /\ state = "initialized"
  /\ Receive("symbol")
  /\ IF workspaces = {}
       THEN Answer(Message.id, {}) /\ UNCHANGED <<mail, aggregators>>
       ELSE /\ mail' = [m \in Managers |->
                 IF m \in workspaces THEN Append(mail[m], [kind |-> "symbol", id |-> Message.id])
                 ELSE mail[m]]
            /\ aggregators' = [id \in DOMAIN aggregators \cup {Message.id} |->
                 IF id # Message.id THEN aggregators[id]
                 ELSE [remaining |-> Count, results |-> {}, coming |-> {}, of |-> workspaces]]
            /\ UNCHANGED answers
  /\ UNCHANGED <<state, workspaces, expecting, idGen, sends, disposing, settingsMail>>

HandleShutdown ==
  /\ state = "initialized"
  /\ Receive("shutdown")
  /\ state' = "shuttingDown"
  /\ Answer(Message.id, {})
  /\ UNCHANGED <<workspaces, expecting, idGen, sends, disposing, mail, aggregators,
                 settingsMail>>

\* A method nobody implements.
HandleUnknown ==
  /\ state = "initialized"
  /\ Receive("unknown")
  /\ Answer(Message.id, {"error"})
  /\ UNCHANGED <<state, workspaces, expecting, idGen, sends, disposing, mail, aggregators,
                 settingsMail>>

\* Notifications are handled in any state, but before initialize nothing is known
\* of the client.  handle_initialized: settings are asked for if the client has any
\* to give; one that has not, and cannot tell of them either, is not waited for.
Known == state # "uninitialized"
CanRegister == Known /\ "dynamic" \in caps
CanAsk == Known /\ "configuration" \in caps
HandleInitialized ==
  /\ Receive("initialized")
  /\ sends' = sends
       \o (IF CanRegister THEN <<Sending("register", NoResult)>> ELSE <<>>)
       \o (IF CanAsk THEN <<Sending("configuration", NoResult)>> ELSE <<>>)
  /\ settingsMail' = IF CanRegister \/ CanAsk THEN settingsMail
                     ELSE Append(settingsMail, 0)
  /\ UNCHANGED <<state, workspaces, expecting, idGen, disposing, mail, aggregators, answers>>

HandleDidOpen ==
  /\ Receive("didOpen")
  /\ mail' = IF Message.of \in workspaces
               THEN [mail EXCEPT ![Message.of] = Append(@, [kind |-> "didOpen", id |-> 0])]
               ELSE mail
  /\ UNCHANGED <<state, workspaces, expecting, idGen, sends, disposing, aggregators,
                 settingsMail, answers>>

\* handle_did_change_configuration: pull them, or pass them on.
PulledNever == <<>>
Pulled == IF CanAsk THEN <<Sending("configuration", NoResult)>> ELSE <<>>
HandleSettings ==
  /\ Receive("settings")
  /\ IF Message.of = NoResult
       THEN sends' = sends \o Pulled /\ UNCHANGED settingsMail
       ELSE settingsMail' = Append(settingsMail, Message.of) /\ UNCHANGED sends
  /\ UNCHANGED <<state, workspaces, expecting, idGen, disposing, mail, aggregators, answers>>

\* exit: the router forgets the managers, in a behaviour of its own.
HandleExit ==
  /\ Receive("exit")
  /\ disposing' = TRUE
  /\ UNCHANGED <<state, workspaces, expecting, idGen, sends, mail, aggregators,
                 settingsMail, answers>>

Dispose ==
  /\ disposing
  /\ disposing' = FALSE
  /\ workspaces' = {}
  /\ UNCHANGED <<vars, clientVars, state, expecting, idGen, sends, mail, aggregators,
                 settingsMail, settings>>

\* send_request: it gets an id, and its answer is expected from now on.
IdAfterKept == idGen
IdAfter == idGen + 1
SendToClient ==
  /\ sends # <<>>
  /\ LET r == [id |-> idGen, method |-> Head(sends).method, token |-> Head(sends).token] IN
     /\ toAnswer' = toAnswer \cup {r}
     /\ expecting' = Append(expecting, r)
  /\ idGen' = IdAfter
  /\ sends' = Tail(sends)
  /\ UNCHANGED <<vars, caps, sent, wire, answers, reported, mine, initialized,
                 state, workspaces, disposing, mail, aggregators, settingsMail, settings>>

Note(token, event) ==
  (token :> (IF token \in DOMAIN reported THEN Append(reported[token], event) ELSE <<event>>))
    @@ reported

\* handle_response: the first request expected under the id.  (The listener of a
\* progress token sends from an actor of its own, here at once.)
Matches(id) == {i \in 1..Len(expecting) : expecting[i].id = id}
HandleResponse ==
  /\ wire # <<>> /\ Message.kind = "response"
  /\ wire' = Tail(wire)
  /\ IF state = "shuttingDown" \/ Matches(Message.id) = {}
       THEN UNCHANGED <<expecting, settingsMail, reported>>
       ELSE LET i == CHOOSE i \in Matches(Message.id) : \A j \in Matches(Message.id) : i <= j
                r == expecting[i]
            IN  /\ expecting' = RemoveAt(expecting, i)
                /\ settingsMail' = IF r.method # "configuration" THEN settingsMail
                                   ELSE Append(settingsMail, Message.result)
                /\ reported' = IF r.method = "progress" /\ Message.ok THEN Note(r.token, "begin")
                               ELSE reported
  /\ UNCHANGED <<vars, caps, sent, answers, toAnswer, mine, initialized, state, workspaces,
                 idGen, sends, disposing, mail, aggregators, settings>>

------------------------------------------------------------------------------
(* The managers, the aggregators and the compiler.                         *)

\* A manager takes a request or a notification.
TakeMail(m, kind) ==
  /\ mail[m] # <<>>
  /\ Head(mail[m]).kind = kind
  /\ mail' = [mail EXCEPT ![m] = Tail(@)]
  /\ UNCHANGED <<caps, state, workspaces, expecting, idGen, disposing, settingsMail, settings,
                 sent, wire, toAnswer, reported, mine, initialized>>

AnswerDocument(m) ==
  /\ TakeMail(m, "document")
  /\ Answer(Head(mail[m]).id, {m})
  /\ UNCHANGED <<vars, sends, aggregators>>

FindSymbols(m) ==
  /\ TakeMail(m, "symbol")
  /\ aggregators' = [aggregators EXCEPT ![Head(mail[m]).id].coming = @ \cup {m}]
  /\ UNCHANGED <<vars, sends, answers>>

\* add_results: the last one answers.
LastButOne(a) == a.remaining <= 1
IsLast(a) == a.remaining = 0
AddResults(id, m) ==
  /\ m \in aggregators[id].coming
  /\ LET a == [aggregators[id] EXCEPT !.remaining = @ - 1, !.results = @ \cup {m},
                                      !.coming = @ \ {m}]
     IN /\ aggregators' = [aggregators EXCEPT ![id] = a]
        /\ IF IsLast(a) THEN Answer(id, a.results) ELSE UNCHANGED answers
  /\ UNCHANGED <<vars, caps, state, workspaces, expecting, idGen, sends, disposing, mail, settingsMail,
                 settings, sent, wire, toAnswer, reported, mine, initialized>>

\* The token of the compile a manager has asked for, or is about to.
Token(m, p) == <<m, p, compileRun[m]>>

\* did_open, as far as the compile goes: nothing if a compile is running or the
\* document needs none.
OpenAndCompile(m, p) ==
  /\ TakeMail(m, "didOpen")
  /\ \/ UNCHANGED <<vars, sends>>
     \/ /\ MayAsk(m)
        /\ Ask(m, p)
        /\ sends' = IF "progress" \in caps THEN Append(sends, Sending("progress", Token(m, p)))
                    ELSE sends
  /\ UNCHANGED <<answers, aggregators>>

\* done_compiling, as far as the compile goes.
DoneCompiling(m) ==
  /\ Done(m)
  /\ reported' = IF "progress" \in caps
                   THEN Note(Token(m, Head(finished[m]).package), "end") ELSE reported
  /\ sends' = IF "refresh" \in caps THEN Append(sends, Sending("refresh", NoResult)) ELSE sends
  /\ UNCHANGED <<caps, state, workspaces, expecting, idGen, disposing, mail, aggregators,
                 settingsMail, settings, sent, wire, answers, toAnswer, mine, initialized>>

\* apply_settings.
TakeSettings ==
  /\ settingsMail # <<>>
  /\ settingsMail' = Tail(settingsMail)
  /\ settings' = IF Head(settingsMail) = 0 THEN settings ELSE Head(settingsMail)
  /\ IF gotSettings THEN UNCHANGED vars ELSE ApplySettings /\ UNCHANGED <<compiling, compileRun>>
  /\ UNCHANGED <<clientVars, state, workspaces, expecting, idGen, sends, disposing, mail, aggregators>>

RunCompiler ==
  /\ Defer \/ Compile(NoResult)
  /\ UNCHANGED <<compiling, compileRun, serverVars, clientVars>>

------------------------------------------------------------------------------
HandleWire ==
  \/ RequestRefused \/ HandleInitialize \/ IgnoreInitialize \/ HandleRouted \/ HandleSymbol
  \/ HandleShutdown \/ HandleUnknown \/ HandleInitialized \/ HandleDidOpen \/ HandleSettings \/ HandleExit
  \/ HandleResponse

ManagerStep(m) ==
  AnswerDocument(m) \/ FindSymbols(m) \/ DoneCompiling(m) \/ \E p \in Packages : OpenAndCompile(m, p)

Aggregate == \E id \in DOMAIN aggregators, m \in Managers : AddResults(id, m)

ClientStep ==
  \/ SendInitialize \/ SendInitialized \/ SendSettings \/ SendExit
  \/ \E m \in Managers : SendRequest("document", m) \/ SendOpen(m)
  \/ \E kind \in {"symbol", "shutdown", "unknown"} : SendRequest(kind, NoResult)

Responds == \E r \in toAnswer, accepted \in BOOLEAN : Respond(r, accepted)

ServerNext ==
  \/ ClientStep
  \/ Responds
  \/ HandleWire
  \/ SendToClient \/ Dispose
  \/ \E m \in Managers : ManagerStep(m)
  \/ Aggregate
  \/ TakeSettings \/ RunCompiler

\* Every actor with a message is scheduled, and takes its messages in turn; the
\* client answers what it is asked, and otherwise need not say anything.
ServerFairness ==
  /\ WF_allVars(Responds)
  /\ WF_allVars(HandleWire)
  /\ WF_allVars(SendToClient \/ Dispose)
  /\ \A m \in Managers : WF_allVars(ManagerStep(m)) /\ WF_allVars(DoneCompiling(m))
  /\ WF_allVars(Aggregate)
  /\ WF_allVars(TakeSettings)
  /\ WF_allVars(RunCompiler)

ServerSpec == ServerInit /\ [][ServerNext]_allVars
FairServerSpec == ServerSpec /\ ServerFairness
------------------------------------------------------------------------------
(* Properties.                                                             *)

\* No request of the client is answered twice: not by a manager and the router,
\* not by an aggregator whose count has gone wrong, not in any state.
AnsweredOnce == \A id \in Ids : Len(answers[id]) <= 1

\* workspace/symbol is answered with the symbols of every workspace there was
\* when it was asked, though answers come in any order, several are collected
\* at once, and the router may have let the managers go in between.
SymbolAnswerIsWhole ==
  \A id \in DOMAIN aggregators : answers[id] # <<>> => answers[id] = <<aggregators[id].of>>

\* What the client answers is what the server expects an answer to: exactly one
\* expectation has the id, and it is about the method the client was asked for,
\* whatever else the server and its managers have sent meanwhile.
ResponsesAreExpected ==
  /\ \A r \in toAnswer : \E i \in Matches(r.id) : Matches(r.id) = {i} /\ expecting[i] = r
  /\ \A i \in 1..Len(wire) : wire[i].kind = "response" => Cardinality(Matches(wire[i].id)) = 1

\* When nothing is on its way between client and compiler, the compiler has the
\* client's settings: the last of them, pushed or pulled, has overtaken none.
SettingsSettle ==
  wire = <<>> /\ sends = <<>> /\ toAnswer = {} /\ settingsMail = <<>>
    /\ initialized = "yes" /\ state = "initialized"
  => settings = mine

\* Every request is answered, in whatever state it finds the server, but one: an
\* initialize whose params are no object, taken before any that is heeded.
Heeded(message) ==
  /\ message.kind \in RequestKinds
  /\ message.kind = "initialize" => message.of = "object" \/ state # "uninitialized"

RequestsAnswered ==
  \A id \in Ids :
    (\E i \in 1..Len(wire) : Heeded(wire[i]) /\ wire[i].id = id) ~> answers[id] # <<>>

\* A compile a manager has asked for ends, if the client says that it is initialized,
\* stays and does not shut the server down: the settings the compiler waits for come
\* ("even if we have no valid settings, we still call the compiler, as it has to be
\* initialised with apply_settings at least once").
Leaves == initialized = "gone" \/ state = "shuttingDown"

CompilesEndWhileUp ==
  \A m \in Managers : compiling[m] /\ initialized = "yes" ~> ~compiling[m] \/ Leaves

\* So it is with every client that is asked for its settings, or is not waited for:
\* all but the one that registers for changes and has no configuration to ask for.
AskedCompilesEnd ==
  ("dynamic" \in caps => "configuration" \in caps)
  => \A m \in Managers : compiling[m] /\ initialized = "yes" ~> ~compiling[m] \/ Leaves
==============================================================================
