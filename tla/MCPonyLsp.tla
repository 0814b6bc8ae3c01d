------------------------------- MODULE MCPonyLsp -------------------------------
(* The language server behind its base protocol: the actors, by messages, and   *)
(* the framing of messages, by bytes.  Two models side by side: a behaviour is  *)
(* of one of them, which `part` says, and the other stays as it began.          *)
EXTENDS MCServer, MCFraming

VARIABLE part   \* bound: "actors" or "bytes"

lspVars == <<part, allVars, framingVars>>

PartsInit ==
  \/ part = "actors" /\ ServerInit /\ FramingInit
  \/ part = "bytes" /\ caps = (CHOOSE c \in Clients : TRUE) /\ ServerInit /\ FramingInit

InActors == part = "actors" /\ UNCHANGED <<part, framingVars>>
InBytes == part = "bytes" /\ UNCHANGED <<part, allVars>>

PartsNext ==
  \/ InActors /\ SendInitialize
  \/ InActors /\ SendInitialized
  \/ InActors /\ SendSettings
  \/ InActors /\ SendExit
  \/ \E kind \in {"symbol", "shutdown", "unknown"} : InActors /\ SendRequest(kind, NoResult)
  \/ InActors /\ Responds
  \/ InActors /\ RequestRefused
  \/ InActors /\ HandleInitialize
  \/ InActors /\ IgnoreInitialize
  \/ InActors /\ HandleRouted
  \/ InActors /\ HandleSymbol
  \/ InActors /\ HandleShutdown
  \/ InActors /\ HandleUnknown
  \/ InActors /\ HandleInitialized
  \/ InActors /\ HandleDidOpen
  \/ InActors /\ HandleSettings
  \/ InActors /\ HandleExit
  \/ InActors /\ HandleResponse
  \/ InActors /\ SendToClient
  \/ InActors /\ Dispose
  \/ \E m \in Managers :
       \/ InActors /\ SendRequest("document", m)
       \/ InActors /\ SendOpen(m)
       \/ InActors /\ AnswerDocument(m)
       \/ InActors /\ FindSymbols(m)
       \/ InActors /\ DoneCompiling(m)
       \/ \E p \in Packages : InActors /\ OpenAndCompile(m, p)
  \/ InActors /\ Aggregate
  \/ InActors /\ TakeSettings
  \/ InActors /\ RunCompiler
  \/ \E frame \in Frames : InBytes /\ Write(frame)
  \/ InBytes /\ Arrive
  \/ InBytes /\ TakeHeader
  \/ InBytes /\ TakeMalformed
  \/ InBytes /\ EndHeaders
  \/ InBytes /\ AwaitLine
  \/ InBytes /\ RefuseHeaders
  \/ InBytes /\ TakeContent
  \/ InBytes /\ AwaitContent

PartsSpec == PartsInit /\ [][PartsNext]_lspVars /\ ServerFairness
================================================================================
