----------------------------- MODULE MCPonySyntax -----------------------------
(* pony_syntax: its scanner and parser over small sources, and the call graph  *)
(* of its grammar.  Two models side by side: a behaviour is of one of them,    *)
(* which `part` says, and the other stays as it began.                         *)
EXTENDS MCSyntax, MCGrammarDescent

VARIABLE part   \* bound: "source" or "grammar"

syntaxVars == <<vars, parser>>
allVars == <<part, syntaxVars, parserVars>>

NoCalls == [plain |-> [r \in Rules |-> {}], covered |-> [r \in Rules |-> {}], guarded |-> {}]

PartsInit ==
  \/ part = "source" /\ grammar = NoCalls /\ SyntaxInit /\ DescentInit
  \/ part = "grammar" /\ source = <<>> /\ SyntaxInit /\ DescentInit

InSource == part = "source" /\ UNCHANGED <<part, parserVars>>
InGrammar == part = "grammar" /\ UNCHANGED <<part, syntaxVars>>

PartsNext ==
  \/ InSource /\ Scan
  \/ InSource /\ Parse
  \/ InSource /\ Building
  \/ InSource /\ Ready
  \/ \E r \in Rules :
       \/ InGrammar /\ UNCHANGED descentVars /\ Root(r)
       \/ InGrammar /\ UNCHANGED descentVars /\ Report(r)
       \/ InGrammar /\ UNCHANGED descentVars /\ Descend(r)
       \/ InGrammar /\ UNCHANGED descentVars /\ PassBy(r)
       \/ InGrammar /\ BeginParse(r)
       \/ InGrammar /\ Call(r)
  \/ InGrammar /\ UNCHANGED descentVars /\ Leave
  \/ InGrammar /\ UNCHANGED descentVars /\ AllVisited
  \/ InGrammar /\ Guard
  \/ InGrammar /\ ReturnFromRule
  \/ InGrammar /\ UNCHANGED parserVars   \* the tool and a parse may come to an end

PartsSpec == PartsInit /\ [][PartsNext]_allVars
===============================================================================
