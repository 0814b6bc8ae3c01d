-------------------------------- MODULE Syntax ---------------------------------
(***************************************************************************)
(* pony_syntax: ParseSource.  The whole source is scanned before the first *)
(* rule runs ("recover val TokenStream(source') end"); then the rules      *)
(* build the tree from the tokens.                                         *)
(***************************************************************************)
EXTENDS Lexer, SequencesExt

CONSTANTS
  Parsed,      \* bound: of the sources these are parsed, the others scanned
  Trivia, NodeKinds, MaxNodes, MaxRules

VARIABLES stream, index, offset, elems, rules

parser == <<stream, index, offset, elems, rules>>

Parser == INSTANCE TreeBuilder

\* A SyntaxKind is a kind of token or one of node.
ASSUME NodeKindsAssumption ==
  (NodeKinds \cup {Parser!NdModule, Parser!NdError}) \cap Kinds = {}

SyntaxInit == Init /\ Parser!Init

Scan == Next /\ UNCHANGED parser

Parse ==
  /\ mode = "done" /\ source \in Parsed
  /\ Parser!StartModule([k \in DOMAIN tokens |-> [kind |-> tokens[k].kind, width |-> tokens[k].width]])
  /\ UNCHANGED vars

Building == Parser!Step /\ UNCHANGED vars

Ready ==
  /\ mode = "done" /\ (source \notin Parsed \/ Parser!Built)
  /\ UNCHANGED vars /\ UNCHANGED parser

SyntaxNext == Scan \/ Parse \/ Building \/ Ready

SyntaxSpec == SyntaxInit /\ [][SyntaxNext]_<<vars, parser>>

-------------------------------------------------------------------------------
(***************************************************************************)
(* "Lossless: the leaves tile the source in order, so `reprint` reproduces *)
(* it" (syntax_tree.pony:14): whatever was opened, wrapped, chained or     *)
(* recovered, each token is in the tree once and in its place, with its    *)
(* width, and the root that was built covers all of them and all bytes.    *)
(***************************************************************************)
Leaves == {k \in DOMAIN elems : ~Parser!IsNode(elems[k])}
Lossless ==
  /\ Parser!Built => index = Len(tokens) /\ elems[1].size = Len(elems) /\ elems[1].width = n
  /\ \E at \in [1 .. index -> Leaves] :
       /\ \A k \in Leaves : \E l \in 1 .. index : at[l] = k
       /\ \A l \in 1 .. index :
            /\ elems[at[l]] = [kind |-> tokens[l].kind, width |-> tokens[l].width, size |-> 1]
            /\ \A m \in 1 .. l - 1 : at[m] < at[l]

\* A node begins at its first real token.
NodesBeginAtTokens == Parser!NodesBeginAtTokens
================================================================================
