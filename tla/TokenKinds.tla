------------------------------ MODULE TokenKinds ------------------------------
(***************************************************************************)
(* tools/gen_token_kinds.py: pony_syntax/token_kind.pony, as it is made    *)
(* from the two tables of ponyc's lexer.  A table is a sequence of         *)
(* [text, tk]; a text is a sequence of bytes, and tk is ponyc's name.      *)
(***************************************************************************)
EXTENDS Naturals, Sequences

CONSTANTS
  symbols, keywords,   \* ponyc's tables, in ponyc's order
  camel,               \* the name of the primitive made for each of ponyc's names
  None

\* Kinds whose text is not fixed: VARIABLE, then EXTRA.
Unfixed == <<"TK_ID", "TK_STRING", "TK_INT", "TK_FLOAT",
             "TK_WHITESPACE", "TK_LINE_COMMENT", "TK_NESTED_COMMENT", "TK_EOF", "TK_LEX_ERROR">>
UnfixedKinds == <<"TkId", "TkString", "TkInt", "TkFloat",
                  "TkWhitespace", "TkLineComment", "TkNestedComment", "TkEof", "TkLexError">>

\* ponyc's name of each entry, in the order the primitives are written.
entries == [i \in DOMAIN symbols |-> symbols[i].tk] \o [i \in DOMAIN keywords |-> keywords[i].tk] \o Unfixed

\* "duplicate kind": nothing is written.
Duplicate == \E i, j \in DOMAIN entries : i # j /\ camel[entries[i]] = camel[entries[j]]

TokenKind ==
  {camel[symbols[i].tk] : i \in DOMAIN symbols} \cup {camel[keywords[i].tk] : i \in DOMAIN keywords}
    \cup {camel[Unfixed[i]] : i \in DOMAIN Unfixed}

Least(S) == CHOOSE m \in S : \A n \in S : m <= n

Keywords(word) ==
  LET hits == {i \in DOMAIN keywords : keywords[i].text = word}
  IN IF hits = {} THEN None ELSE camel[keywords[Least(hits)].tk]

\* The entries a scan can reach: the first of each text.
scan == {i \in DOMAIN symbols : \A j \in 1 .. i - 1 : symbols[j].text # symbols[i].text}

\* Symbols is scan sorted by falling length, in the table's order where that
\* is equal: of the entries in S this is the one it has first.
Longest(S) == {i \in S : \A j \in S : Len(symbols[j].text) <= Len(symbols[i].text)}
\* Where a definition is preceded by others of the same form, these are
\* plausible bugs in the code it models, and used nowhere.
FirstInRising(S) == Least({i \in S : \A j \in S : Len(symbols[i].text) <= Len(symbols[j].text)})
FirstIn(S) == Least(Longest(S))

NewlineForm(k, after_newline) ==
  IF after_newline
  THEN CASE k = "TkLparen" -> "TkLparenNew"
         [] k = "TkLsquare" -> "TkLsquareNew"
         [] k = "TkMinus" -> "TkMinusNew"
         [] k = "TkMinusTilde" -> "TkMinusTildeNew"
         [] OTHER -> k
  ELSE k

HaveNewlineForms == {"TkLparen", "TkLsquare", "TkMinus", "TkMinusTilde"}
NewlineForms == {NewlineForm(k, TRUE) : k \in HaveNewlineForms}

ASSUME TablesAssumption ==
  /\ symbols \in Seq([text : Seq(STRING) \ {<<>>}, tk : STRING])
  /\ keywords \in Seq([text : Seq(STRING) \ {<<>>}, tk : STRING])
  /\ \A i \in DOMAIN entries : entries[i] \in DOMAIN camel
  /\ \A i \in DOMAIN Unfixed : camel[Unfixed[i]] = UnfixedKinds[i]
  /\ ~Duplicate
  /\ \A i \in DOMAIN symbols : symbols[i] # None

(***************************************************************************)
(* ponyc's tables: its scan "takes the first" (gen_token_kinds.py:135), so *)
(* no text comes before a longer one that begins with it; a newline form   *)
(* comes after the symbol it is a form of, and is no keyword's kind, nor   *)
(* is that; and the one symbol that begins with # is #.                    *)
(***************************************************************************)
Begins(text, word) == Len(text) <= Len(word) /\ \A l \in 1 .. Len(text) : text[l] = word[l]

ASSUME PonycsTablesAssumption ==
  /\ \A i, j \in scan : i < j => ~Begins(symbols[i].text, symbols[j].text)
  /\ \A i \in scan : camel[symbols[i].tk] \notin NewlineForms
  /\ \A i \in DOMAIN keywords : camel[keywords[i].tk] \notin NewlineForms \cup HaveNewlineForms
  /\ \A i \in DOMAIN symbols :
       symbols[i].text[1] = "#" \/ camel[symbols[i].tk] = "TkConstant" =>
         symbols[i].text = <<"#">> /\ camel[symbols[i].tk] = "TkConstant"
===============================================================================
