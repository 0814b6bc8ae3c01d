-------------------------------- MODULE Lexer ---------------------------------
(***************************************************************************)
(* pony_syntax/lexer.pony: TokenStream._scan over one source.  Loops that  *)
(* look at one byte at a time for the end of a run are its end; those that *)
(* take escapes, pairs or depth into account are steps of their own.       *)
(***************************************************************************)
EXTENDS TokenKinds

CONSTANTS
  Sources,    \* sequences of bytes, each the character it is or its name
  Letters,    \* a to z and A to Z, with _
  HexDigits   \* 0 to 9, a to f and A to F

ASSUME SourcesAssumption == Sources \subseteq Seq(STRING)

VARIABLES
  source,
  i,              \* where the token being scanned begins; bytes count from 0
  j,              \* how far it has been scanned
  mode,
  depth,          \* of nested comments
  after_newline,
  tokens          \* kind and width; at is the offset TokenIterator comes to

vars == <<source, i, j, mode, depth, after_newline, tokens>>

Space == {"space", "tab", "return", "newline"}
Digits == {"0", "1", "2", "3", "4", "5", "6", "7", "8", "9"}
Ident == Letters \cup Digits \cup {"'"}
Quoted == {"string", "character"}

n == Len(source)
Byte(k) == IF k < n THEN source[k + 1] ELSE "zero"
At(text, k) == k + Len(text) <= n /\ \A l \in 1 .. Len(text) : source[k + l] = text[l]
Text(from, to) == SubSeq(source, from + 1, to)

\* Where the run of such bytes that begins at from ends.
Past(from, bytes) == Least({k \in from .. n : k = n \/ Byte(k) \notin bytes})
LineEnd(from) == Least({k \in from .. n : k = n \/ Byte(k) = "newline"})

Init ==
  /\ source \in Sources
  /\ i = 0 /\ j = 0
  /\ mode = "scan"
  /\ depth = 0
  /\ after_newline = TRUE
  /\ tokens = <<>>

Push(kind, to) ==
  /\ tokens' = Append(tokens, [kind |-> kind, at |-> i, width |-> to - i])
  /\ i' = to /\ j' = to
  /\ mode' = "scan"
  /\ UNCHANGED <<source, depth>>

Goes(to) ==
  /\ j' = to
  /\ UNCHANGED <<source, i, after_newline, tokens>>

Scanning == mode = "scan" /\ i < n

-------------------------------------------------------------------------------
(* Trivia                                                                  *)

Whitespace ==
  /\ Scanning /\ Byte(i) \in Space
  /\ \E to \in {Past(i, Space)} :
        /\ Push("TkWhitespace", to)
        /\ after_newline' = (after_newline \/ \E k \in i .. to - 1 : Byte(k) = "newline")

LineComment ==
  /\ Scanning /\ At(<<"/", "/">>, i)
  /\ Push("TkLineComment", LineEnd(i + 2))
  /\ UNCHANGED after_newline

NestedComment ==
  /\ Scanning /\ At(<<"/", "*">>, i)
  /\ mode' = "comment" /\ depth' = 1
  /\ Goes(i + 2)

InComment ==
  /\ mode = "comment" /\ j < n /\ depth > 0
  /\ UNCHANGED mode
  /\ \/ At(<<"*", "/">>, j) /\ depth' = depth - 1 /\ Goes(j + 2)
     \/ At(<<"/", "*">>, j) /\ depth' = depth + 1 /\ Goes(j + 2)
     \/ ~At(<<"*", "/">>, j) /\ ~At(<<"/", "*">>, j) /\ UNCHANGED depth /\ Goes(j + 1)

\* Where a definition is preceded by others of the same form, these are
\* plausible bugs in the code it models, and used nowhere.
CommentDoneKeepsNewline ==
  /\ mode = "comment" /\ ~(j < n /\ depth > 0)
  /\ Push(IF depth = 0 THEN "TkNestedComment" ELSE "TkLexError", j)
  /\ UNCHANGED after_newline
CommentDone ==
  /\ mode = "comment" /\ ~(j < n /\ depth > 0)
  /\ Push(IF depth = 0 THEN "TkNestedComment" ELSE "TkLexError", j)
  /\ after_newline' = FALSE

-------------------------------------------------------------------------------
(* Tokens                                                                  *)

Identifier ==
  LET to == Past(i, Ident)
      keyword == Keywords(Text(i, to))
  IN <<IF keyword = None THEN "TkId" ELSE keyword, to>>

Hash ==
  LET to == Past(i + 1, Ident)
      keyword == Keywords(Text(i, to))
  IN IF keyword = None THEN <<"TkConstant", i + 1>> ELSE <<keyword, to>>

Decimal(from) == Past(from, Digits \cup {"_"})

Number ==
  LET whole == Decimal(i)
      fraction == Byte(whole) = "." /\ Byte(whole + 1) \in Digits
      mantissa == IF fraction THEN Decimal(whole + 1) ELSE whole
      power == IF Byte(mantissa + 1) \in {"+", "-"} THEN mantissa + 2 ELSE mantissa + 1
      exponent == Byte(mantissa) \in {"e", "E"} /\ Byte(power) \in Digits
      zero == Byte(i) = "0"
  IN CASE zero /\ Byte(i + 1) \in {"x", "X"} -> <<"TkInt", Past(i + 2, HexDigits \cup {"_"})>>
       [] zero /\ Byte(i + 1) \in {"b", "B"} -> <<"TkInt", Past(i + 2, {"0", "1", "_"})>>
       [] OTHER -> <<IF fraction \/ exponent THEN "TkFloat" ELSE "TkInt",
                     IF exponent THEN Decimal(power) ELSE mantissa>>

Symbol ==
  LET here == {s \in scan : At(symbols[s].text, i)}
      first == symbols[FirstIn(here)]
  IN IF here = {}
     THEN <<"TkLexError", i + 1>>
     ELSE <<NewlineForm(camel[first.tk], after_newline), i + Len(first.text)>>

Comment == At(<<"/", "/">>, i) \/ At(<<"/", "*">>, i)

Token ==
  /\ Scanning /\ Byte(i) \notin Space \cup {"quote", "'"} /\ ~Comment
  /\ \E token \in {CASE Byte(i) = "#" -> Hash
                     [] Byte(i) \in Digits -> Number
                     [] Byte(i) \in Letters -> Identifier
                     [] OTHER -> Symbol} :
       Push(token[1], token[2])
  /\ after_newline' = FALSE

-------------------------------------------------------------------------------
(* Strings and characters                                                  *)

Three == <<"quote", "quote", "quote">>

Quote ==
  /\ Scanning /\ Byte(i) \in {"quote", "'"}
  /\ UNCHANGED depth
  /\ \/ At(Three, i) /\ mode' = "triple" /\ Goes(i + 3)
     \/ ~At(Three, i) /\ Byte(i) = "quote" /\ mode' = "string" /\ Goes(i + 1)
     \/ Byte(i) = "'" /\ mode' = "character" /\ Goes(i + 1)

Closing == IF mode = "string" THEN "quote" ELSE "'"

InQuoted ==
  /\ mode \in Quoted /\ j < n /\ Byte(j) # Closing
  /\ UNCHANGED <<mode, depth>>
  /\ Goes(IF Byte(j) = "\\" THEN j + 2 ELSE j + 1)

QuotedDone ==
  /\ mode \in Quoted /\ j < n /\ Byte(j) = Closing
  /\ Push(IF mode = "string" THEN "TkString" ELSE "TkInt", j + 1)
  /\ after_newline' = FALSE

InTriple ==
  /\ mode = "triple" /\ j < n /\ ~At(Three, j)
  /\ UNCHANGED <<mode, depth>>
  /\ Goes(j + 1)

TripleDone ==
  /\ mode = "triple" /\ j < n /\ At(Three, j)
  /\ Push("TkString", Past(j + 3, {"quote"}))
  /\ after_newline' = FALSE

UnterminatedAtJ ==
  /\ mode \in Quoted \cup {"triple"} /\ j >= n
  /\ Push("TkLexError", j)
  /\ after_newline' = FALSE
Unterminated ==
  /\ mode \in Quoted \cup {"triple"} /\ j >= n
  /\ Push("TkLexError", n)
  /\ after_newline' = FALSE

End ==
  /\ mode = "scan" /\ i >= n
  /\ tokens' = Append(tokens, [kind |-> "TkEof", at |-> i, width |-> 0])
  /\ mode' = "done"
  /\ UNCHANGED <<source, i, j, depth, after_newline>>

Next ==
  \/ Whitespace \/ LineComment \/ NestedComment \/ InComment \/ CommentDone
  \/ Token
  \/ Quote \/ InQuoted \/ QuotedDone \/ InTriple \/ TripleDone \/ Unterminated
  \/ End

Spec == Init /\ [][Next]_vars

-------------------------------------------------------------------------------
Kinds ==
  {camel[tk] : tk \in DOMAIN camel}
    \cup {"TkLparenNew", "TkLsquareNew", "TkMinusNew", "TkMinusTildeNew"}
    \cup {"TkWhitespace", "TkLineComment", "TkNestedComment", "TkLexError", "TkEof",
          "TkId", "TkConstant", "TkInt", "TkFloat", "TkString"}

\* Every variable is of its type.
TypeOK ==
  /\ source \in Seq(STRING)
  /\ i \in Nat /\ j \in Nat /\ depth \in Nat
  /\ mode \in Quoted \cup {"scan", "comment", "triple", "done"}
  /\ after_newline \in BOOLEAN
  /\ tokens \in Seq([kind : Kinds, at : Nat, width : Nat])

(***************************************************************************)
(* "Every byte of source lies in exactly one token" (lexer.pony:5): the    *)
(* tokens follow one another without a gap or an overlap and none but the  *)
(* last is empty, up to the place the scan has come to, which is never     *)
(* beyond the end and at the end is all of it.                             *)
(***************************************************************************)
EveryByteIsInOneToken ==
  /\ i <= n
  /\ \A k \in DOMAIN tokens :
       LET next == tokens[k].at + tokens[k].width
       IN /\ tokens[k].at = IF k = 1 THEN 0 ELSE tokens[k - 1].at + tokens[k - 1].width
          /\ k = Len(tokens) => next = i
          /\ tokens[k].width = 0 <=> tokens[k].kind = "TkEof"
          /\ tokens[k].kind = "TkEof" => k = Len(tokens) /\ i = n
  /\ tokens = <<>> => i = 0
  /\ mode = "done" => tokens # <<>> /\ tokens[Len(tokens)].kind = "TkEof"

\* ponyc's own scan of its table "takes the first" entry (gen_token_kinds.py:135).
PonycsSymbol(k) ==
  LET here == {s \in DOMAIN symbols : At(symbols[s].text, k)}
  IN IF here = {} THEN None ELSE symbols[Least(here)]

\* The kind without its newline form.
Plain(kind) ==
  CASE kind = "TkLparenNew" -> "TkLparen"
    [] kind = "TkLsquareNew" -> "TkLsquare"
    [] kind = "TkMinusNew" -> "TkMinus"
    [] kind = "TkMinusTildeNew" -> "TkMinusTilde"
    [] OTHER -> kind

SymbolKinds == {camel[symbols[s].tk] : s \in DOMAIN symbols}

(***************************************************************************)
(* The generator drops entries and sorts the rest, and the scanner looks   *)
(* for comments, numbers and names before it looks at a table: whatever    *)
(* comes out as a symbol is, newline form apart, the entry ponyc's scan of *)
(* its own table finds there, and as long; and no symbol of the table is   *)
(* read as an error.                                                       *)
(***************************************************************************)
SymbolIsPonycs ==
  \A k \in DOMAIN tokens :
    LET token == tokens[k]
        theirs == PonycsSymbol(token.at)
    IN /\ token.kind \in SymbolKinds =>
            /\ theirs # None
            /\ Plain(token.kind) = camel[theirs.tk]
            /\ token.width = Len(theirs.text)
       /\ token.kind = "TkLexError" /\ theirs # None =>
            Byte(token.at) \in {"quote", "'"} \/ At(<<"/", "*">>, token.at)

(***************************************************************************)
(* "A nested comment clears it, so that a newline inside a comment does    *)
(* not reach symbol disambiguation" (lexer.pony:70): a symbol that has a   *)
(* newline form is in it exactly if it is the first token of the source,   *)
(* blanks and line comments apart, or white space since the last other     *)
(* token has a newline.                                                    *)
(***************************************************************************)
Passed(k) == tokens[k].kind \in {"TkWhitespace", "TkLineComment"}
Since(k) == {l \in 1 .. k - 1 : \A m \in l .. k - 1 : Passed(m)}
HasNewline(l) ==
  /\ tokens[l].kind = "TkWhitespace"
  /\ \E p \in tokens[l].at .. tokens[l].at + tokens[l].width - 1 : Byte(p) = "newline"
AfterNewline(k) == Since(k) = 1 .. k - 1 \/ \E l \in Since(k) : HasNewline(l)

NewlineFormIsRight ==
  \A k \in DOMAIN tokens :
    LET plain == Plain(tokens[k].kind)
    IN plain \in HaveNewlineForms => (tokens[k].kind # plain <=> AfterNewline(k))

\* "No input fails to produce a stream" (lexer.pony:9), nor a stream that never
\* ends: a step takes the scan further, or ends it.
Advance ==
  \/ i' > i /\ j' >= i'
  \/ i' = i /\ j' > j
  \/ mode' = "done"
EveryStepAdvances == [][Advance]_vars
===============================================================================
