-------------------------------- MODULE MCSyntax -------------------------------
(* An excerpt of ponyc's tables, in the order token_kind.pony has them, and     *)
(* every source of up to MaxBytes bytes of one of the alphabets, of comments and *)
(* strings up to one more; those of names, dots and blanks with at most         *)
(* MaxParsed bytes are parsed, and one of three.                                *)
EXTENDS ParsedTree

CONSTANTS MaxBytes, MaxParsed

Entry(text, tk) == [text |-> text, tk |-> tk]
MCSymbols ==
  <<Entry(<<"-", ">">>, "TK_ARROW"), Entry(<<"<", "<", "~">>, "TK_LSHIFT_TILDE"),
    Entry(<<"<", "~">>, "TK_LT_TILDE"), Entry(<<"-", "~">>, "TK_MINUS_TILDE"),
    Entry(<<"<", "<">>, "TK_LSHIFT"), Entry(<<".", ">">>, "TK_CHAIN"),
    Entry(<<"(">>, "TK_LPAREN"), Entry(<<".">>, "TK_DOT"), Entry(<<"~">>, "TK_TILDE"),
    Entry(<<"-">>, "TK_MINUS"), Entry(<<"*">>, "TK_MULTIPLY"), Entry(<<"/">>, "TK_DIVIDE"),
    Entry(<<"<">>, "TK_LT"), Entry(<<">">>, "TK_GT"), Entry(<<"-">>, "TK_UNARY_MINUS"),
    Entry(<<"#">>, "TK_CONSTANT"), Entry(<<"(">>, "TK_LPAREN_NEW"),
    Entry(<<"-", "~">>, "TK_MINUS_TILDE_NEW"), Entry(<<"-">>, "TK_MINUS_NEW")>>
MCKeywords == <<Entry(<<"b", "e">>, "TK_BE"), Entry(<<"#", "e">>, "TK_CAP_ANY")>>

MCcamel ==
  [TK_ARROW |-> "TkArrow", TK_LSHIFT_TILDE |-> "TkLshiftTilde", TK_LT_TILDE |-> "TkLtTilde",
   TK_MINUS_TILDE |-> "TkMinusTilde", TK_LSHIFT |-> "TkLshift", TK_CHAIN |-> "TkChain",
   TK_LPAREN |-> "TkLparen", TK_DOT |-> "TkDot", TK_TILDE |-> "TkTilde", TK_MINUS |-> "TkMinus",
   TK_MULTIPLY |-> "TkMultiply", TK_DIVIDE |-> "TkDivide", TK_LT |-> "TkLt", TK_GT |-> "TkGt",
   TK_UNARY_MINUS |-> "TkUnaryMinus", TK_CONSTANT |-> "TkConstant",
   TK_LPAREN_NEW |-> "TkLparenNew", TK_MINUS_TILDE_NEW |-> "TkMinusTildeNew",
   TK_MINUS_NEW |-> "TkMinusNew", TK_BE |-> "TkBe", TK_CAP_ANY |-> "TkCapAny",
   TK_ID |-> "TkId", TK_STRING |-> "TkString", TK_INT |-> "TkInt", TK_FLOAT |-> "TkFloat",
   TK_WHITESPACE |-> "TkWhitespace", TK_LINE_COMMENT |-> "TkLineComment",
   TK_NESTED_COMMENT |-> "TkNestedComment", TK_EOF |-> "TkEof", TK_LEX_ERROR |-> "TkLexError"]

MCLetters == {"b", "e", "x", "_"}
MCHexDigits == Digits \cup {"b", "e"}

MCParsed == SeqOf({"x", ".", "space"}, MaxParsed) \cup {<<"x", "space", ".">>}

MCSources == MCParsed \cup
  UNION {SeqOf(alphabet, MaxBytes) : alphabet \in
    {{"0", "1", "x", "e", ".", "-"}, {"#", "b", "e", "space", "_"},
     {"<", "~", "-", ">", "newline", "$"}, {"'", "\\", "b", "-"}}}
  \cup UNION {SeqOf(alphabet, MaxBytes + 1) : alphabet \in
    {{"/", "*", "newline", "-"}, {"quote", "\\", "("}}}
================================================================================
