------------------------------ MODULE SyntaxProofs -----------------------------
(***************************************************************************)
(* The scan of any source, with any tables: its tokens cover the source,   *)
(* each of its steps takes it further, and its symbols are ponyc's.  The   *)
(* parse of any tokens by any rules: where its nodes begin.                *)
(***************************************************************************)
EXTENDS Syntax, Integers, SequenceTheorems, WellFoundedInduction, TLAPS

Kind == Kinds \ {"TkEof"}
TokenRecord == [kind : Kinds, at : Nat, width : Nat]

\* Where the scan is in its token.
InToken ==
  /\ mode \in {"scan", "done"} => j = i
  /\ mode \in Quoted \cup {"comment", "triple"} => i < j /\ i < n
  /\ mode \in {"comment", "triple"} => j <= n
  /\ mode \in Quoted => j <= n + 1
  /\ (\E k \in DOMAIN tokens : tokens[k].kind = "TkEof") => mode = "done"

Inv == TypeOK /\ InToken /\ EveryByteIsInOneToken

-------------------------------------------------------------------------------
LEMMA LeastIsLeast ==
  ASSUME NEW S \in SUBSET Nat, S # {}
  PROVE  Least(S) \in S /\ \A y \in S : Least(S) <= y
<1> DEFINE R == {ss \in Nat \X Nat : ss[1] < ss[2]}
<1>1. IsWellFoundedOn(R, Nat)
  BY NatLessThanWellFounded DEF OpToRel
<1> HIDE DEF R
<1>2. PICK x \in S : \A y \in S : ~(<<y, x>> \in R)
  BY <1>1, WFMin
<1>3. \A y \in S : ~(y < x)
  BY <1>2 DEF R
<1>4. \A y \in S : x <= y
  BY <1>3
<1> QED  BY <1>4 DEF Least

\* The end of a run lies between where it begins and the end of the source, and
\* beyond where it begins if it has a byte.
LEMMA PastEnds ==
  ASSUME n \in Nat, NEW from \in Nat, from <= n, NEW bytes
  PROVE  /\ Past(from, bytes) \in from .. n
         /\ from < n /\ Byte(from) \in bytes => from < Past(from, bytes)
<1> DEFINE S == {k \in from .. n : k = n \/ Byte(k) \notin bytes}
<1>1. S \in SUBSET Nat /\ n \in S
  OBVIOUS
<1>2. Least(S) \in S
  BY <1>1, LeastIsLeast
<1>3. Past(from, bytes) = Least(S)
  BY DEF Past
<1>4. ASSUME from < n, Byte(from) \in bytes
      PROVE  Least(S) # from
  BY <1>2, <1>4
<1> HIDE DEF S
<1>5. Least(S) \in from .. n
  BY <1>2 DEF S
<1> QED  BY <1>3, <1>4, <1>5

LEMMA LineEnds ==
  ASSUME n \in Nat, NEW from \in Nat, from <= n
  PROVE  LineEnd(from) \in from .. n
<1> DEFINE S == {k \in from .. n : k = n \/ Byte(k) = "newline"}
<1>1. S \in SUBSET Nat /\ n \in S
  OBVIOUS
<1>2. Least(S) \in S
  BY <1>1, LeastIsLeast
<1> QED  BY <1>2 DEF LineEnd

\* What the tables have, entry by entry.
LEMMA RowTypes ==
  ASSUME NEW E, NEW table \in Seq([text : E, tk : STRING])
  PROVE  /\ DOMAIN table = 1 .. Len(table) /\ Len(table) \in Nat
         /\ \A k \in 1 .. Len(table) : table[k].text \in E /\ table[k].tk \in STRING
<1> DEFINE R == [text : E, tk : STRING]
<1>1. table \in Seq(R)
  OBVIOUS
<1>2. \A r \in R : r.text \in E /\ r.tk \in STRING
  OBVIOUS
<1> HIDE DEF R
<1>3. /\ DOMAIN table = 1 .. Len(table) /\ Len(table) \in Nat
      /\ \A k \in 1 .. Len(table) : table[k] \in R
  BY <1>1
<1> QED  BY <1>2, <1>3

LEMMA ColumnTypes ==
  ASSUME NEW E, NEW table \in Seq([text : E, tk : STRING])
  PROVE  /\ [k \in DOMAIN table |-> table[k].tk] \in Seq(STRING)
         /\ Len([k \in DOMAIN table |-> table[k].tk]) = Len(table)
<1> DEFINE f == [k \in DOMAIN table |-> table[k].tk]
<1>1. /\ DOMAIN table = 1 .. Len(table) /\ Len(table) \in Nat
      /\ \A k \in 1 .. Len(table) : table[k].tk \in STRING
  BY RowTypes
<1>2. DOMAIN f = 1 .. Len(table) /\ \A k \in 1 .. Len(table) : f[k] \in STRING
  BY <1>1
<1>3. f = [k \in 1 .. Len(table) |-> f[k]]
  BY <1>1
<1> HIDE DEF f
<1>4. f \in Seq(STRING)
  BY <1>1, <1>2, <1>3, IsASeq
<1>5. Len(f) = Len(table)
  BY <1>1, <1>2, <1>4
<1> QED  BY <1>4, <1>5 DEF f

LEMMA Concatenated ==
  ASSUME NEW A, NEW x \in Seq(A), NEW y \in Seq(A), NEW z \in Seq(A)
  PROVE  /\ DOMAIN (x \o y \o z) = 1 .. Len(x) + Len(y) + Len(z)
         /\ \A k \in 1 .. Len(x) : (x \o y \o z)[k] = x[k]
         /\ \A k \in 1 .. Len(y) : (x \o y \o z)[Len(x) + k] = y[k]
         /\ \A k \in 1 .. Len(z) : (x \o y \o z)[Len(x) + Len(y) + k] = z[k]
  OBVIOUS

\* The names of the tables, one after another.
LEMMA EntriesAre ==
  /\ Len(symbols) \in Nat /\ DOMAIN symbols = 1 .. Len(symbols)
  /\ Len(keywords) \in Nat /\ DOMAIN keywords = 1 .. Len(keywords)
  /\ \A k \in DOMAIN symbols : symbols[k].text \in Seq(STRING) \ {<<>>}
  /\ DOMAIN entries = 1 .. Len(symbols) + Len(keywords) + 9
  /\ \A k \in DOMAIN symbols : entries[k] = symbols[k].tk
  /\ \A k \in DOMAIN keywords : entries[Len(symbols) + k] = keywords[k].tk
  /\ \A k \in 1 .. 9 : entries[Len(symbols) + Len(keywords) + k] = Unfixed[k]
<1> DEFINE E == Seq(STRING) \ {<<>>}
           F == {"TK_ID", "TK_STRING", "TK_INT", "TK_FLOAT", "TK_WHITESPACE", "TK_LINE_COMMENT",
                 "TK_NESTED_COMMENT", "TK_EOF", "TK_LEX_ERROR"}
           a == [k \in DOMAIN symbols |-> symbols[k].tk]
           b == [k \in DOMAIN keywords |-> keywords[k].tk]
<1>1. symbols \in Seq([text : E, tk : STRING]) /\ keywords \in Seq([text : E, tk : STRING])
  BY TablesAssumption
<1>2. Unfixed \in Seq(F) /\ Len(Unfixed) = 9
  BY DEF Unfixed
<1>4. entries = a \o b \o Unfixed
  BY DEF entries
<1> HIDE DEF E, F, a, b
<1>5. /\ DOMAIN symbols = 1 .. Len(symbols) /\ Len(symbols) \in Nat
      /\ DOMAIN keywords = 1 .. Len(keywords) /\ Len(keywords) \in Nat
      /\ \A k \in DOMAIN symbols : symbols[k].text \in E
  BY <1>1, RowTypes
<1>6. a \in Seq(STRING) /\ Len(a) = Len(symbols) /\ b \in Seq(STRING) /\ Len(b) = Len(keywords)
  BY <1>1, ColumnTypes DEF a, b
<1>7. a \in Seq(STRING \cup F) /\ b \in Seq(STRING \cup F) /\ Unfixed \in Seq(STRING \cup F)
  BY <1>2, <1>6, SeqMonotonic
<1>8. /\ DOMAIN entries = 1 .. Len(a) + Len(b) + Len(Unfixed)
      /\ \A k \in 1 .. Len(a) : entries[k] = a[k]
      /\ \A k \in 1 .. Len(b) : entries[Len(a) + k] = b[k]
      /\ \A k \in 1 .. Len(Unfixed) : entries[Len(a) + Len(b) + k] = Unfixed[k]
  BY <1>4, <1>7, Concatenated
<1>9. DOMAIN entries = 1 .. Len(symbols) + Len(keywords) + 9
  BY <1>8, <1>2, <1>6
<1>10. ASSUME NEW k \in DOMAIN symbols
       PROVE  entries[k] = symbols[k].tk
  <2>1. entries[k] = a[k]
    BY <1>8, <1>5, <1>6
  <2> QED  BY <2>1 DEF a
<1>11. ASSUME NEW k \in DOMAIN keywords
       PROVE  entries[Len(symbols) + k] = keywords[k].tk
  <2>1. entries[Len(symbols) + k] = b[k]
    BY <1>8, <1>5, <1>6
  <2> QED  BY <2>1 DEF b
<1>12. ASSUME NEW k \in 1 .. 9
       PROVE  entries[Len(symbols) + Len(keywords) + k] = Unfixed[k]
  <2>1. entries[Len(a) + Len(b) + k] = Unfixed[k]
    BY <1>8, <1>2
  <2> QED  BY <2>1, <1>6
<1> QED  BY <1>5, <1>9, <1>10, <1>11, <1>12 DEF E

\* Kinds whose text is not fixed.
UnfixedSet == {"TkId", "TkString", "TkInt", "TkFloat", "TkWhitespace", "TkLineComment",
               "TkNestedComment", "TkEof", "TkLexError"}

\* No two entries are made one kind, whichever tables they are of.
LEMMA KindsDiffer ==
  /\ \A s \in DOMAIN symbols : camel[symbols[s].tk] \in Kinds \ UnfixedSet
  /\ \A s \in DOMAIN keywords : camel[keywords[s].tk] \in Kinds \ UnfixedSet
  /\ \A s \in DOMAIN symbols, t \in DOMAIN keywords : camel[symbols[s].tk] # camel[keywords[t].tk]
<1> DEFINE base == Len(symbols) + Len(keywords)
<1>1. \A k, l \in DOMAIN entries : k # l => camel[entries[k]] # camel[entries[l]]
  BY TablesAssumption DEF Duplicate
<1>2. \A k \in DOMAIN entries : camel[entries[k]] \in Kinds
  BY TablesAssumption DEF Kinds
<1>3. ASSUME NEW e \in DOMAIN entries, e <= base
      PROVE  camel[entries[e]] \notin UnfixedSet
  <2>1. \A k \in 1 .. 9 : base + k \in DOMAIN entries /\ base + k # e
    BY <1>3, EntriesAre
  <2>2. \A k \in 1 .. 9 : camel[Unfixed[k]] = UnfixedKinds[k]
    <3>1. DOMAIN Unfixed = 1 .. 9
      BY DEF Unfixed
    <3> QED  BY <3>1, TablesAssumption
  <2>3. \A k \in 1 .. 9 : camel[entries[e]] # UnfixedKinds[k]
    <3>1. ASSUME NEW k \in 1 .. 9
          PROVE  camel[entries[e]] # UnfixedKinds[k]
      <4>1. base + k \in DOMAIN entries /\ base + k # e
        BY <2>1
      <4>2. entries[base + k] = Unfixed[k]
        BY EntriesAre
      <4> HIDE DEF base
      <4>3. camel[entries[base + k]] # camel[entries[e]]
        BY <4>1, <1>1
      <4> QED  BY <4>2, <4>3, <2>2
    <3> QED  BY <3>1
  <2>4. \A kind \in UnfixedSet : \E k \in 1 .. 9 : kind = UnfixedKinds[k]
    BY DEF UnfixedSet, UnfixedKinds
  <2> QED  BY <2>3, <2>4
<1>4. ASSUME NEW s \in DOMAIN symbols
      PROVE  entries[s] = symbols[s].tk /\ s \in DOMAIN entries /\ s <= base /\ s <= Len(symbols)
  BY EntriesAre
<1>5. ASSUME NEW s \in DOMAIN keywords
      PROVE  /\ entries[Len(symbols) + s] = keywords[s].tk /\ Len(symbols) + s \in DOMAIN entries
             /\ Len(symbols) + s <= base /\ Len(symbols) + s > Len(symbols)
  <2>1. /\ entries[Len(symbols) + s] = keywords[s].tk
        /\ Len(symbols) \in Nat /\ Len(keywords) \in Nat /\ s \in 1 .. Len(keywords)
    BY EntriesAre
  <2>2. DOMAIN entries = 1 .. Len(symbols) + Len(keywords) + 9
    BY EntriesAre
  <2> QED  BY <2>1, <2>2
<1>6. \A s \in DOMAIN symbols : camel[symbols[s].tk] \in Kinds \ UnfixedSet
  BY <1>2, <1>3, <1>4
<1>7. ASSUME NEW s \in DOMAIN keywords
      PROVE  camel[keywords[s].tk] \in Kinds \ UnfixedSet
  <2> DEFINE e == Len(symbols) + s
  <2>1. entries[e] = keywords[s].tk /\ e \in DOMAIN entries /\ e <= base
    BY <1>5
  <2> HIDE DEF e, base
  <2> QED  BY <2>1, <1>2, <1>3
<1>8. ASSUME NEW s \in DOMAIN symbols, NEW t \in DOMAIN keywords
      PROVE  camel[symbols[s].tk] # camel[keywords[t].tk]
  <2> DEFINE e == Len(symbols) + t
  <2>1. entries[e] = keywords[t].tk /\ e \in DOMAIN entries /\ e > Len(symbols)
    BY <1>5
  <2>2. entries[s] = symbols[s].tk /\ s \in DOMAIN entries /\ s <= Len(symbols)
    BY <1>4
  <2>3. e # s
    BY <2>1, <2>2, EntriesAre
  <2> HIDE DEF e
  <2> QED  BY <2>1, <2>2, <2>3, <1>1
<1> QED  BY <1>6, <1>7, <1>8

LEMMA TablesHaveNoEof ==
  /\ \A s \in DOMAIN symbols : camel[symbols[s].tk] \in Kind /\ Len(symbols[s].text) \in Nat \ {0}
  /\ \A s \in DOMAIN keywords : camel[keywords[s].tk] \in Kind
<1>1. \A word \in Seq(STRING) \ {<<>>} : Len(word) \in Nat \ {0}
  BY EmptySeq
<1>2. \A s \in DOMAIN symbols : Len(symbols[s].text) \in Nat \ {0}
  BY <1>1, EntriesAre
<1> QED  BY <1>2, KindsDiffer DEF Kind, UnfixedSet

LEMMA KeywordIsNoEof ==
  ASSUME NEW word, Keywords(word) # None
  PROVE  Keywords(word) \in Kind
<1> DEFINE hits == {s \in DOMAIN keywords : keywords[s].text = word}
<1>1. hits # {} /\ Keywords(word) = camel[keywords[Least(hits)].tk]
  BY DEF Keywords
<1>2. hits \in SUBSET Nat
  BY TablesAssumption, LenProperties
<1>3. Least(hits) \in hits
  BY <1>1, <1>2, LeastIsLeast
<1> QED  BY <1>1, <1>3, TablesHaveNoEof

-------------------------------------------------------------------------------
(* What each kind of token ends at                                         *)

Ends(token) == token[1] \in Kind /\ token[2] \in i + 1 .. n

LEMMA NIsNat ==
  ASSUME TypeOK
  PROVE  n \in Nat
BY DEF TypeOK, n

LEMMA IdentifierEnds ==
  ASSUME TypeOK, i < n, Byte(i) \in Letters
  PROVE  Ends(Identifier)
<1>1. i \in Nat /\ n \in Nat
  BY NIsNat DEF TypeOK
<1> DEFINE to == Past(i, Ident)
<1>2. to \in i .. n /\ i < to
  BY <1>1, PastEnds DEF Ident
<1>3. "TkId" \in Kind
  BY DEF Kind, Kinds
<1> HIDE DEF to
<1>4. Identifier = <<IF Keywords(Text(i, to)) = None THEN "TkId" ELSE Keywords(Text(i, to)), to>>
  BY DEF Identifier, to
<1> QED  BY <1>1, <1>2, <1>3, <1>4, KeywordIsNoEof DEF Ends

LEMMA HashEnds ==
  ASSUME TypeOK, i < n
  PROVE  Ends(Hash)
<1>1. i \in Nat /\ n \in Nat
  BY NIsNat DEF TypeOK
<1> DEFINE to == Past(i + 1, Ident)
<1>2. to \in i + 1 .. n
  BY <1>1, PastEnds
<1>3. "TkConstant" \in Kind
  BY DEF Kind, Kinds
<1> HIDE DEF to
<1>4. Hash = IF Keywords(Text(i, to)) = None THEN <<"TkConstant", i + 1>> ELSE <<Keywords(Text(i, to)), to>>
  BY DEF Hash, to
<1> QED  BY <1>1, <1>2, <1>3, <1>4, KeywordIsNoEof DEF Ends

\* A byte that is none of the end's is before the end.
LEMMA ByteIsBefore ==
  ASSUME NEW k, Byte(k) # "zero"
  PROVE  k < n
BY DEF Byte

LEMMA DecimalEnds ==
  ASSUME n \in Nat, NEW from \in Nat, from <= n
  PROVE  /\ Decimal(from) \in from .. n
         /\ from < n /\ Byte(from) \in Digits => from < Decimal(from)
BY PastEnds DEF Decimal

LEMMA NumberEnds ==
  ASSUME TypeOK, i < n, Byte(i) \in Digits
  PROVE  Ends(Number)
<1>1. i \in Nat /\ n \in Nat
  BY NIsNat DEF TypeOK
<1>2. \A k : Byte(k) \in Digits \cup {".", "x", "X", "b", "B"} => k < n
  BY ByteIsBefore DEF Digits
<1>3. "TkInt" \in Kind /\ "TkFloat" \in Kind
  BY DEF Kind, Kinds
<1> DEFINE whole == Decimal(i)
           fraction == Byte(whole) = "." /\ Byte(whole + 1) \in Digits
           mantissa == IF fraction THEN Decimal(whole + 1) ELSE whole
           power == IF Byte(mantissa + 1) \in {"+", "-"} THEN mantissa + 2 ELSE mantissa + 1
           exponent == Byte(mantissa) \in {"e", "E"} /\ Byte(power) \in Digits
           zero == Byte(i) = "0"
           hex == Past(i + 2, HexDigits \cup {"_"})
           bin == Past(i + 2, {"0", "1", "_"})
<1>4. whole \in i + 1 .. n
  BY <1>1, DecimalEnds
<1> HIDE DEF whole
<1>5. mantissa \in i + 1 .. n
  <2>1. CASE fraction
    <3>1. whole + 1 \in Nat /\ whole + 1 < n
      BY <2>1, <1>1, <1>2, <1>4
    <3>2. Decimal(whole + 1) \in whole + 1 .. n
      BY <3>1, <1>1, DecimalEnds
    <3> QED  BY <2>1, <3>1, <3>2, <1>1, <1>4
  <2> QED  BY <2>1, <1>4
<1> HIDE DEF mantissa
<1>6. ASSUME exponent
      PROVE  Decimal(power) \in i + 1 .. n
  <2>1. power \in Nat /\ power < n /\ power >= i + 1
    BY <1>6, <1>1, <1>2, <1>5
  <2>2. Decimal(power) \in power .. n
    BY <2>1, <1>1, DecimalEnds
  <2> QED  BY <2>1, <2>2, <1>1
<1>7. ASSUME Byte(i + 1) \in {"x", "X", "b", "B"}
      PROVE  hex \in i + 1 .. n /\ bin \in i + 1 .. n
  <2>1. i + 2 \in Nat /\ i + 2 <= n
    BY <1>1, <1>2, <1>7
  <2>2. hex \in i + 2 .. n /\ bin \in i + 2 .. n
    BY <2>1, <1>1, PastEnds
  <2> HIDE DEF hex, bin
  <2> QED  BY <2>1, <2>2, <1>1
<1> HIDE DEF power, hex, bin
<1>8. Number =
        CASE zero /\ Byte(i + 1) \in {"x", "X"} -> <<"TkInt", hex>>
          [] zero /\ Byte(i + 1) \in {"b", "B"} -> <<"TkInt", bin>>
          [] OTHER -> <<IF fraction \/ exponent THEN "TkFloat" ELSE "TkInt",
                        IF exponent THEN Decimal(power) ELSE mantissa>>
  BY DEF Number, whole, mantissa, power, hex, bin
<1> HIDE DEF fraction, exponent
<1>9. CASE zero /\ Byte(i + 1) \in {"x", "X"}
  BY <1>3, <1>7, <1>8, <1>9 DEF Ends
<1>10. CASE zero /\ Byte(i + 1) \in {"b", "B"}
  <2>1. Byte(i + 1) \notin {"x", "X"}
    BY <1>10
  <2>2. Number = <<"TkInt", bin>>
    BY <2>1, <1>8, <1>10
  <2> QED  BY <2>2, <1>3, <1>7, <1>10 DEF Ends
<1>11. CASE ~(zero /\ Byte(i + 1) \in {"x", "X"}) /\ ~(zero /\ Byte(i + 1) \in {"b", "B"})
  <2>1. Number = <<IF fraction \/ exponent THEN "TkFloat" ELSE "TkInt",
                   IF exponent THEN Decimal(power) ELSE mantissa>>
    BY <1>8, <1>11
  <2> QED  BY <2>1, <1>3, <1>5, <1>6 DEF Ends
<1> QED  BY <1>9, <1>10, <1>11

\* Of the symbols that are there the longest is one of those that are there.
LEMMA FirstIsThere ==
  ASSUME NEW S \in SUBSET DOMAIN symbols, S # {}, NEW bound \in Nat,
         \A s \in S : Len(symbols[s].text) <= bound
  PROVE  FirstIn(S) \in S
<1> DEFINE room(s) == bound - Len(symbols[s].text)
           R == {room(s) : s \in S}
<1>1. \A s \in S : Len(symbols[s].text) \in Nat
  BY TablesHaveNoEof
<1>2. R \in SUBSET Nat /\ R # {}
  BY <1>1
<1>3. PICK s \in S : \A l \in S : room(s) <= room(l)
  <2> HIDE DEF room
  <2>1. Least(R) \in R /\ \A y \in R : Least(R) <= y
    BY <1>2, LeastIsLeast
  <2> QED  BY <2>1
<1>4. s \in Longest(S)
  BY <1>1, <1>3 DEF Longest
<1>5. DOMAIN symbols \in SUBSET Nat
  BY TablesAssumption, LenProperties
<1>6. Longest(S) \in SUBSET Nat /\ Longest(S) \in SUBSET S
  BY <1>5 DEF Longest
<1> QED  BY <1>4, <1>6, LeastIsLeast DEF FirstIn

\* Where ponyc finds a symbol of its table, the scan finds the same one.
LEMMA FirstIsPonycs ==
  ASSUME NEW k \in Nat, n \in Nat, NEW here, here = {s \in scan : At(symbols[s].text, k)}
  PROVE  /\ here = {} => PonycsSymbol(k) = None
         /\ here # {} => FirstIn(here) \in here /\ PonycsSymbol(k) = symbols[FirstIn(here)]
         /\ (\E s \in DOMAIN symbols : At(symbols[s].text, k)) => here # {}
<1> DEFINE all == {s \in DOMAIN symbols : At(symbols[s].text, k)}
<1>1. all \in SUBSET DOMAIN symbols /\ all \in SUBSET Nat
  BY EntriesAre
<1>2. here \in SUBSET all
  BY DEF scan
<1>3. PonycsSymbol(k) = IF all = {} THEN None ELSE symbols[Least(all)]
  BY DEF PonycsSymbol
<1>4. ASSUME all # {}
      PROVE  Least(all) \in here /\ \A s \in here : Least(all) <= s
  <2>1. PICK m : m = Least(all)
    OBVIOUS
  <2>2. m \in all /\ \A s \in all : m <= s
    BY <1>1, <1>4, <2>1, LeastIsLeast
  <2>3. ASSUME NEW l \in 1 .. m - 1, symbols[l].text = symbols[m].text
        PROVE  FALSE
    <3>1. m \in Nat /\ m \in 1 .. Len(symbols) /\ Len(symbols) \in Nat
      BY <1>1, <2>2, EntriesAre
    <3>2. l \in DOMAIN symbols /\ l < m
      BY <3>1, EntriesAre
    <3>3. l \in all
      BY <2>2, <2>3, <3>2
    <3>4. m <= l
      BY <2>2, <3>3
    <3> QED  BY <3>1, <3>2, <3>4
  <2>4. m \in scan
    BY <2>2, <2>3 DEF scan
  <2>5. m \in here
    BY <2>2, <2>4
  <2> QED  BY <1>2, <2>1, <2>2, <2>5
<1>5. ASSUME all # {}, NEW s \in here, s # Least(all)
      PROVE  Len(symbols[s].text) < Len(symbols[Least(all)].text)
  <2>1. PICK m : m = Least(all)
    OBVIOUS
  <2>2. m \in here /\ m < s /\ m \in scan /\ s \in scan /\ m \in DOMAIN symbols /\ s \in DOMAIN symbols
    <3>1. m \in here /\ m <= s
      BY <1>4, <1>5, <2>1
    <3>2. m \in Nat /\ s \in Nat /\ m \in DOMAIN symbols /\ s \in DOMAIN symbols
      BY <1>1, <1>2, <3>1
    <3> QED  BY <3>1, <3>2, <1>5, <2>1
  <2>3. ~Begins(symbols[m].text, symbols[s].text)
    BY <2>2, PonycsTablesAssumption
  <2>4. Len(symbols[m].text) \in Nat /\ Len(symbols[s].text) \in Nat
    BY <2>2, TablesHaveNoEof
  <2>5. At(symbols[m].text, k) /\ At(symbols[s].text, k)
    BY <2>2
  <2>6. ASSUME Len(symbols[m].text) <= Len(symbols[s].text), NEW l \in 1 .. Len(symbols[m].text)
        PROVE  symbols[m].text[l] = symbols[s].text[l]
    <3>1. l \in 1 .. Len(symbols[s].text)
      BY <2>4, <2>6
    <3> QED  BY <2>5, <3>1 DEF At
  <2>7. ~(Len(symbols[m].text) <= Len(symbols[s].text))
    BY <2>3, <2>6 DEF Begins
  <2> QED  BY <2>1, <2>4, <2>7
<1>6. ASSUME all # {}
      PROVE  FirstIn(here) = Least(all)
  <2>1. PICK m : m = Least(all)
    OBVIOUS
  <2>2. m \in here /\ m \in Nat /\ \A s \in here : s # m => Len(symbols[s].text) < Len(symbols[m].text)
    BY <1>1, <1>2, <1>4, <1>5, <1>6, <2>1
  <2>3. \A s \in here : Len(symbols[s].text) \in Nat
    BY <1>1, <1>2, TablesHaveNoEof
  <2>4. Longest(here) = {m}
    <3> HIDE DEF all
    <3>1. ASSUME NEW s \in here
          PROVE  Len(symbols[s].text) <= Len(symbols[m].text)
      BY <2>2, <2>3
    <3>2. ASSUME NEW s \in here, s # m
          PROVE  ~(Len(symbols[m].text) <= Len(symbols[s].text))
      BY <2>2, <2>3, <3>2
    <3> QED  BY <2>2, <3>1, <3>2 DEF Longest
  <2>5. Least({m}) = m
    <3>1. {m} \in SUBSET Nat /\ {m} # {}
      BY <2>2
    <3> QED  BY <3>1, LeastIsLeast
  <2> QED  BY <2>1, <2>4, <2>5 DEF FirstIn
<1>9. (\E s \in DOMAIN symbols : At(symbols[s].text, k)) => all # {}
  OBVIOUS
<1> HIDE DEF all
<1>7. CASE all = {}
  BY <1>2, <1>3, <1>7, <1>9
<1>8. CASE all # {}
  BY <1>3, <1>4, <1>6, <1>8
<1> QED  BY <1>7, <1>8

LEMMA SymbolEnds ==
  ASSUME TypeOK, i < n
  PROVE  Ends(Symbol)
<1>1. i \in Nat /\ n \in Nat
  BY NIsNat DEF TypeOK
<1> DEFINE here == {s \in scan : At(symbols[s].text, i)}
<1>2. "TkLexError" \in Kind
  BY DEF Kind, Kinds
<1>3. here \in SUBSET DOMAIN symbols
  BY DEF scan
<1>5. \A k \in Kind : NewlineForm(k, after_newline) \in Kind
  BY DEF NewlineForm, Kind, Kinds
<1>6. ASSUME NEW s \in here
      PROVE  /\ i + Len(symbols[s].text) \in i + 1 .. n /\ Len(symbols[s].text) <= n
             /\ camel[symbols[s].tk] \in Kind
  <2>1. i + Len(symbols[s].text) <= n
    BY DEF At
  <2>2. Len(symbols[s].text) \in Nat \ {0} /\ camel[symbols[s].tk] \in Kind
    BY <1>3, TablesHaveNoEof
  <2> QED  BY <2>1, <2>2, <1>1
<1>4. ASSUME here # {}
      PROVE  FirstIn(here) \in here
  <2>1. \A s \in here : Len(symbols[s].text) <= n
    BY <1>6
  <2> HIDE DEF here
  <2> QED  BY <2>1, <1>1, <1>3, <1>4, FirstIsThere
<1>7. Symbol = IF here = {}
               THEN <<"TkLexError", i + 1>>
               ELSE <<NewlineForm(camel[symbols[FirstIn(here)].tk], after_newline),
                      i + Len(symbols[FirstIn(here)].text)>>
  BY DEF Symbol
<1> HIDE DEF here
<1> QED  BY <1>1, <1>2, <1>4, <1>5, <1>6, <1>7 DEF Ends

LEMMA QuotesAreNoEnd == "zero" \notin Space \cup Digits \cup {"quote", "'", "\\"}
BY DEF Space, Digits

-------------------------------------------------------------------------------
(* One lemma for what all steps that write a token do, one for those that  *)
(* only look further, and one for each action                              *)

LEMMA PushKeeps ==
  ASSUME Inv, mode # "done", NEW kind \in Kind, NEW to \in i + 1 .. n,
         Push(kind, to), after_newline' \in BOOLEAN
  PROVE  Inv' /\ Advance
<1> DEFINE last == [kind |-> kind, at |-> i, width |-> to - i]
<1>1. /\ i \in Nat /\ n \in Nat /\ to \in Nat /\ i < to /\ to <= n
      /\ tokens \in Seq(TokenRecord) /\ Len(tokens) \in Nat
  BY NIsNat, LenProperties DEF Inv, TypeOK, TokenRecord
<1>2. last \in TokenRecord /\ last.at = i /\ last.width = to - i /\ last.kind = kind /\ kind # "TkEof"
  BY <1>1 DEF TokenRecord, Kind
<1>3. /\ tokens' = Append(tokens, last) /\ i' = to /\ j' = to /\ mode' = "scan"
      /\ source' = source /\ depth' = depth
  BY DEF Push
<1> HIDE DEF last
<1>4. n' = n
  BY <1>3 DEF n
<1>5. /\ tokens' \in Seq(TokenRecord) /\ Len(tokens') = Len(tokens) + 1
      /\ DOMAIN tokens' = 1 .. Len(tokens) + 1 /\ DOMAIN tokens = 1 .. Len(tokens)
      /\ \A k \in 1 .. Len(tokens) : tokens'[k] = tokens[k]
      /\ tokens'[Len(tokens) + 1] = last
  BY <1>1, <1>2, <1>3, AppendProperties
<1>6. TypeOK'
  BY <1>1, <1>3, <1>5 DEF Inv, TypeOK, TokenRecord
<1>7. InToken'
  <2>1. ~ \E k \in DOMAIN tokens : tokens[k].kind = "TkEof"
    BY DEF Inv, InToken
  <2>2. ~ \E k \in DOMAIN tokens' : tokens'[k].kind = "TkEof"
    BY <2>1, <1>1, <1>2, <1>5
  <2> QED  BY <2>2, <1>3 DEF InToken, Quoted
<1>8. EveryByteIsInOneToken'
  <2>1. i' <= n'
    BY <1>1, <1>3, <1>4
  <2>2. ASSUME NEW k \in DOMAIN tokens'
        PROVE  /\ tokens'[k].at = IF k = 1 THEN 0 ELSE tokens'[k - 1].at + tokens'[k - 1].width
               /\ k = Len(tokens') => tokens'[k].at + tokens'[k].width = i'
               /\ tokens'[k].width = 0 <=> tokens'[k].kind = "TkEof"
               /\ tokens'[k].kind # "TkEof"
    <3>1. CASE k = Len(tokens) + 1
      <4>1. /\ tokens'[k].at = i /\ tokens'[k].width = to - i /\ tokens'[k].width # 0
            /\ tokens'[k].kind = kind
        BY <3>1, <1>1, <1>2, <1>5
      <4>2. CASE Len(tokens) = 0
        <5>1. tokens = <<>>
          BY <4>2, <1>1
        <5>2. i = 0
          BY <5>1 DEF Inv, EveryByteIsInOneToken
        <5> QED  BY <5>2, <4>1, <4>2, <3>1, <1>1, <1>2, <1>3, <1>5
      <4>3. CASE Len(tokens) # 0
        <5>1. k - 1 = Len(tokens) /\ k - 1 \in DOMAIN tokens /\ k # 1
          BY <4>3, <3>1, <1>1, <1>5
        <5>2. tokens[k - 1].at + tokens[k - 1].width = i
          BY <5>1 DEF Inv, EveryByteIsInOneToken
        <5>3. tokens'[k - 1] = tokens[k - 1]
          BY <5>1, <1>5
        <5> QED  BY <5>1, <5>2, <5>3, <4>1, <1>1, <1>2, <1>3, <1>5
      <4> QED  BY <4>2, <4>3
    <3>2. CASE k \in 1 .. Len(tokens)
      <4>1. tokens'[k] = tokens[k] /\ (k # 1 => tokens'[k - 1] = tokens[k - 1])
        BY <3>2, <1>1, <1>5
      <4>2. /\ tokens[k].at = IF k = 1 THEN 0 ELSE tokens[k - 1].at + tokens[k - 1].width
            /\ tokens[k].width = 0 <=> tokens[k].kind = "TkEof"
        BY <3>2, <1>5 DEF Inv, EveryByteIsInOneToken
      <4>3. tokens[k].kind # "TkEof"
        BY <3>2, <1>5 DEF Inv, InToken
      <4>4. k # Len(tokens')
        BY <3>2, <1>1, <1>5
      <4> QED  BY <4>1, <4>2, <4>3, <4>4
    <3> QED  BY <3>1, <3>2, <1>1, <1>5
  <2>3. tokens' # <<>> /\ mode' # "done"
    BY <1>1, <1>3, <1>5
  <2> QED  BY <2>1, <2>2, <2>3 DEF EveryByteIsInOneToken
<1> QED  BY <1>1, <1>3, <1>6, <1>7, <1>8 DEF Inv, Advance

LEMMA GoesKeeps ==
  ASSUME Inv, mode # "done", NEW to \in Nat, j < to, i < n, Goes(to),
         depth' \in Nat, mode' \in Quoted \cup {"comment", "triple"},
         to <= n \/ (mode' \in Quoted /\ to <= n + 1)
  PROVE  Inv' /\ Advance
<1>1. /\ i \in Nat /\ j \in Nat /\ n \in Nat
      /\ j' = to /\ source' = source /\ i' = i /\ after_newline' = after_newline /\ tokens' = tokens
  BY NIsNat DEF Inv, TypeOK, Goes
<1>2. n' = n
  BY <1>1 DEF n
<1>3. i <= j
  BY <1>1 DEF Inv, TypeOK, InToken
<1>4. mode' # "done" /\ mode' # "scan" /\ (mode' \in {"comment", "triple"} => mode' \notin Quoted)
  BY DEF Quoted
<1>5. TypeOK'
  BY <1>1 DEF Inv, TypeOK
<1>6. InToken'
  BY <1>1, <1>2, <1>3, <1>4 DEF Inv, InToken
<1>7. EveryByteIsInOneToken'
  BY <1>1, <1>2, <1>4 DEF Inv, EveryByteIsInOneToken
<1> QED  BY <1>1, <1>5, <1>6, <1>7 DEF Inv, Advance

\* What is there is before the end.
LEMMA PairIsThere ==
  ASSUME NEW first, NEW second, NEW k, At(<<first, second>>, k)
  PROVE  k + 2 <= n
BY DEF At

LEMMA ThreeAreThere ==
  ASSUME NEW k, At(Three, k)
  PROVE  k + 3 <= n
BY DEF At, Three

LEMMA ScanningFacts ==
  ASSUME Inv, Scanning
  PROVE  i \in Nat /\ n \in Nat /\ i < n /\ j = i /\ mode # "done" /\ after_newline \in BOOLEAN
BY NIsNat DEF Inv, TypeOK, InToken, Scanning

LEMMA LookingFacts ==
  ASSUME Inv, mode \in Quoted \cup {"comment", "triple"}
  PROVE  /\ i \in Nat /\ j \in Nat /\ n \in Nat /\ i < n /\ i < j
         /\ mode # "done" /\ after_newline \in BOOLEAN /\ depth \in Nat
BY NIsNat DEF Inv, TypeOK, InToken, Quoted

LEMMA WhitespaceKeeps ==
  ASSUME Inv, Whitespace
  PROVE  Inv' /\ Advance
<1>1. Scanning /\ Byte(i) \in Space /\ Push("TkWhitespace", Past(i, Space)) /\ after_newline' \in BOOLEAN
  BY DEF Whitespace, Inv, TypeOK
<1>2. i \in Nat /\ n \in Nat /\ i < n /\ mode # "done"
  BY <1>1, ScanningFacts
<1>3. Past(i, Space) \in i + 1 .. n
  <2>1. Past(i, Space) \in i .. n /\ i < Past(i, Space)
    BY <1>1, <1>2, PastEnds
  <2> QED  BY <2>1, <1>2
<1>4. "TkWhitespace" \in Kind
  BY DEF Kind, Kinds
<1> QED  BY <1>1, <1>2, <1>3, <1>4, PushKeeps

LEMMA LineCommentKeeps ==
  ASSUME Inv, LineComment
  PROVE  Inv' /\ Advance
<1>1. Scanning /\ At(<<"/", "/">>, i) /\ Push("TkLineComment", LineEnd(i + 2)) /\ after_newline' = after_newline
  BY DEF LineComment
<1>2. i \in Nat /\ n \in Nat /\ mode # "done" /\ after_newline \in BOOLEAN
  BY <1>1, ScanningFacts
<1>3. LineEnd(i + 2) \in i + 1 .. n
  <2>1. i + 2 \in Nat /\ i + 2 <= n
    BY <1>1, <1>2, PairIsThere
  <2>2. LineEnd(i + 2) \in i + 2 .. n
    BY <2>1, <1>2, LineEnds
  <2> QED  BY <2>2, <1>2
<1>4. "TkLineComment" \in Kind
  BY DEF Kind, Kinds
<1> QED  BY <1>1, <1>2, <1>3, <1>4, PushKeeps

LEMMA NestedCommentKeeps ==
  ASSUME Inv, NestedComment
  PROVE  Inv' /\ Advance
<1>1. Scanning /\ At(<<"/", "*">>, i) /\ mode' = "comment" /\ depth' = 1 /\ Goes(i + 2)
  BY DEF NestedComment
<1>2. i \in Nat /\ n \in Nat /\ i < n /\ j = i /\ mode # "done"
  BY <1>1, ScanningFacts
<1>3. i + 2 \in Nat /\ i + 2 <= n
  BY <1>1, <1>2, PairIsThere
<1> QED  BY <1>1, <1>2, <1>3, GoesKeeps

LEMMA InCommentKeeps ==
  ASSUME Inv, InComment
  PROVE  Inv' /\ Advance
<1>1. mode = "comment" /\ mode' = "comment" /\ j < n /\ depth > 0
  BY DEF InComment
<1>2. i \in Nat /\ j \in Nat /\ n \in Nat /\ i < n /\ mode # "done" /\ depth \in Nat
  BY <1>1, LookingFacts
<1>3. PICK to \in {j + 1, j + 2} : Goes(to) /\ to <= n /\ depth' \in Nat
  <2>1. CASE At(<<"*", "/">>, j) /\ depth' = depth - 1 /\ Goes(j + 2)
    BY <2>1, <1>1, <1>2, PairIsThere
  <2>2. CASE At(<<"/", "*">>, j) /\ depth' = depth + 1 /\ Goes(j + 2)
    BY <2>2, <1>1, <1>2, PairIsThere
  <2>3. CASE depth' = depth /\ Goes(j + 1)
    BY <2>3, <1>1, <1>2
  <2> QED  BY <2>1, <2>2, <2>3 DEF InComment
<1>4. to \in Nat /\ j < to
  BY <1>2
<1> QED  BY <1>1, <1>2, <1>3, <1>4, GoesKeeps

LEMMA CommentDoneKeeps ==
  ASSUME Inv, CommentDone
  PROVE  Inv' /\ Advance
<1>1. /\ mode = "comment" /\ after_newline' = FALSE
      /\ Push(IF depth = 0 THEN "TkNestedComment" ELSE "TkLexError", j)
  BY DEF CommentDone
<1>2. i \in Nat /\ j \in Nat /\ n \in Nat /\ i < j /\ mode # "done"
  BY <1>1, LookingFacts
<1>3. j <= n
  BY <1>1 DEF Inv, InToken
<1>4. (IF depth = 0 THEN "TkNestedComment" ELSE "TkLexError") \in Kind
  BY DEF Kind, Kinds
<1>5. j \in i + 1 .. n
  BY <1>2, <1>3
<1> QED  BY <1>1, <1>2, <1>4, <1>5, PushKeeps

LEMMA TokenKeeps ==
  ASSUME Inv, Token
  PROVE  Inv' /\ Advance
<1>1. Scanning /\ after_newline' = FALSE
  BY DEF Token
<1>2. i \in Nat /\ n \in Nat /\ i < n /\ mode # "done" /\ TypeOK
  BY <1>1, ScanningFacts DEF Inv
<1>3. PICK token : Ends(token) /\ Push(token[1], token[2])
  <2>1. CASE Byte(i) = "#" /\ Push(Hash[1], Hash[2])
    BY <2>1, <1>2, HashEnds
  <2>2. CASE Byte(i) \in Digits /\ Push(Number[1], Number[2])
    BY <2>2, <1>2, NumberEnds
  <2>3. CASE Byte(i) \in Letters /\ Push(Identifier[1], Identifier[2])
    BY <2>3, <1>2, IdentifierEnds
  <2>4. CASE Push(Symbol[1], Symbol[2])
    BY <2>4, <1>2, SymbolEnds
  <2> QED  BY <2>1, <2>2, <2>3, <2>4 DEF Token
<1>4. token[1] \in Kind /\ token[2] \in i + 1 .. n
  BY <1>3 DEF Ends
<1> QED  BY <1>1, <1>2, <1>3, <1>4, PushKeeps

LEMMA QuoteKeeps ==
  ASSUME Inv, Quote
  PROVE  Inv' /\ Advance
<1>1. Scanning /\ depth' = depth
  BY DEF Quote
<1>2. i \in Nat /\ n \in Nat /\ i < n /\ j = i /\ mode # "done" /\ depth \in Nat
  BY <1>1, ScanningFacts DEF Inv, TypeOK
<1>3. CASE At(Three, i) /\ mode' = "triple" /\ Goes(i + 3)
  <2>1. i + 3 \in Nat /\ i + 3 <= n /\ j < i + 3
    BY <1>2, <1>3, ThreeAreThere
  <2> QED  BY <2>1, <1>1, <1>2, <1>3, GoesKeeps
<1>4. CASE mode' \in Quoted /\ Goes(i + 1)
  <2>1. i + 1 \in Nat /\ i + 1 <= n + 1 /\ j < i + 1
    BY <1>2
  <2> QED  BY <2>1, <1>1, <1>2, <1>4, GoesKeeps
<1> QED  BY <1>3, <1>4 DEF Quote, Quoted

LEMMA InQuotedKeeps ==
  ASSUME Inv, InQuoted
  PROVE  Inv' /\ Advance
<1>1. /\ mode \in Quoted /\ mode' = mode /\ depth' = depth /\ j < n
      /\ Goes(IF Byte(j) = "\\" THEN j + 2 ELSE j + 1)
  BY DEF InQuoted
<1>2. j \in Nat /\ n \in Nat /\ i < n /\ mode # "done" /\ depth \in Nat
  BY <1>1, LookingFacts
<1> DEFINE to == IF Byte(j) = "\\" THEN j + 2 ELSE j + 1
<1>3. to \in Nat /\ j < to /\ to <= n + 1
  BY <1>1, <1>2
<1> QED  BY <1>1, <1>2, <1>3, GoesKeeps

LEMMA QuotedDoneKeeps ==
  ASSUME Inv, QuotedDone
  PROVE  Inv' /\ Advance
<1>1. /\ mode \in Quoted /\ j < n /\ after_newline' = FALSE
      /\ Push(IF mode = "string" THEN "TkString" ELSE "TkInt", j + 1)
  BY DEF QuotedDone
<1>2. i \in Nat /\ j \in Nat /\ n \in Nat /\ i < j /\ mode # "done"
  BY <1>1, LookingFacts
<1>3. (IF mode = "string" THEN "TkString" ELSE "TkInt") \in Kind
  BY DEF Kind, Kinds
<1>4. j + 1 \in i + 1 .. n
  BY <1>1, <1>2
<1> QED  BY <1>1, <1>2, <1>3, <1>4, PushKeeps

LEMMA InTripleKeeps ==
  ASSUME Inv, InTriple
  PROVE  Inv' /\ Advance
<1>1. mode = "triple" /\ mode' = mode /\ depth' = depth /\ j < n /\ Goes(j + 1)
  BY DEF InTriple
<1>2. j \in Nat /\ n \in Nat /\ i < n /\ mode # "done" /\ depth \in Nat
  BY <1>1, LookingFacts
<1>3. j + 1 \in Nat /\ j < j + 1 /\ j + 1 <= n
  BY <1>1, <1>2
<1> QED  BY <1>1, <1>2, <1>3, GoesKeeps

LEMMA TripleDoneKeeps ==
  ASSUME Inv, TripleDone
  PROVE  Inv' /\ Advance
<1>1. /\ mode = "triple" /\ At(Three, j) /\ after_newline' = FALSE
      /\ Push("TkString", Past(j + 3, {"quote"}))
  BY DEF TripleDone
<1>2. i \in Nat /\ j \in Nat /\ n \in Nat /\ i < j /\ mode # "done"
  BY <1>1, LookingFacts
<1>3. "TkString" \in Kind
  BY DEF Kind, Kinds
<1>4. Past(j + 3, {"quote"}) \in i + 1 .. n
  <2>1. j + 3 \in Nat /\ j + 3 <= n
    BY <1>1, <1>2, ThreeAreThere
  <2>2. Past(j + 3, {"quote"}) \in j + 3 .. n
    BY <2>1, <1>2, PastEnds
  <2> QED  BY <2>2, <1>2
<1> QED  BY <1>1, <1>2, <1>3, <1>4, PushKeeps

LEMMA UnterminatedKeeps ==
  ASSUME Inv, Unterminated
  PROVE  Inv' /\ Advance
<1>1. mode \in Quoted \cup {"triple"} /\ after_newline' = FALSE /\ Push("TkLexError", n)
  BY DEF Unterminated
<1>2. i \in Nat /\ n \in Nat /\ i < n /\ mode # "done"
  BY <1>1, LookingFacts
<1>3. "TkLexError" \in Kind /\ n \in i + 1 .. n
  BY <1>2 DEF Kind, Kinds
<1> QED  BY <1>1, <1>2, <1>3, PushKeeps

\* The one token that is empty, and the last.
LEMMA EndKeeps ==
  ASSUME Inv, End
  PROVE  Inv' /\ Advance
<1> DEFINE last == [kind |-> "TkEof", at |-> i, width |-> 0]
<1>1. /\ mode = "scan" /\ mode' = "done" /\ tokens' = Append(tokens, last)
      /\ source' = source /\ i' = i /\ j' = j /\ depth' = depth /\ after_newline' = after_newline
      /\ i >= n
  BY DEF End
<1>2. /\ i \in Nat /\ n \in Nat /\ j = i /\ i = n
      /\ tokens \in Seq(TokenRecord) /\ Len(tokens) \in Nat
  BY <1>1, NIsNat, LenProperties DEF Inv, TypeOK, InToken, EveryByteIsInOneToken, TokenRecord
<1>3. last \in TokenRecord /\ last.at = i /\ last.width = 0 /\ last.kind = "TkEof"
  BY <1>2 DEF TokenRecord, Kinds
<1> HIDE DEF last
<1>4. n' = n
  BY <1>1 DEF n
<1>5. /\ tokens' \in Seq(TokenRecord) /\ Len(tokens') = Len(tokens) + 1
      /\ DOMAIN tokens' = 1 .. Len(tokens) + 1 /\ DOMAIN tokens = 1 .. Len(tokens)
      /\ \A k \in 1 .. Len(tokens) : tokens'[k] = tokens[k]
      /\ tokens'[Len(tokens) + 1] = last
  BY <1>1, <1>2, <1>3, AppendProperties
<1>6. TypeOK'
  BY <1>1, <1>5 DEF Inv, TypeOK, TokenRecord
<1>7. InToken'
  BY <1>1, <1>2, <1>5 DEF InToken, Quoted
<1>8. EveryByteIsInOneToken'
  <2>1. i' <= n'
    BY <1>1, <1>2, <1>4
  <2>2. ASSUME NEW k \in DOMAIN tokens'
        PROVE  /\ tokens'[k].at = IF k = 1 THEN 0 ELSE tokens'[k - 1].at + tokens'[k - 1].width
               /\ k = Len(tokens') => tokens'[k].at + tokens'[k].width = i'
               /\ tokens'[k].width = 0 <=> tokens'[k].kind = "TkEof"
               /\ tokens'[k].kind = "TkEof" => k = Len(tokens') /\ i' = n'
    <3>1. CASE k = Len(tokens) + 1
      <4>1. /\ tokens'[k].at = i /\ tokens'[k].width = 0 /\ tokens'[k].kind = "TkEof"
            /\ k = Len(tokens') /\ i' = n' /\ i + 0 = i'
        BY <3>1, <1>1, <1>2, <1>3, <1>4, <1>5
      <4>2. CASE Len(tokens) = 0
        <5>1. tokens = <<>>
          BY <4>2, <1>2
        <5>2. i = 0
          BY <5>1 DEF Inv, EveryByteIsInOneToken
        <5> QED  BY <5>2, <4>1, <4>2, <3>1
      <4>3. CASE Len(tokens) # 0
        <5>1. k - 1 = Len(tokens) /\ k - 1 \in DOMAIN tokens /\ k # 1
          BY <4>3, <3>1, <1>2, <1>5
        <5>2. tokens[k - 1].at + tokens[k - 1].width = i
          BY <5>1 DEF Inv, EveryByteIsInOneToken
        <5>3. tokens'[k - 1] = tokens[k - 1]
          BY <5>1, <1>5
        <5> QED  BY <5>1, <5>2, <5>3, <4>1
      <4> QED  BY <4>2, <4>3
    <3>2. CASE k \in 1 .. Len(tokens)
      <4>1. tokens'[k] = tokens[k] /\ (k # 1 => tokens'[k - 1] = tokens[k - 1])
        BY <3>2, <1>2, <1>5
      <4>2. /\ tokens[k].at = IF k = 1 THEN 0 ELSE tokens[k - 1].at + tokens[k - 1].width
            /\ tokens[k].width = 0 <=> tokens[k].kind = "TkEof"
        BY <3>2, <1>5 DEF Inv, EveryByteIsInOneToken
      <4>3. tokens[k].kind # "TkEof"
        BY <3>2, <1>1, <1>5 DEF Inv, InToken
      <4>4. k # Len(tokens')
        BY <3>2, <1>2, <1>5
      <4> QED  BY <4>1, <4>2, <4>3, <4>4
    <3> QED  BY <3>1, <3>2, <1>2, <1>5
  <2>3. tokens' # <<>> /\ tokens'[Len(tokens')].kind = "TkEof"
    BY <1>2, <1>3, <1>5
  <2> QED  BY <2>1, <2>2, <2>3 DEF EveryByteIsInOneToken
<1> QED  BY <1>1, <1>6, <1>7, <1>8 DEF Inv, Advance

-------------------------------------------------------------------------------
(* What is proved of the scan                                              *)

LEMMA InitInv == Init => Inv
<1> SUFFICES ASSUME Init PROVE Inv
  OBVIOUS
<1>1. /\ source \in Seq(STRING) /\ i = 0 /\ j = 0 /\ depth = 0 /\ mode = "scan"
      /\ after_newline = TRUE /\ tokens = <<>>
  BY SourcesAssumption DEF Init
<1>2. n \in Nat
  BY <1>1 DEF n
<1>3. DOMAIN tokens = {} /\ tokens \in Seq([kind : Kinds, at : Nat, width : Nat])
  BY <1>1
<1> QED  BY <1>1, <1>2, <1>3 DEF Inv, TypeOK, InToken, EveryByteIsInOneToken, Quoted

LEMMA NextInv ==
  ASSUME Inv, [Next]_vars
  PROVE  Inv' /\ (vars' = vars \/ Advance)
<1>1. CASE Whitespace
  BY <1>1, WhitespaceKeeps
<1>2. CASE LineComment
  BY <1>2, LineCommentKeeps
<1>3. CASE NestedComment
  BY <1>3, NestedCommentKeeps
<1>4. CASE InComment
  BY <1>4, InCommentKeeps
<1>5. CASE CommentDone
  BY <1>5, CommentDoneKeeps
<1>6. CASE Token
  BY <1>6, TokenKeeps
<1>7. CASE Quote
  BY <1>7, QuoteKeeps
<1>8. CASE InQuoted
  BY <1>8, InQuotedKeeps
<1>9. CASE QuotedDone
  BY <1>9, QuotedDoneKeeps
<1>10. CASE InTriple
  BY <1>10, InTripleKeeps
<1>11. CASE TripleDone
  BY <1>11, TripleDoneKeeps
<1>12. CASE Unterminated
  BY <1>12, UnterminatedKeeps
<1>13. CASE End
  BY <1>13, EndKeeps
<1>14. CASE UNCHANGED vars
  <2>1. n' = n
    BY <1>14 DEF vars, n
  <2>2. Inv'
    BY <1>14, <2>1 DEF Inv, TypeOK, InToken, EveryByteIsInOneToken, vars
  <2> QED  BY <1>14, <2>2
<1> QED  BY <1>1, <1>2, <1>3, <1>4, <1>5, <1>6, <1>7, <1>8, <1>9, <1>10, <1>11, <1>12, <1>13, <1>14
         DEF Next

THEOREM Inductive == Spec => []Inv
<1>1. Inv /\ [Next]_vars => Inv'
  BY NextInv
<1> QED  BY InitInv, <1>1, PTL DEF Spec

\* Every variable is of its type, whatever is scanned.
THEOREM TypeCorrect == Spec => []TypeOK
<1>1. Inv => TypeOK
  BY DEF Inv
<1> QED  BY <1>1, Inductive, PTL

\* The tokens of any source follow one another without a gap or an overlap, to
\* its end, with any tables that the generator accepts.
THEOREM Covers == Spec => []EveryByteIsInOneToken
<1>1. Inv => EveryByteIsInOneToken
  BY DEF Inv
<1> QED  BY <1>1, Inductive, PTL

\* No step leaves the scan where it is: a malformed source cannot keep it from
\* going on.
THEOREM Advances == Spec => EveryStepAdvances
<1>1. Inv /\ [Next]_vars => [Advance]_vars
  BY NextInv
<1> QED  BY <1>1, Inductive, PTL DEF Spec, EveryStepAdvances

-------------------------------------------------------------------------------
(* The symbols ponyc finds, and the newline forms                          *)

\* What SymbolIsPonycs says of a token, and what NewlineFormIsRight says of one
\* that comes out now.
PonycsAt(kind, at, width) ==
  LET theirs == PonycsSymbol(at)
  IN /\ kind \in SymbolKinds =>
          theirs # None /\ Plain(kind) = camel[theirs.tk] /\ width = Len(theirs.text)
     /\ kind = "TkLexError" /\ theirs # None =>
          Byte(at) \in {"quote", "'"} \/ At(<<"/", "*">>, at)
FormFits(kind) == Plain(kind) \in HaveNewlineForms => (kind # Plain(kind) <=> after_newline)

Fits(token) == PonycsAt(token[1], i, token[2] - i) /\ FormFits(token[1])

\* White space, comments, literals and names are no symbols.
LEMMA UnfixedFits ==
  ASSUME NEW kind \in UnfixedSet, NEW to,
         kind = "TkLexError" => Byte(i) \in {"quote", "'"} \/ At(<<"/", "*">>, i)
  PROVE  PonycsAt(kind, i, to - i) /\ FormFits(kind)
<1>1. kind \notin SymbolKinds
  BY KindsDiffer DEF SymbolKinds
<1>2. Plain(kind) = kind /\ kind \notin HaveNewlineForms
  BY DEF Plain, HaveNewlineForms, UnfixedSet
<1> QED  BY <1>1, <1>2 DEF PonycsAt, FormFits

LEMMA KeywordFits ==
  ASSUME NEW word, Keywords(word) # None, NEW to
  PROVE  PonycsAt(Keywords(word), i, to - i) /\ FormFits(Keywords(word))
<1> DEFINE hits == {s \in DOMAIN keywords : keywords[s].text = word}
<1>1. hits # {} /\ Keywords(word) = camel[keywords[Least(hits)].tk]
  BY DEF Keywords
<1>2. hits \in SUBSET Nat
  BY EntriesAre
<1>3. Least(hits) \in hits
  BY <1>1, <1>2, LeastIsLeast
<1>4. PICK t \in DOMAIN keywords : Keywords(word) = camel[keywords[t].tk]
  BY <1>1, <1>3
<1> HIDE DEF hits
<1>5. Keywords(word) \notin SymbolKinds /\ Keywords(word) # "TkLexError"
  <2>1. \A s \in DOMAIN symbols : camel[symbols[s].tk] # camel[keywords[t].tk]
    BY KindsDiffer
  <2>2. camel[keywords[t].tk] \notin UnfixedSet
    BY KindsDiffer
  <2> QED  BY <2>1, <2>2, <1>4 DEF SymbolKinds, UnfixedSet
<1>6. Keywords(word) \notin NewlineForms \cup HaveNewlineForms
  BY <1>4, PonycsTablesAssumption
<1>7. Plain(Keywords(word)) = Keywords(word)
  BY <1>6 DEF Plain, NewlineForms, HaveNewlineForms, NewlineForm
<1> QED  BY <1>5, <1>6, <1>7 DEF PonycsAt, FormFits

\* A keyword is no comment or white space, nor is a symbol.
LEMMA KeywordIsUnlike ==
  ASSUME NEW word, Keywords(word) # None
  PROVE  Keywords(word) \notin UnfixedSet
<1> DEFINE hits == {s \in DOMAIN keywords : keywords[s].text = word}
<1>1. hits # {} /\ Keywords(word) = camel[keywords[Least(hits)].tk]
  BY DEF Keywords
<1>2. hits \in SUBSET Nat
  BY EntriesAre
<1>3. Least(hits) \in hits
  BY <1>1, <1>2, LeastIsLeast
<1> QED  BY <1>1, <1>3, KindsDiffer

LEMMA IdentifierFits == Fits(Identifier)
<1> DEFINE to == Past(i, Ident)
           keyword == Keywords(Text(i, to))
<1>1. Identifier = <<IF keyword = None THEN "TkId" ELSE keyword, to>>
  BY DEF Identifier
<1>2. CASE keyword = None
  <2>1. Identifier[1] = "TkId" /\ Identifier[2] = to
    BY <1>1, <1>2
  <2> QED  BY <2>1, UnfixedFits DEF Fits, UnfixedSet
<1>3. CASE keyword # None
  <2>1. Identifier[1] = keyword /\ Identifier[2] = to
    BY <1>1, <1>3
  <2> QED  BY <2>1, <1>3, KeywordFits DEF Fits
<1> QED  BY <1>2, <1>3

LEMMA NumberFits == Fits(Number)
<1>1. Number[1] \in {"TkInt", "TkFloat"}
  BY DEF Number
<1>2. Number[1] \in UnfixedSet /\ Number[1] # "TkLexError"
  BY <1>1 DEF UnfixedSet
<1> QED  BY <1>2, UnfixedFits DEF Fits

LEMMA HashFits ==
  ASSUME TypeOK, i < n, Byte(i) = "#"
  PROVE  Fits(Hash)
<1> DEFINE to == Past(i + 1, Ident)
           keyword == Keywords(Text(i, to))
           here == {s \in scan : At(symbols[s].text, i)}
<1>1. Hash = IF keyword = None THEN <<"TkConstant", i + 1>> ELSE <<keyword, to>>
  BY DEF Hash
<1>2. i \in Nat /\ n \in Nat
  BY NIsNat DEF TypeOK
<1>3. CASE keyword # None
  <2>1. Hash[1] = keyword /\ Hash[2] = to
    BY <1>1, <1>3
  <2> QED  BY <2>1, <1>3, KeywordFits DEF Fits
<1>4. ASSUME "TkConstant" \in SymbolKinds
      PROVE  PonycsSymbol(i) # None /\ "TkConstant" = camel[PonycsSymbol(i).tk] /\ Len(PonycsSymbol(i).text) = 1
  <2>1. PICK s \in DOMAIN symbols : symbols[s].text = <<"#">>
    BY <1>4, PonycsTablesAssumption DEF SymbolKinds
  <2>2. source[i + 1] = "#"
    BY DEF Byte
  <2>3. At(<<"#">>, i)
    BY <2>2, <1>2 DEF At
  <2>4. PICK f : f \in here /\ PonycsSymbol(i) = symbols[f]
    BY <2>1, <2>3, <1>2, FirstIsPonycs
  <2>5. f \in DOMAIN symbols /\ At(symbols[f].text, i)
    BY <2>4 DEF scan
  <2>6. Len(symbols[f].text) \in Nat \ {0}
    BY <2>5, TablesHaveNoEof
  <2>7. symbols[f].text[1] = "#"
    <3>1. 1 \in 1 .. Len(symbols[f].text)
      BY <2>6
    <3> QED  BY <3>1, <2>2, <2>5 DEF At
  <2>8. symbols[f].text = <<"#">> /\ camel[symbols[f].tk] = "TkConstant" /\ symbols[f] # None
    BY <2>5, <2>7, PonycsTablesAssumption, TablesAssumption
  <2> QED  BY <2>4, <2>8
<1>5. CASE keyword = None
  <2>1. Hash[1] = "TkConstant" /\ Hash[2] = i + 1
    BY <1>1, <1>5
  <2>2. Plain("TkConstant") = "TkConstant" /\ "TkConstant" \notin HaveNewlineForms
    BY DEF Plain, HaveNewlineForms
  <2>3. PonycsAt("TkConstant", i, (i + 1) - i)
    BY <1>2, <1>4, <2>2 DEF PonycsAt
  <2> QED  BY <2>1, <2>2, <2>3 DEF Fits, FormFits
<1> QED  BY <1>3, <1>5

LEMMA SymbolFits ==
  ASSUME TypeOK, i < n
  PROVE  Fits(Symbol) /\ Symbol[1] \notin {"TkWhitespace", "TkLineComment"}
<1> DEFINE here == {s \in scan : At(symbols[s].text, i)}
<1>1. i \in Nat /\ n \in Nat /\ after_newline \in BOOLEAN
  BY NIsNat DEF TypeOK
<1>2. Symbol = IF here = {}
               THEN <<"TkLexError", i + 1>>
               ELSE <<NewlineForm(camel[symbols[FirstIn(here)].tk], after_newline),
                      i + Len(symbols[FirstIn(here)].text)>>
  BY DEF Symbol
<1>3. CASE here = {}
  <2>1. Symbol[1] = "TkLexError" /\ Symbol[2] = i + 1
    BY <1>2, <1>3
  <2>2. PonycsSymbol(i) = None
    BY <1>1, <1>3, FirstIsPonycs
  <2>3. "TkLexError" \notin SymbolKinds /\ Plain("TkLexError") \notin HaveNewlineForms
    BY KindsDiffer DEF SymbolKinds, UnfixedSet, Plain, HaveNewlineForms
  <2> QED  BY <2>1, <2>2, <2>3 DEF Fits, PonycsAt, FormFits
<1>4. CASE here # {}
  <2>1. PICK f : f = FirstIn(here)
    OBVIOUS
  <2>2. f \in here /\ PonycsSymbol(i) = symbols[f]
    BY <1>1, <1>4, <2>1, FirstIsPonycs
  <2>3. f \in scan /\ f \in DOMAIN symbols
    BY <2>2 DEF scan
  <2>4. PICK c : c = camel[symbols[f].tk]
    OBVIOUS
  <2>5. PICK kind : kind = NewlineForm(c, after_newline)
    OBVIOUS
  <2>6. Symbol[1] = kind /\ Symbol[2] = i + Len(symbols[f].text)
    BY <1>2, <1>4, <2>1, <2>4, <2>5
  <2>7. c \notin NewlineForms /\ c \notin UnfixedSet /\ symbols[f] # None
    BY <2>3, <2>4, PonycsTablesAssumption, TablesAssumption, KindsDiffer
  <2>8. Len(symbols[f].text) \in Nat
    BY <2>3, TablesHaveNoEof
  <2>9. /\ Plain(kind) = c /\ kind # "TkLexError"
        /\ c \in HaveNewlineForms => (kind # c <=> after_newline)
    <3>1. c \notin {"TkLparenNew", "TkLsquareNew", "TkMinusNew", "TkMinusTildeNew"} /\ c # "TkLexError"
      BY <2>7 DEF NewlineForms, HaveNewlineForms, NewlineForm, UnfixedSet
    <3> QED  BY <1>1, <2>5, <3>1 DEF Plain, NewlineForm, HaveNewlineForms
  <2>12. kind \notin {"TkWhitespace", "TkLineComment"}
    BY <2>5, <2>7 DEF NewlineForm, UnfixedSet
  <2>10. (i + Len(symbols[f].text)) - i = Len(symbols[f].text)
    BY <1>1, <2>8
  <2>11. PonycsAt(kind, i, (i + Len(symbols[f].text)) - i)
    BY <2>2, <2>4, <2>7, <2>9, <2>10 DEF PonycsAt
  <2> QED  BY <2>6, <2>9, <2>11, <2>12 DEF Fits, FormFits
<1> QED  BY <1>3, <1>4

\* What a scan in the middle of a token has begun with.
Starts ==
  \A k \in Nat : k = i =>
    /\ mode \in Quoted \cup {"triple"} => Byte(k) \in {"quote", "'"}
    /\ mode = "comment" => At(<<"/", "*">>, k)

TokensArePonycs ==
  \A k \in DOMAIN tokens, token \in TokenRecord :
    tokens[k] = token => PonycsAt(token.kind, token.at, token.width)

\* after_newline is what the tokens so far say of the next one.
NewlineIsKnown == mode # "done" => \A k \in Nat : k = Len(tokens) + 1 => (after_newline <=> AfterNewline(k))

FormsAreRight ==
  \A k \in DOMAIN tokens, token \in TokenRecord :
    tokens[k] = token => (Plain(token.kind) \in HaveNewlineForms => (token.kind # Plain(token.kind) <=> AfterNewline(k)))

Knows == Starts /\ TokensArePonycs /\ NewlineIsKnown /\ FormsAreRight

LEMMA TokensHold ==
  ASSUME Inv
  PROVE  /\ tokens \in Seq(TokenRecord) /\ Len(tokens) \in Nat /\ DOMAIN tokens = 1 .. Len(tokens)
         /\ i \in Nat /\ n \in Nat
BY NIsNat, LenProperties DEF Inv, TypeOK, TokenRecord

\* What is at a place of the source stays.
LEMMA SourceStays ==
  ASSUME source' = source, NEW k, NEW kind, NEW width, NEW text
  PROVE  /\ Byte(k)' = Byte(k) /\ (At(text, k)' <=> At(text, k))
         /\ PonycsAt(kind, k, width)' <=> PonycsAt(kind, k, width)
BY DEF PonycsAt, PonycsSymbol, At, Byte, n

\* A token that is added says nothing about those before it.
LEMMA BeforeStays ==
  ASSUME Inv, source' = source, NEW token \in TokenRecord, tokens' = Append(tokens, token),
         NEW k \in 1 .. Len(tokens) + 1
  PROVE  Since(k)' = Since(k) /\ (AfterNewline(k)' <=> AfterNewline(k))
<1>1. Len(tokens) \in Nat /\ \A l \in 1 .. Len(tokens) : tokens'[l] = tokens[l]
  BY TokensHold, AppendProperties
<1>2. \A m \in 1 .. k - 1 : Passed(m)' <=> Passed(m)
  BY <1>1 DEF Passed
<1>3. Since(k)' = Since(k)
  BY <1>2 DEF Since
<1>4. ASSUME NEW l \in 1 .. k - 1
      PROVE  HasNewline(l)' <=> HasNewline(l)
  <2>1. tokens'[l] = tokens[l]
    BY <1>1
  <2>2. \A p : Byte(p)' = Byte(p)
    BY SourceStays
  <2> QED  BY <2>1, <2>2 DEF HasNewline
<1>5. Since(k) \in SUBSET (1 .. k - 1)
  BY DEF Since
<1> QED  BY <1>3, <1>4, <1>5 DEF AfterNewline

\* What a token that is added makes of the next one.
LEMMA AfterIs ==
  ASSUME Inv, source' = source, NEW kind, NEW at, NEW width, [kind |-> kind, at |-> at, width |-> width] \in TokenRecord,
         tokens' = Append(tokens, [kind |-> kind, at |-> at, width |-> width])
  PROVE  \A k \in Nat : k = Len(tokens) + 2 =>
           /\ kind \notin {"TkWhitespace", "TkLineComment"} => ~AfterNewline(k)'
           /\ kind = "TkLineComment" => (AfterNewline(k)' <=> AfterNewline(k - 1))
           /\ kind = "TkWhitespace" =>
                (AfterNewline(k)' <=> AfterNewline(k - 1) \/ \E p \in at .. at + width - 1 : Byte(p) = "newline")
<1> DEFINE last == [kind |-> kind, at |-> at, width |-> width]
<1>1. /\ Len(tokens) \in Nat /\ tokens'[Len(tokens) + 1] = last
      /\ \A l \in 1 .. Len(tokens) : tokens'[l] = tokens[l]
  BY TokensHold, AppendProperties
<1>2. PICK e : e = Len(tokens) + 1
  OBVIOUS
<1>3. e \in Nat \ {0} /\ e = Len(tokens) + 1
  BY <1>1, <1>2
<1>4. Passed(e)' <=> kind \in {"TkWhitespace", "TkLineComment"}
  BY <1>1, <1>2 DEF Passed
<1>5. Since(e)' = Since(e) /\ (AfterNewline(e)' <=> AfterNewline(e))
  BY <1>1, <1>3, BeforeStays
<1>6. CASE ~Passed(e)'
  <2>1. \A l \in 1 .. (e + 1) - 1 : e \in l .. (e + 1) - 1
    BY <1>3
  <2>2. Since(e + 1)' = {}
    BY <2>1, <1>6 DEF Since
  <2>3. 1 .. (e + 1) - 1 # {}
    BY <1>3
  <2>4. ~AfterNewline(e + 1)'
    BY <2>2, <2>3 DEF AfterNewline
  <2> QED  BY <2>4, <1>3, <1>4, <1>6
<1>7. CASE Passed(e)'
  <2>1. Since(e + 1)' = Since(e)' \cup {e}
    <3>1. ASSUME NEW l
          PROVE  l \in Since(e + 1)' <=> l \in Since(e)' \/ l = e
      <4>1. CASE l \in 1 .. e - 1
        <5>1. l .. (e + 1) - 1 = (l .. e - 1) \cup {e} /\ l \in 1 .. (e + 1) - 1
          BY <1>3, <4>1
        <5> QED  BY <5>1, <4>1, <1>7 DEF Since
      <4>2. CASE l = e
        <5>1. l .. (e + 1) - 1 = {e} /\ l \in 1 .. (e + 1) - 1
          BY <1>3, <4>2
        <5> QED  BY <5>1, <4>2, <1>7 DEF Since
      <4>3. CASE l \notin 1 .. e - 1 /\ l # e
        <5>1. l \notin 1 .. (e + 1) - 1
          BY <1>3, <4>3
        <5> QED  BY <5>1, <4>3 DEF Since
      <4> QED  BY <4>1, <4>2, <4>3
    <3> QED  BY <3>1
  <2>2. Since(e) \in SUBSET (1 .. e - 1)
    BY DEF Since
  <2>3. Since(e + 1)' = 1 .. (e + 1) - 1 <=> Since(e)' = 1 .. e - 1
    <3>1. 1 .. (e + 1) - 1 = (1 .. e - 1) \cup {e} /\ e \notin 1 .. e - 1
      BY <1>3
    <3> QED  BY <2>1, <2>2, <3>1, <1>5
  <2>4. AfterNewline(e + 1)' <=> AfterNewline(e)' \/ HasNewline(e)'
    BY <2>1, <2>3 DEF AfterNewline
  <2>5. HasNewline(e)' <=> kind = "TkWhitespace" /\ \E p \in at .. at + width - 1 : Byte(p) = "newline"
    <3>1. \A p : Byte(p)' = Byte(p)
      BY SourceStays
    <3> QED  BY <3>1, <1>1, <1>2 DEF HasNewline
  <2>6. \A k \in Nat : k = Len(tokens) + 2 => k = e + 1 /\ k - 1 = e
    BY <1>3
  <2> QED  BY <2>4, <2>5, <2>6, <1>4, <1>5, <1>7
<1> QED  BY <1>6, <1>7

-------------------------------------------------------------------------------
(* Each step keeps what is known                                           *)

\* What after_newline becomes with a token.
NewlineFits(kind, to) ==
  CASE kind = "TkWhitespace" ->
         after_newline' <=> after_newline \/ \E k \in i .. to - 1 : Byte(k) = "newline"
    [] kind = "TkLineComment" -> after_newline' <=> after_newline
    [] OTHER -> ~after_newline'

LEMMA PushKnows ==
  ASSUME Inv, Knows, Inv', mode # "done", NEW kind \in Kind, NEW to \in i + 1 .. n, Push(kind, to),
         PonycsAt(kind, i, to - i), FormFits(kind), NewlineFits(kind, to)
  PROVE  Knows'
<1>1. PICK at, width : at = i /\ width = to - i
  OBVIOUS
<1>2. /\ source' = source /\ mode' = "scan" /\ i' = to
      /\ tokens' = Append(tokens, [kind |-> kind, at |-> at, width |-> width])
      /\ PonycsAt(kind, at, width)
  BY <1>1 DEF Push
<1>3. at \in Nat /\ width \in Nat /\ [kind |-> kind, at |-> at, width |-> width] \in TokenRecord /\ n \in Nat
  <2>1. i \in Nat /\ n \in Nat
    BY TokensHold
  <2> QED  BY <1>1, <2>1 DEF TokenRecord, Kind
<1>4. PICK last \in TokenRecord : last = [kind |-> kind, at |-> at, width |-> width]
  BY <1>3
<1>5. last.kind = kind /\ last.at = at /\ last.width = width /\ tokens' = Append(tokens, last)
  BY <1>2, <1>4
<1>6. /\ Len(tokens) \in Nat /\ DOMAIN tokens = 1 .. Len(tokens) /\ tokens \in Seq(TokenRecord)
      /\ Len(tokens') = Len(tokens) + 1 /\ DOMAIN tokens' = 1 .. Len(tokens) + 1
      /\ \A k \in 1 .. Len(tokens) : tokens'[k] = tokens[k]
      /\ tokens'[Len(tokens) + 1] = last
  BY <1>5, TokensHold, AppendProperties
<1>7. Starts'
  BY <1>2 DEF Starts, Quoted
<1>8. TokensArePonycs'
  <2> SUFFICES ASSUME NEW k \in DOMAIN tokens', NEW token \in TokenRecord, tokens'[k] = token
               PROVE  PonycsAt(token.kind, token.at, token.width)'
    BY DEF TokensArePonycs
  <2>1. PICK a, b, c : a = token.kind /\ b = token.at /\ c = token.width
    OBVIOUS
  <2>2. PonycsAt(a, b, c)
    <3>1. CASE k \in 1 .. Len(tokens)
      BY <1>6, <2>1, <3>1 DEF Knows, TokensArePonycs
    <3>2. CASE k = Len(tokens) + 1
      BY <1>2, <1>5, <1>6, <2>1, <3>2
    <3> QED  BY <1>6, <3>1, <3>2
  <2>3. PonycsAt(a, b, c)'
    BY <1>2, <2>2, SourceStays
  <2> QED  BY <2>1, <2>3
<1>9. after_newline <=> AfterNewline(Len(tokens) + 1)
  BY <1>6 DEF Knows, NewlineIsKnown
<1>10. PICK e \in Nat \ {0} : e = Len(tokens) + 1
  BY <1>6
<1>11. AfterNewline(e)' <=> AfterNewline(e)
  BY <1>2, <1>5, <1>6, <1>10, BeforeStays
<1>12. NewlineIsKnown'
  <2>1. /\ kind \notin {"TkWhitespace", "TkLineComment"} => ~AfterNewline(e + 1)'
        /\ kind = "TkLineComment" => (AfterNewline(e + 1)' <=> AfterNewline(e))
        /\ kind = "TkWhitespace" =>
             (AfterNewline(e + 1)' <=> AfterNewline(e) \/ \E p \in at .. at + width - 1 : Byte(p) = "newline")
    <3>1. e + 1 \in Nat /\ e + 1 = Len(tokens) + 2 /\ (e + 1) - 1 = e
      BY <1>6, <1>10
    <3> QED  BY <1>2, <1>3, <3>1, AfterIs
  <2>2. at .. at + width - 1 = i .. to - 1
    <3>1. i \in Nat /\ n \in Nat
      BY TokensHold
    <3> QED  BY <1>1, <3>1
  <2>3. after_newline' <=> AfterNewline(e + 1)'
    BY <1>1, <1>9, <1>10, <2>1, <2>2 DEF NewlineFits
  <2>4. Len(tokens') + 1 = e + 1
    BY <1>6, <1>10
  <2> QED  BY <2>3, <2>4 DEF NewlineIsKnown
<1>13. FormsAreRight'
  <2> SUFFICES ASSUME NEW k \in DOMAIN tokens', NEW token \in TokenRecord, tokens'[k] = token,
                      Plain(token.kind) \in HaveNewlineForms
               PROVE  token.kind # Plain(token.kind) <=> AfterNewline(k)'
    BY DEF FormsAreRight
  <2>1. AfterNewline(k)' <=> AfterNewline(k)
    BY <1>2, <1>5, <1>6, BeforeStays
  <2>2. CASE k \in 1 .. Len(tokens)
    BY <1>6, <2>1, <2>2 DEF Knows, FormsAreRight
  <2>3. CASE k = Len(tokens) + 1
    <3>1. token.kind = kind
      BY <1>5, <1>6, <2>3
    <3> QED  BY <1>9, <2>1, <2>3, <3>1 DEF FormFits
  <2> QED  BY <1>6, <2>2, <2>3
<1> QED  BY <1>7, <1>8, <1>12, <1>13 DEF Knows

\* A step that lays down no token.
LEMMA GoesKnows ==
  ASSUME Inv, Knows, Starts', source' = source, tokens' = tokens, after_newline' = after_newline,
         mode' # "done" => mode # "done"
  PROVE  Knows'
<1>1. TokensArePonycs'
  <2> SUFFICES ASSUME NEW k \in DOMAIN tokens, NEW token \in TokenRecord, tokens[k] = token
               PROVE  PonycsAt(token.kind, token.at, token.width)'
    BY DEF TokensArePonycs
  <2>1. PICK a, b, c : a = token.kind /\ b = token.at /\ c = token.width
    OBVIOUS
  <2>2. PonycsAt(a, b, c)
    BY <2>1 DEF Knows, TokensArePonycs
  <2>3. PonycsAt(a, b, c)'
    BY <2>2, SourceStays
  <2> QED  BY <2>1, <2>3
<1>2. \A k : AfterNewline(k)' <=> AfterNewline(k)
  BY SourceStays DEF AfterNewline, Since, Passed, HasNewline
<1>3. NewlineIsKnown' /\ FormsAreRight'
  BY <1>2 DEF Knows, NewlineIsKnown, FormsAreRight
<1> QED  BY <1>1, <1>3 DEF Knows

LEMMA WhitespaceKnows ==
  ASSUME Inv, Knows, Whitespace
  PROVE  Knows'
<1>1. PICK to : /\ to = Past(i, Space) /\ Push("TkWhitespace", to) /\ Scanning /\ Byte(i) \in Space
                /\ after_newline' = (after_newline \/ \E k \in i .. to - 1 : Byte(k) = "newline")
  BY DEF Whitespace
<1>2. i \in Nat /\ n \in Nat /\ i < n /\ mode # "done" /\ Inv'
  BY <1>1, ScanningFacts, WhitespaceKeeps
<1>3. to \in i + 1 .. n
  <2>1. Past(i, Space) \in i .. n /\ i < Past(i, Space)
    BY <1>1, <1>2, PastEnds
  <2> QED  BY <2>1, <1>1, <1>2
<1>4. "TkWhitespace" \in Kind /\ "TkWhitespace" \in UnfixedSet
  BY DEF Kind, Kinds, UnfixedSet
<1>5. NewlineFits("TkWhitespace", to)
  BY <1>1 DEF NewlineFits
<1> QED  BY <1>1, <1>2, <1>3, <1>4, <1>5, UnfixedFits, PushKnows

LEMMA LineCommentKnows ==
  ASSUME Inv, Knows, LineComment
  PROVE  Knows'
<1>1. PICK to : to = LineEnd(i + 2) /\ Push("TkLineComment", to) /\ Scanning /\ after_newline' = after_newline
                /\ At(<<"/", "/">>, i)
  BY DEF LineComment
<1>2. i \in Nat /\ n \in Nat /\ i < n /\ mode # "done" /\ Inv'
  BY <1>1, ScanningFacts, LineCommentKeeps
<1>3. to \in i + 1 .. n
  <2>1. i + 2 \in Nat /\ i + 2 <= n
    BY <1>1, <1>2, PairIsThere
  <2>2. LineEnd(i + 2) \in i + 2 .. n
    BY <2>1, <1>2, LineEnds
  <2> QED  BY <2>2, <1>1, <1>2
<1>4. "TkLineComment" \in Kind /\ "TkLineComment" \in UnfixedSet
  BY DEF Kind, Kinds, UnfixedSet
<1>5. NewlineFits("TkLineComment", to)
  BY <1>1 DEF NewlineFits
<1> QED  BY <1>1, <1>2, <1>3, <1>4, <1>5, UnfixedFits, PushKnows

\* What ends in the middle of a token, with a kind whose text is not fixed.
LEMMA DoneKnows ==
  ASSUME Inv, Knows, Inv', mode \in Quoted \cup {"comment", "triple"},
         NEW kind \in UnfixedSet \ {"TkEof", "TkWhitespace", "TkLineComment"}, NEW to \in i + 1 .. n,
         Push(kind, to), ~after_newline'
  PROVE  Knows'
<1>1. i \in Nat /\ mode # "done"
  BY LookingFacts
<1>2. Byte(i) \in {"quote", "'"} \/ At(<<"/", "*">>, i)
  BY <1>1 DEF Knows, Starts
<1>3. kind \in Kind
  BY DEF Kind, Kinds, UnfixedSet
<1>4. NewlineFits(kind, to)
  BY DEF NewlineFits
<1> QED  BY <1>1, <1>2, <1>3, <1>4, UnfixedFits, PushKnows

LEMMA CommentDoneKnows ==
  ASSUME Inv, Knows, CommentDone
  PROVE  Knows'
<1>1. PICK kind : /\ kind = (IF depth = 0 THEN "TkNestedComment" ELSE "TkLexError") /\ Push(kind, j)
                  /\ mode = "comment" /\ after_newline' = FALSE
  BY DEF CommentDone
<1>2. kind \in UnfixedSet \ {"TkEof", "TkWhitespace", "TkLineComment"} /\ Inv'
  BY <1>1, CommentDoneKeeps DEF UnfixedSet
<1>3. i \in Nat /\ j \in Nat /\ n \in Nat /\ i < j
  BY <1>1, LookingFacts
<1>4. j <= n
  BY <1>1 DEF Inv, InToken
<1>5. j \in i + 1 .. n
  BY <1>3, <1>4
<1> QED  BY <1>1, <1>2, <1>5, DoneKnows

LEMMA QuotedDoneKnows ==
  ASSUME Inv, Knows, QuotedDone
  PROVE  Knows'
<1>1. PICK kind : /\ kind = (IF mode = "string" THEN "TkString" ELSE "TkInt") /\ Push(kind, j + 1)
                  /\ mode \in Quoted /\ j < n /\ after_newline' = FALSE
  BY DEF QuotedDone
<1>2. kind \in UnfixedSet \ {"TkEof", "TkWhitespace", "TkLineComment"} /\ Inv'
  BY <1>1, QuotedDoneKeeps DEF UnfixedSet
<1>3. i \in Nat /\ j \in Nat /\ n \in Nat /\ i < j
  BY <1>1, LookingFacts
<1>4. j + 1 \in i + 1 .. n
  BY <1>1, <1>3
<1> QED  BY <1>1, <1>2, <1>4, DoneKnows

LEMMA TripleDoneKnows ==
  ASSUME Inv, Knows, TripleDone
  PROVE  Knows'
<1>1. PICK to : /\ to = Past(j + 3, {"quote"}) /\ Push("TkString", to)
                /\ mode = "triple" /\ At(Three, j) /\ after_newline' = FALSE
  BY DEF TripleDone
<1>2. "TkString" \in UnfixedSet \ {"TkEof", "TkWhitespace", "TkLineComment"} /\ Inv'
  BY TripleDoneKeeps DEF UnfixedSet
<1>3. i \in Nat /\ j \in Nat /\ n \in Nat /\ i < j
  BY <1>1, LookingFacts
<1>4. to \in i + 1 .. n
  <2>1. j + 3 \in Nat /\ j + 3 <= n
    BY <1>1, <1>3, ThreeAreThere
  <2>2. Past(j + 3, {"quote"}) \in j + 3 .. n
    BY <2>1, <1>3, PastEnds
  <2> QED  BY <2>2, <1>1, <1>3
<1> QED  BY <1>1, <1>2, <1>4, DoneKnows

LEMMA UnterminatedKnows ==
  ASSUME Inv, Knows, Unterminated
  PROVE  Knows'
<1>1. mode \in Quoted \cup {"triple"} /\ after_newline' = FALSE /\ Push("TkLexError", n)
  BY DEF Unterminated
<1>2. "TkLexError" \in UnfixedSet \ {"TkEof", "TkWhitespace", "TkLineComment"} /\ Inv'
  BY UnterminatedKeeps DEF UnfixedSet
<1>3. i \in Nat /\ n \in Nat /\ i < n
  BY <1>1, LookingFacts
<1>4. n \in i + 1 .. n
  BY <1>3
<1> QED  BY <1>1, <1>2, <1>4, DoneKnows

\* A token with text of its own: none of it is white space or a comment.
LEMMA TokenKnows ==
  ASSUME Inv, Knows, Token
  PROVE  Knows'
<1>1. Scanning /\ after_newline' = FALSE
  BY DEF Token
<1>2. i \in Nat /\ n \in Nat /\ i < n /\ mode # "done" /\ TypeOK /\ Inv'
  BY <1>1, ScanningFacts, TokenKeeps DEF Inv
<1>3. PICK token : Ends(token) /\ Fits(token) /\ Push(token[1], token[2])
                   /\ token[1] \notin {"TkWhitespace", "TkLineComment"}
  <2>1. CASE Byte(i) = "#" /\ Push(Hash[1], Hash[2])
    <3>1. Hash[1] \notin {"TkWhitespace", "TkLineComment"}
      BY KeywordIsUnlike DEF Hash, UnfixedSet
    <3> QED  BY <2>1, <3>1, <1>2, HashEnds, HashFits
  <2>2. CASE Byte(i) \in Digits /\ Push(Number[1], Number[2])
    <3>1. Number[1] \notin {"TkWhitespace", "TkLineComment"}
      BY DEF Number
    <3> QED  BY <2>2, <3>1, <1>2, NumberEnds, NumberFits
  <2>3. CASE Byte(i) \in Letters /\ Push(Identifier[1], Identifier[2])
    <3>1. Identifier[1] \notin {"TkWhitespace", "TkLineComment"}
      BY KeywordIsUnlike DEF Identifier, UnfixedSet
    <3> QED  BY <2>3, <3>1, <1>2, IdentifierEnds, IdentifierFits
  <2>4. CASE Push(Symbol[1], Symbol[2])
    BY <2>4, <1>2, SymbolEnds, SymbolFits
  <2> QED  BY <2>1, <2>2, <2>3, <2>4 DEF Token
<1>4. token[1] \in Kind /\ token[2] \in i + 1 .. n
  BY <1>3 DEF Ends
<1>5. PICK kind, to : kind = token[1] /\ to = token[2]
  OBVIOUS
<1>6. NewlineFits(kind, to)
  BY <1>1, <1>3, <1>5 DEF NewlineFits
<1>7. PonycsAt(kind, i, to - i) /\ FormFits(kind)
  BY <1>3, <1>5 DEF Fits
<1> QED  BY <1>1, <1>2, <1>3, <1>4, <1>5, <1>6, <1>7, PushKnows

\* The steps that go on in a token.
LEMMA WithinKnows ==
  ASSUME Inv, Knows, NestedComment \/ InComment \/ Quote \/ InQuoted \/ InTriple
  PROVE  Knows'
<1>1. /\ source' = source /\ i' = i /\ tokens' = tokens /\ after_newline' = after_newline /\ mode # "done"
      /\ \/ mode' = mode
         \/ mode' = "comment" /\ At(<<"/", "*">>, i)
         \/ mode' \in Quoted \cup {"triple"} /\ Byte(i) \in {"quote", "'"}
  <2>1. CASE NestedComment
    BY <2>1 DEF NestedComment, Goes, Scanning
  <2>2. CASE InComment
    BY <2>2 DEF InComment, Goes
  <2>3. CASE Quote
    BY <2>3 DEF Quote, Goes, Scanning, Quoted
  <2>4. CASE InQuoted
    BY <2>4 DEF InQuoted, Goes, Quoted
  <2>5. CASE InTriple
    BY <2>5 DEF InTriple, Goes
  <2> QED  BY <2>1, <2>2, <2>3, <2>4, <2>5
<1>2. i \in Nat
  BY TokensHold
<1>3. Starts'
  <2> SUFFICES ASSUME NEW k \in Nat, k = i'
               PROVE  /\ mode' \in Quoted \cup {"triple"} => Byte(k)' \in {"quote", "'"}
                      /\ mode' = "comment" => At(<<"/", "*">>, k)'
    BY DEF Starts
  <2>1. Byte(k)' = Byte(k) /\ (At(<<"/", "*">>, k)' <=> At(<<"/", "*">>, k))
    BY <1>1, SourceStays
  <2>2. /\ mode \in Quoted \cup {"triple"} => Byte(k) \in {"quote", "'"}
        /\ mode = "comment" => At(<<"/", "*">>, k)
    BY <1>1 DEF Knows, Starts
  <2>3. "comment" \notin Quoted \cup {"triple"}
    BY DEF Quoted
  <2> QED  BY <1>1, <2>1, <2>2, <2>3
<1> QED  BY <1>1, <1>3, GoesKnows

LEMMA EndKnows ==
  ASSUME Inv, Knows, End
  PROVE  Knows'
<1>1. PICK at : at = i
  OBVIOUS
<1>2. /\ source' = source /\ mode' = "done" /\ mode = "scan"
      /\ tokens' = Append(tokens, [kind |-> "TkEof", at |-> at, width |-> 0])
  BY <1>1 DEF End
<1>3. at \in Nat /\ [kind |-> "TkEof", at |-> at, width |-> 0] \in TokenRecord
  BY <1>1, TokensHold DEF TokenRecord, Kinds
<1>4. PICK last \in TokenRecord : last = [kind |-> "TkEof", at |-> at, width |-> 0]
  BY <1>3
<1>5. last.kind = "TkEof" /\ last.at = at /\ last.width = 0 /\ tokens' = Append(tokens, last)
  BY <1>2, <1>4
<1>6. /\ Len(tokens) \in Nat /\ DOMAIN tokens = 1 .. Len(tokens)
      /\ DOMAIN tokens' = 1 .. Len(tokens) + 1
      /\ \A k \in 1 .. Len(tokens) : tokens'[k] = tokens[k]
      /\ tokens'[Len(tokens) + 1] = last
  BY <1>5, TokensHold, AppendProperties
<1>7. "TkEof" \notin SymbolKinds /\ Plain("TkEof") \notin HaveNewlineForms
  BY KindsDiffer DEF SymbolKinds, UnfixedSet, Plain, HaveNewlineForms
<1>8. Starts' /\ NewlineIsKnown'
  BY <1>2 DEF Starts, NewlineIsKnown, Quoted
<1>9. TokensArePonycs'
  <2> SUFFICES ASSUME NEW k \in DOMAIN tokens', NEW token \in TokenRecord, tokens'[k] = token
               PROVE  PonycsAt(token.kind, token.at, token.width)'
    BY DEF TokensArePonycs
  <2>1. PICK a, b, c : a = token.kind /\ b = token.at /\ c = token.width
    OBVIOUS
  <2>2. PonycsAt(a, b, c)
    <3>1. CASE k \in 1 .. Len(tokens)
      BY <1>6, <2>1, <3>1 DEF Knows, TokensArePonycs
    <3>2. CASE k = Len(tokens) + 1
      BY <1>5, <1>6, <1>7, <2>1, <3>2 DEF PonycsAt
    <3> QED  BY <1>6, <3>1, <3>2
  <2>3. PonycsAt(a, b, c)'
    BY <1>2, <2>2, SourceStays
  <2> QED  BY <2>1, <2>3
<1>10. FormsAreRight'
  <2> SUFFICES ASSUME NEW k \in DOMAIN tokens', NEW token \in TokenRecord, tokens'[k] = token,
                      Plain(token.kind) \in HaveNewlineForms
               PROVE  token.kind # Plain(token.kind) <=> AfterNewline(k)'
    BY DEF FormsAreRight
  <2>1. AfterNewline(k)' <=> AfterNewline(k)
    BY <1>2, <1>5, <1>6, BeforeStays
  <2>2. k \in 1 .. Len(tokens)
    BY <1>5, <1>6, <1>7
  <2> QED  BY <1>6, <2>1, <2>2 DEF Knows, FormsAreRight
<1> QED  BY <1>8, <1>9, <1>10 DEF Knows

LEMMA InitKnows == Init => Knows
<1> SUFFICES ASSUME Init PROVE Knows
  OBVIOUS
<1>1. tokens = <<>> /\ mode = "scan" /\ after_newline = TRUE
  BY DEF Init
<1>2. AfterNewline(1)
  BY DEF AfterNewline, Since
<1>3. NewlineIsKnown
  <2>1. Len(tokens) + 1 = 1
    BY <1>1
  <2> QED  BY <1>1, <1>2, <2>1 DEF NewlineIsKnown
<1> QED  BY <1>1, <1>3 DEF Knows, Starts, TokensArePonycs, FormsAreRight, Quoted

LEMMA NextKnows ==
  ASSUME Inv, Knows, [Next]_vars
  PROVE  Knows'
<1>1. CASE UNCHANGED vars
  <2>1. Starts'
    BY <1>1, SourceStays DEF Knows, Starts, vars
  <2> QED  BY <1>1, <2>1, GoesKnows DEF vars
<1>2. CASE Next
  BY <1>2, WhitespaceKnows, LineCommentKnows, CommentDoneKnows, QuotedDoneKnows, TripleDoneKnows,
     UnterminatedKnows, TokenKnows, WithinKnows, EndKnows DEF Next
<1> QED  BY <1>1, <1>2

THEOREM NewlinesAreKnown == Spec => []Knows
<1>1. Inv /\ Knows /\ [Next]_vars => Knows'
  BY NextKnows
<1> QED  BY InitKnows, Inductive, <1>1, PTL DEF Spec

(***************************************************************************)
(* For any tables in ponyc's order, what comes out as a symbol is what     *)
(* ponyc's scan of its own table finds, though this one has looked for     *)
(* comments, numbers and names first and has the table sorted.             *)
(***************************************************************************)
THEOREM SymbolsArePonycs == Spec => []SymbolIsPonycs
<1>1. Inv /\ Knows => SymbolIsPonycs
  <2> SUFFICES ASSUME Inv, Knows, NEW k \in DOMAIN tokens
               PROVE  PonycsAt(tokens[k].kind, tokens[k].at, tokens[k].width)
    BY DEF SymbolIsPonycs, PonycsAt
  <2>1. tokens[k] \in TokenRecord
    BY TokensHold, ElementOfSeq
  <2> QED  BY <2>1 DEF Knows, TokensArePonycs
<1> QED  BY <1>1, Inductive, NewlinesAreKnown, PTL

(***************************************************************************)
(* For any source, a symbol is in its newline form exactly if it is first  *)
(* or on a new line: one variable, that comments and tokens clear and a    *)
(* line comment does not, says as much as the tokens before it.            *)
(***************************************************************************)
THEOREM NewlineFormsAreRight == Spec => []NewlineFormIsRight
<1>1. Inv /\ Knows => NewlineFormIsRight
  <2> SUFFICES ASSUME Inv, Knows, NEW k \in DOMAIN tokens, Plain(tokens[k].kind) \in HaveNewlineForms
               PROVE  tokens[k].kind # Plain(tokens[k].kind) <=> AfterNewline(k)
    BY DEF NewlineFormIsRight
  <2>1. tokens[k] \in TokenRecord
    BY TokensHold, ElementOfSeq
  <2> QED  BY <2>1 DEF Knows, FormsAreRight
<1> QED  BY <1>1, Inductive, NewlinesAreKnown, PTL

-------------------------------------------------------------------------------
(* The tree that any rules build of any tokens                             *)

NodeKind == NodeKinds \cup {Parser!NdModule, Parser!NdError}

Element(W) == [kind : Kinds \cup NodeKind, width : W, size : Nat]
Rule(W) == [what : {"node", "mark", "chain"}, index : Nat, from : W, wraps : Seq(Element(W))]

IsLeaf(e) == e.kind \notin NodeKind

\* In a stretch of elements, white space and comments come after another leaf.
Begun(es, from, to) ==
  \A l \in from .. to :
    IsLeaf(es[l]) /\ es[l].kind \in Trivia => \E m \in from .. to : m < l /\ IsLeaf(es[m])
HasLeaf(es, from, to) == \E m \in from .. to : IsLeaf(es[m])

\* The next token is no trivia, or there is none.
Quiet(st, ix) == ix < Len(st) => st[ix + 1].kind \notin Trivia

\* An element ends with the array, and before what a rule began after it.
Ended(es, rs) ==
  \A k \in 1 .. Len(es) :
    /\ k + es[k].size <= Len(es) + 1
    /\ \A r \in 1 .. Len(rs) : k <= rs[r].index => k + es[k].size <= rs[r].index + 1

NodesBegun(es) ==
  \A k \in 2 .. Len(es) : es[k].size > 1 => Begun(es, k, k + es[k].size - 1)

\* The rules that are under way, outermost first: the root and what is in it.
Nested(es, rs) ==
  /\ rs # <<>> => rs[1].what = "node" /\ rs[1].index = 0
  /\ \A r \in 1 .. Len(rs) :
       /\ rs[r].index <= Len(es)
       /\ rs[r].what = "node" => rs[r].index < Len(es) /\ ~IsLeaf(es[rs[r].index + 1])
       /\ \A q \in 1 .. r - 1 :
            /\ rs[q].index <= rs[r].index
            /\ rs[q].what = "node" => rs[q].index < rs[r].index

\* What a rule has so far will do for a node.
RulesBegun(es, rs, quiet) ==
  \A r \in 2 .. Len(rs) :
    /\ Begun(es, rs[r].index + 1, Len(es))
    /\ quiet \/ HasLeaf(es, rs[r].index + 1, Len(es))

\* A wrapper that is to come reaches to where the array ended when it was recorded.
Reaches(es, rule, w) ==
  /\ rule.wraps[w].kind \in NodeKind
  /\ \E end \in rule.index .. Len(es) : rule.wraps[w].size = end - rule.index + w
ChainsReach(es, rs) ==
  \A r \in 1 .. Len(rs) : \A w \in 1 .. Len(rs[r].wraps) : Reaches(es, rs[r], w)

Shape(es, rs, quiet) ==
  /\ Ended(es, rs) /\ NodesBegun(es) /\ Nested(es, rs)
  /\ RulesBegun(es, rs, quiet) /\ ChainsReach(es, rs)

LEMMA ElementsAre ==
  ASSUME NEW W, NEW es \in Seq(Element(W))
  PROVE  /\ Len(es) \in Nat
         /\ \A k \in 1 .. Len(es) : es[k] \in Element(W) /\ es[k].size \in Nat
<1>1. \A k \in 1 .. Len(es) : es[k] \in Element(W)
  BY ElementOfSeq
<1>2. \A e \in Element(W) : e.size \in Nat
  BY DEF Element
<1> QED  BY <1>1, <1>2, LenProperties

LEMMA RulesAre ==
  ASSUME NEW W, NEW rs \in Seq(Rule(W))
  PROVE  /\ Len(rs) \in Nat
         /\ \A r \in 1 .. Len(rs) :
              rs[r] \in Rule(W) /\ rs[r].index \in Nat /\ rs[r].wraps \in Seq(Element(W))
<1>1. \A r \in 1 .. Len(rs) : rs[r] \in Rule(W)
  BY ElementOfSeq
<1>2. \A r \in Rule(W) : r.index \in Nat /\ r.wraps \in Seq(Element(W))
  BY DEF Rule
<1> QED  BY <1>1, <1>2, LenProperties

LEMMA BegunMoves ==
  ASSUME NEW es, NEW fs, NEW from \in Int, NEW to \in Int, NEW by \in Int, NEW first \in Int, NEW last \in Int,
         Begun(es, from, last), to <= last, first <= from + by,
         \A k \in from .. to : fs[k + by].kind = es[k].kind,
         \A k \in first .. from + by - 1 : ~IsLeaf(fs[k])
  PROVE  Begun(fs, first, to + by)
<1> SUFFICES ASSUME NEW l \in first .. to + by, IsLeaf(fs[l]), fs[l].kind \in Trivia
             PROVE  \E m \in first .. to + by : m < l /\ IsLeaf(fs[m])
  BY DEF Begun
<1>1. l - by \in from .. to /\ (l - by) + by = l
  OBVIOUS
<1>2. IsLeaf(es[l - by]) /\ es[l - by].kind \in Trivia
  BY <1>1 DEF IsLeaf
<1>3. PICK m \in from .. last : m < l - by /\ IsLeaf(es[m])
  BY <1>1, <1>2 DEF Begun
<1>4. m \in from .. to /\ m + by \in first .. to + by /\ m + by < l
  BY <1>1, <1>3
<1>5. IsLeaf(fs[m + by])
  BY <1>3, <1>4 DEF IsLeaf
<1> QED  BY <1>4, <1>5

LEMMA LeafMoves ==
  ASSUME NEW es, NEW fs, NEW from \in Int, NEW to \in Int, NEW by \in Int, NEW first \in Int, NEW last \in Int,
         HasLeaf(es, from, to), first <= from + by, to + by <= last,
         \A k \in from .. to : fs[k + by].kind = es[k].kind
  PROVE  HasLeaf(fs, first, last)
<1>1. PICK m \in from .. to : IsLeaf(es[m])
  BY DEF HasLeaf
<1>2. m + by \in first .. last /\ IsLeaf(fs[m + by])
  BY <1>1 DEF IsLeaf
<1> QED  BY <1>2 DEF HasLeaf

-------------------------------------------------------------------------------
\* What is emitted, and that nothing is begun by white space or a comment.
AreLeaves(ls) == \A k \in 1 .. Len(ls) : IsLeaf(ls[k]) /\ ls[k].size = 1

LEMMA EmitKeeps ==
  ASSUME NEW W, NEW es \in Seq(Element(W)), NEW ls \in Seq(Element(W)), NEW rs \in Seq(Rule(W)),
         NEW quiet \in BOOLEAN, NEW later \in BOOLEAN,
         Shape(es, rs, quiet), AreLeaves(ls),
         ls # <<>> /\ quiet => ls[1].kind \notin Trivia,
         ls = <<>> /\ quiet => later
  PROVE  Shape(es \o ls, rs, later)
<1> DEFINE fs == es \o ls
<1> DEFINE e == Len(es)
<1> DEFINE f == Len(fs)
<1>1. /\ e \in Nat /\ Len(ls) \in Nat /\ Len(rs) \in Nat /\ f = e + Len(ls)
      /\ \A k \in 1 .. e : fs[k] = es[k]
      /\ \A k \in e + 1 .. f : fs[k] = ls[k - e]
  BY ConcatProperties, LenProperties
<1>2. \A k \in e + 1 .. f : IsLeaf(fs[k]) /\ fs[k].size = 1
  <2> SUFFICES ASSUME NEW k \in e + 1 .. f  PROVE IsLeaf(fs[k]) /\ fs[k].size = 1
    OBVIOUS
  <2>1. k - e \in 1 .. Len(ls) /\ fs[k] = ls[k - e]
    BY <1>1
  <2> QED  BY <2>1 DEF AreLeaves
<1>3. \A k \in 1 .. e : es[k].size \in Nat
  BY ElementsAre
<1>4. \A r \in 1 .. Len(rs) : rs[r].index \in Nat /\ rs[r].wraps \in Seq(Element(W))
  BY RulesAre
<1>5. ls = <<>> => f = e /\ fs = es
  BY ConcatEmptySeq
<1>6. ls # <<>> => f > e
  BY <1>1, EmptySeq
<1> HIDE DEF fs, e, f
<1> USE DEF Shape
<1>7. Ended(es, rs) /\ NodesBegun(es) /\ Nested(es, rs) /\ RulesBegun(es, rs, quiet) /\ ChainsReach(es, rs)
  OBVIOUS
<1>10. Ended(fs, rs)
  <2> SUFFICES ASSUME NEW k \in 1 .. f
               PROVE  /\ k + fs[k].size <= f + 1
                      /\ \A r \in 1 .. Len(rs) : k <= rs[r].index => k + fs[k].size <= rs[r].index + 1
    BY DEF Ended, f
  <2>1. CASE k <= e
    BY <2>1, <1>1, <1>3, <1>7 DEF Ended, e
  <2>2. CASE k > e
    <3>1. \A r \in 1 .. Len(rs) : rs[r].index <= e
      BY <1>7 DEF Nested, e
    <3> QED  BY <3>1, <2>2, <1>1, <1>2, <1>4
  <2> QED  BY <2>1, <2>2, <1>1
<1>11. NodesBegun(fs)
  <2> SUFFICES ASSUME NEW k \in 2 .. f, fs[k].size > 1
               PROVE  Begun(fs, k, k + fs[k].size - 1)
    BY DEF NodesBegun, f
  <2>1. k <= e /\ fs[k] = es[k] /\ k \in 1 .. e
    BY <1>1, <1>2
  <2>2. k + es[k].size <= e + 1 /\ es[k].size \in Nat
    BY <2>1, <1>3, <1>7 DEF Ended, e
  <2>3. Begun(es, k, k + es[k].size - 1)
    BY <2>1, <1>7 DEF NodesBegun, e
  <2> DEFINE to == k + es[k].size - 1
  <2>4. to \in Int /\ to + 0 = to /\ \A l \in k .. to : fs[l + 0].kind = es[l].kind
    BY <2>1, <2>2, <1>1
  <2>5. \A l \in k .. k + 0 - 1 : ~IsLeaf(fs[l])
    OBVIOUS
  <2> HIDE DEF to
  <2>6. Begun(fs, k, to + 0)
    <3>1. Begun(es, k, to) /\ k \in Int /\ 0 \in Int /\ to <= to /\ k <= k + 0
      BY <2>3, <2>4 DEF to
    <3> QED  BY <3>1, <2>4, <2>5, BegunMoves
  <2> QED  BY <2>6, <2>4, <2>1 DEF to
<1>12. Nested(fs, rs)
  <2>1. ASSUME NEW r \in 1 .. Len(rs), rs[r].index < e
        PROVE  fs[rs[r].index + 1] = es[rs[r].index + 1]
    <3>1. PICK x \in Nat : x = rs[r].index /\ x < e
      BY <2>1, <1>4
    <3>2. fs[x + 1] = es[x + 1]
      BY <3>1, <1>1
    <3> QED  BY <3>1, <3>2
  <2> QED  BY <2>1, <1>7, <1>1, <1>4 DEF Nested, e, f
<1>13. RulesBegun(fs, rs, later)
  <2> SUFFICES ASSUME NEW r \in 2 .. Len(rs)
               PROVE  /\ Begun(fs, rs[r].index + 1, f)
                      /\ later \/ HasLeaf(fs, rs[r].index + 1, f)
    BY DEF RulesBegun, f
  <2> DEFINE a == rs[r].index + 1
  <2>1. a \in Nat /\ a <= e + 1
    BY <1>4, <1>7, <1>1 DEF Nested, e
  <2>2. Begun(es, a, e) /\ (quiet \/ HasLeaf(es, a, e))
    BY <1>7 DEF RulesBegun, e
  <2> HIDE DEF a
  <2>3. CASE ls = <<>>
    BY <2>2, <2>3, <1>5 DEF a
  <2>4. CASE ls # <<>>
    <3>1. f > e /\ f \in a .. f /\ IsLeaf(fs[f])
      BY <2>4, <1>6, <1>1, <1>2, <2>1
    <3>2. HasLeaf(fs, a, f)
      BY <3>1 DEF HasLeaf
    <3>3. Begun(fs, a, f)
      <4> SUFFICES ASSUME NEW l \in a .. f, IsLeaf(fs[l]), fs[l].kind \in Trivia
                   PROVE  \E m \in a .. f : m < l /\ IsLeaf(fs[m])
        BY DEF Begun
      <4>1. CASE l <= e
        <5>1. l \in a .. e /\ \A m \in a .. e : m \in a .. f
          BY <4>1, <3>1, <1>1, <2>1
        <5>2. \A m \in a .. l : fs[m] = es[m]
          <6>1. \E r0 \in Nat : a = r0 + 1
            BY <1>4 DEF a
          <6> QED  BY <6>1, <4>1, <1>1
        <5> QED  BY <5>1, <5>2, <2>2, <1>1, <2>1 DEF Begun
      <4>2. CASE l > e /\ HasLeaf(es, a, e)
        <5>1. PICK m \in a .. e : IsLeaf(es[m])
          BY <4>2 DEF HasLeaf
        <5>2. m \in 1 .. e
          <6>1. \E r0 \in Nat : a = r0 + 1
            BY <1>4 DEF a
          <6> QED  BY <6>1, <1>1
        <5> QED  BY <5>1, <5>2, <4>2, <1>1, <2>1
      <4>3. CASE l > e /\ ~HasLeaf(es, a, e)
        <5>1. fs[e + 1] = ls[1] /\ e + 1 \in e + 1 .. f /\ e + 1 \in a .. f
          BY <3>1, <1>1, <2>1
        <5>2. ls[1].kind \notin Trivia
          BY <4>3, <2>2, <2>4
        <5>3. l # e + 1 /\ IsLeaf(fs[e + 1])
          BY <5>1, <5>2, <1>2
        <5> QED  BY <5>1, <5>3, <4>3, <1>1
      <4> QED  BY <4>1, <4>2, <4>3, <1>1, <2>1
    <3> QED  BY <3>2, <3>3 DEF a
  <2> QED  BY <2>3, <2>4
<1>14. ChainsReach(fs, rs)
  <2> SUFFICES ASSUME NEW r \in 1 .. Len(rs), NEW w \in 1 .. Len(rs[r].wraps)
               PROVE  Reaches(fs, rs[r], w)
    BY DEF ChainsReach
  <2>1. Reaches(es, rs[r], w)
    BY <1>7 DEF ChainsReach
  <2> QED  BY <2>1, <1>1, <1>4 DEF Reaches, e, f
<1> QED  BY <1>10, <1>11, <1>12, <1>13, <1>14 DEF fs

-------------------------------------------------------------------------------
\* Wrappers in front of what begins after `at`.
Inserted(es, at, ws) == SubSeq(es, 1, at) \o ws \o SubSeq(es, at + 1, Len(es))

IsInserted(fs, es, at, ws) ==
  /\ Len(fs) = Len(es) + Len(ws)
  /\ \A k \in 1 .. at : fs[k] = es[k]
  /\ \A k \in 1 .. Len(ws) : fs[at + k] = ws[k]
  /\ \A k \in at + 1 .. Len(es) : fs[k + Len(ws)] = es[k]

LEMMA InsertedIs ==
  ASSUME NEW W, NEW es \in Seq(Element(W)), NEW ws \in Seq(Element(W)), NEW at \in 0 .. Len(es)
  PROVE  Inserted(es, at, ws) \in Seq(Element(W)) /\ IsInserted(Inserted(es, at, ws), es, at, ws)
<1> DEFINE E == Element(W)
<1> DEFINE before == SubSeq(es, 1, at)
<1> DEFINE after == SubSeq(es, at + 1, Len(es))
<1> DEFINE front == before \o ws
<1>1. Len(es) \in Nat /\ Len(ws) \in Nat
  BY LenProperties
<1>2. \A k \in 1 .. Len(es) : es[k] \in E
  BY ElementOfSeq
<1> HIDE DEF E
<1>3. before \in Seq(E) /\ Len(before) = at /\ \A k \in 1 .. at : before[k] = es[k]
  <2>1. 1 \in Int /\ at \in Int /\ \A k \in 1 .. at : es[k] \in E
    BY <1>1, <1>2
  <2>2. /\ before \in Seq(E) /\ Len(before) = IF 1 <= at THEN at - 1 + 1 ELSE 0
        /\ \A k \in 1 .. at - 1 + 1 : before[k] = es[1 + k - 1]
    BY <2>1, SubSeqProperties
  <2> HIDE DEF before
  <2> QED  BY <2>2, <1>1
<1>4. /\ after \in Seq(E) /\ Len(after) = Len(es) - at
      /\ \A k \in 1 .. Len(es) - at : after[k] = es[at + k]
  <2>1. at + 1 \in Int /\ Len(es) \in Int /\ \A k \in at + 1 .. Len(es) : es[k] \in E
    BY <1>1, <1>2
  <2>2. /\ after \in Seq(E) /\ Len(after) = IF at + 1 <= Len(es) THEN Len(es) - (at + 1) + 1 ELSE 0
        /\ \A k \in 1 .. Len(es) - (at + 1) + 1 : after[k] = es[(at + 1) + k - 1]
    BY <2>1, SubSeqProperties
  <2> HIDE DEF after
  <2> QED  BY <2>2, <1>1
<1> HIDE DEF before, after
<1>5. /\ front \in Seq(E) /\ Len(front) = at + Len(ws)
      /\ \A k \in 1 .. at : front[k] = es[k]
      /\ \A k \in 1 .. Len(ws) : front[at + k] = ws[k]
  <2>1. ws \in Seq(E)
    BY DEF E
  <2>2. /\ front \in Seq(E) /\ Len(front) = at + Len(ws)
        /\ \A k \in 1 .. at + Len(ws) : front[k] = IF k <= at THEN before[k] ELSE ws[k - at]
    BY <2>1, <1>3, ConcatProperties
  <2> HIDE DEF front
  <2>3. \A k \in 1 .. at : front[k] = es[k]
    BY <2>2, <1>3, <1>1
  <2>4. \A k \in 1 .. Len(ws) : at + k \in 1 .. at + Len(ws) /\ ~(at + k <= at) /\ (at + k) - at = k
    BY <1>1
  <2> QED  BY <2>2, <2>3, <2>4
<1> HIDE DEF front
<1> DEFINE fs == front \o after
<1>6. /\ fs \in Seq(E) /\ Len(fs) = Len(front) + Len(after)
      /\ \A k \in 1 .. Len(front) + Len(after) :
            fs[k] = IF k <= Len(front) THEN front[k] ELSE after[k - Len(front)]
  BY <1>4, <1>5, ConcatProperties
<1> HIDE DEF fs
<1>7. Len(fs) = Len(es) + Len(ws)
  BY <1>6, <1>5, <1>4, <1>1
<1>8. \A k \in 1 .. at : fs[k] = es[k]
  <2>1. \A k \in 1 .. at : k \in 1 .. Len(front) + Len(after) /\ k <= Len(front)
    BY <1>5, <1>4, <1>1
  <2> QED  BY <2>1, <1>6, <1>5
<1>9. \A k \in 1 .. Len(ws) : fs[at + k] = ws[k]
  <2>1. \A k \in 1 .. Len(ws) : at + k \in 1 .. Len(front) + Len(after) /\ at + k <= Len(front)
    BY <1>5, <1>4, <1>1
  <2> QED  BY <2>1, <1>6, <1>5
<1>10. \A k \in at + 1 .. Len(es) : fs[k + Len(ws)] = es[k]
  <2> SUFFICES ASSUME NEW k \in at + 1 .. Len(es)  PROVE fs[k + Len(ws)] = es[k]
    OBVIOUS
  <2>1. /\ k + Len(ws) \in 1 .. Len(front) + Len(after) /\ ~(k + Len(ws) <= Len(front))
        /\ (k + Len(ws)) - Len(front) = k - at
        /\ k - at \in 1 .. Len(es) - at /\ at + (k - at) = k
    BY <1>5, <1>4, <1>1
  <2>2. fs[k + Len(ws)] = after[k - at]
    BY <2>1, <1>6
  <2> QED  BY <2>1, <2>2, <1>4
<1> QED  BY <1>6, <1>7, <1>8, <1>9, <1>10 DEF IsInserted, Inserted, fs, front, before, after, E

LEMMA BegunSpreads ==
  ASSUME NEW es, NEW fs, NEW from \in Int, NEW at \in Int, NEW last \in Int, NEW by \in Nat,
         from <= at + 1, Begun(es, from, last),
         \A k \in from .. at : fs[k].kind = es[k].kind,
         \A k \in at + 1 .. last : fs[k + by].kind = es[k].kind,
         \A k \in at + 1 .. at + by : ~IsLeaf(fs[k]), at <= last
  PROVE  Begun(fs, from, last + by)
<1> DEFINE New(k) == IF k <= at THEN k ELSE k + by
<1>1. \A k \in from .. last : New(k) \in from .. last + by /\ fs[New(k)].kind = es[k].kind
  OBVIOUS
<1>2. \A k, l \in from .. last : k < l => New(k) < New(l)
  OBVIOUS
<1> SUFFICES ASSUME NEW l \in from .. last + by, IsLeaf(fs[l]), fs[l].kind \in Trivia
             PROVE  \E m \in from .. last + by : m < l /\ IsLeaf(fs[m])
  BY DEF Begun
<1>3. \E k \in from .. last : New(k) = l
  <2>1. CASE l <= at
    BY <2>1
  <2>2. CASE l > at + by
    <3>1. l - by \in from .. last /\ New(l - by) = l
      BY <2>2
    <3> QED  BY <3>1
  <2> QED  BY <2>1, <2>2
<1> HIDE DEF New
<1>4. PICK k \in from .. last : New(k) = l
  BY <1>3
<1>5. IsLeaf(es[k]) /\ es[k].kind \in Trivia
  BY <1>1, <1>4 DEF IsLeaf
<1>6. PICK m \in from .. last : m < k /\ IsLeaf(es[m])
  BY <1>5 DEF Begun
<1>7. New(m) < l /\ New(m) \in from .. last + by /\ IsLeaf(fs[New(m)])
  BY <1>1, <1>2, <1>4, <1>6 DEF IsLeaf
<1> QED  BY <1>7

LEMMA LeafSpreads ==
  ASSUME NEW es, NEW fs, NEW from \in Int, NEW at \in Int, NEW last \in Int, NEW by \in Nat,
         HasLeaf(es, from, last), from <= at + 1,
         \A k \in from .. at : fs[k].kind = es[k].kind,
         \A k \in at + 1 .. last : fs[k + by].kind = es[k].kind
  PROVE  HasLeaf(fs, from, last + by)
<1>1. PICK m \in from .. last : IsLeaf(es[m])
  BY DEF HasLeaf
<1>2. CASE m <= at
  BY <1>1, <1>2 DEF HasLeaf, IsLeaf
<1>3. CASE m > at
  <2>1. m \in at + 1 .. last /\ m + by \in from .. last + by /\ IsLeaf(fs[m + by])
    BY <1>1, <1>3 DEF IsLeaf
  <2> QED  BY <2>1 DEF HasLeaf
<1> QED  BY <1>2, <1>3

\* A wrapper covers what is between it and the end of an element, or of the array.
Wraps(es, at, ws) ==
  \A k \in 1 .. Len(ws) :
    /\ ws[k].kind \in NodeKind
    /\ \E end \in at .. Len(es) : ws[k].size = end - at + Len(ws) - k + 1

LEMMA InsertKeeps ==
  ASSUME NEW W, NEW es \in Seq(Element(W)), NEW ws \in Seq(Element(W)), NEW rs \in Seq(Rule(W)),
         NEW at \in 1 .. Len(es), NEW quiet \in BOOLEAN, NEW fs \in Seq(Element(W)),
         IsInserted(fs, es, at, ws),
         Shape(es, rs, quiet), Wraps(es, at, ws),
         Begun(es, at + 1, Len(es)),
         \A k \in 1 .. at : k + es[k].size <= at + 1,
         \A r \in 1 .. Len(rs) : rs[r].index <= at
  PROVE  Shape(fs, rs, quiet)
<1> DEFINE e == Len(es)
<1> DEFINE f == Len(fs)
<1> DEFINE w == Len(ws)
<1>1. /\ e \in Nat /\ w \in Nat /\ Len(rs) \in Nat /\ f = e + w /\ at \in 1 .. e
      /\ \A k \in 1 .. at : fs[k] = es[k]
      /\ \A k \in 1 .. w : fs[at + k] = ws[k]
      /\ \A k \in at + 1 .. e : fs[k + w] = es[k]
  BY LenProperties DEF IsInserted
<1>2. \A k \in 1 .. e : es[k].size \in Nat
  BY ElementsAre
<1>3. \A k \in 1 .. w : ws[k].size \in Nat
  BY ElementsAre
<1>4. \A r \in 1 .. Len(rs) : rs[r].index \in Nat /\ rs[r].index <= at /\ rs[r].wraps \in Seq(Element(W))
  BY RulesAre
<1>5. Ended(es, rs) /\ NodesBegun(es) /\ Nested(es, rs) /\ RulesBegun(es, rs, quiet) /\ ChainsReach(es, rs)
  BY DEF Shape
<1>6. \A k \in 1 .. w : \E end \in at .. e : ws[k].size = end - at + w - k + 1
  BY DEF Wraps
<1>7. \A k \in at + 1 .. at + w : ~IsLeaf(fs[k])
  <2> SUFFICES ASSUME NEW k \in at + 1 .. at + w  PROVE ~IsLeaf(fs[k])
    OBVIOUS
  <2>1. k - at \in 1 .. w /\ fs[at + (k - at)] = ws[k - at] /\ at + (k - at) = k
    BY <1>1
  <2>2. ws[k - at].kind \in NodeKind
    BY <2>1 DEF Wraps
  <2> QED  BY <2>1, <2>2 DEF IsLeaf
<1>8. Begun(es, at + 1, e) /\ (\A k \in 1 .. at : k + es[k].size <= at + 1)
  OBVIOUS
<1>9. \A k \in 1 .. f : \/ k \in 1 .. at
                       \/ (k - at \in 1 .. w /\ k = at + (k - at))
                       \/ (k - w \in at + 1 .. e /\ k = (k - w) + w)
  BY <1>1
<1> HIDE DEF e, f, w
<1>15. \A k \in 1 .. e : k + es[k].size <= e + 1
  BY <1>5 DEF Ended, e
<1>10. Ended(fs, rs)
  <2> SUFFICES ASSUME NEW k \in 1 .. f
               PROVE  /\ k + fs[k].size <= f + 1
                      /\ \A r \in 1 .. Len(rs) : k <= rs[r].index => k + fs[k].size <= rs[r].index + 1
    BY DEF Ended, f
  <2>1. CASE k \in 1 .. at
    <3>1. fs[k] = es[k] /\ es[k].size \in Nat /\ k + es[k].size <= at + 1 /\ k \in 1 .. e
      BY <2>1, <1>1, <1>2, <1>8
    <3>2. \A r \in 1 .. Len(rs) : k <= rs[r].index => k + es[k].size <= rs[r].index + 1
      BY <3>1, <1>5 DEF Ended, e
    <3> QED  BY <3>1, <3>2, <1>1
  <2>2. CASE k - at \in 1 .. w /\ k = at + (k - at)
    <3>1. PICK end \in at .. e : ws[k - at].size = end - at + w - (k - at) + 1
      BY <2>2, <1>6
    <3>2. fs[k] = ws[k - at]
      <4>1. fs[at + (k - at)] = ws[k - at]
        BY <2>2, <1>1
      <4> QED  BY <4>1, <2>2
    <3>3. k + fs[k].size <= f + 1
      BY <3>1, <3>2, <1>1
    <3> QED  BY <3>3, <2>2, <1>4, <1>1
  <2>3. CASE k - w \in at + 1 .. e /\ k = (k - w) + w
    <3>1. fs[k] = es[k - w]
      <4>1. fs[(k - w) + w] = es[k - w]
        BY <2>3, <1>1
      <4> QED  BY <4>1, <2>3
    <3>2. k - w \in 1 .. e /\ es[k - w].size \in Nat
      BY <2>3, <1>1, <1>2
    <3>3. PICK size \in Nat : size = fs[k].size /\ k - w + size <= e + 1
      BY <3>1, <3>2, <1>15
    <3>4. k + size <= f + 1
      BY <3>3, <1>1
    <3>5. \A r \in 1 .. Len(rs) : ~(k <= rs[r].index)
      BY <2>3, <1>4, <1>1
    <3> QED  BY <3>3, <3>4, <3>5
  <2> QED  BY <2>1, <2>2, <2>3, <1>9
<1>11. NodesBegun(fs)
  <2> SUFFICES ASSUME NEW k \in 2 .. f, fs[k].size > 1
               PROVE  Begun(fs, k, k + fs[k].size - 1)
    BY DEF NodesBegun, f
  <2> DEFINE to == k + fs[k].size - 1
  <2>1. CASE k \in 1 .. at
    <3>1. fs[k] = es[k] /\ es[k].size \in Nat /\ k + es[k].size <= at + 1 /\ k \in 2 .. e
      BY <2>1, <1>1, <1>2, <1>8
    <3>2. Begun(es, k, to)
      BY <3>1, <1>5 DEF NodesBegun, e
    <3>5. PICK size \in Nat : size = es[k].size /\ size = fs[k].size /\ k + size <= at + 1
      BY <3>1
    <3>6. to = k + size - 1
      BY <3>5
    <3> HIDE DEF to
    <3>7. to \in Int /\ to <= at /\ k \in Int /\ k >= 1 /\ at \in Int
      <4>1. at \in Int /\ k \in Int /\ k >= 1
        BY <1>1
      <4>2. size \in Int /\ k + size <= at + 1
        BY <3>5
      <4>3. k + size - 1 \in Int /\ k + size - 1 <= at
        BY <4>1, <4>2
      <4> QED  BY <4>1, <4>3, <3>6
    <3>8. \A l \in k .. to : l + 0 = l /\ l \in 1 .. at
      BY <3>7
    <3>9. \A l \in k .. to : fs[l + 0].kind = es[l].kind
      BY <3>8, <1>1
    <3>3. /\ to \in Int /\ to + 0 = to /\ k \in Int /\ 0 \in Int /\ to <= to /\ k <= k + 0
          /\ \A l \in k .. to : fs[l + 0].kind = es[l].kind
          /\ \A l \in k .. k + 0 - 1 : ~IsLeaf(fs[l])
      BY <3>7, <3>9
    <3>4. Begun(fs, k, to + 0)
      BY <3>2, <3>3, BegunMoves
    <3> QED  BY <3>3, <3>4 DEF to
  <2>2. CASE k - at \in 1 .. w /\ k = at + (k - at)
    <3>1. PICK end \in at .. e : ws[k - at].size = end - at + w - (k - at) + 1
      BY <2>2, <1>6
    <3>2. fs[k] = ws[k - at]
      <4>1. fs[at + (k - at)] = ws[k - at]
        BY <2>2, <1>1
      <4> QED  BY <4>1, <2>2
    <3>3. to = end + w
      <4>1. PICK size \in Nat : size = fs[k].size /\ size = end - at + w - (k - at) + 1
        BY <3>1, <3>2, <2>2, <1>3
      <4>3. k \in Int /\ at \in Int /\ w \in Int /\ end \in Int
        BY <2>2, <1>1
      <4>2. k + size - 1 = end + w
        BY <4>1, <4>3
      <4> QED  BY <4>1, <4>2
    <3>4. /\ at + 1 \in Int /\ end \in Int /\ w \in Int /\ k \in Int /\ e \in Int /\ end <= e /\ k <= at + 1 + w
          /\ \A l \in at + 1 .. end : fs[l + w].kind = es[l].kind
          /\ \A l \in k .. at + 1 + w - 1 : ~IsLeaf(fs[l])
      <4>1. \A l \in at + 1 .. end : l \in at + 1 .. e
        BY <1>1
      <4>2. \A l \in k .. at + 1 + w - 1 : l \in at + 1 .. at + w
        BY <1>1, <2>2
      <4> QED  BY <4>1, <4>2, <1>1, <2>2, <1>7
    <3>5. Begun(fs, k, end + w)
      BY <3>4, <1>8, BegunMoves
    <3> QED  BY <3>5, <3>3
  <2>3. CASE k - w \in at + 1 .. e /\ k = (k - w) + w
    <3> DEFINE l == k - w
    <3> DEFINE last == l + es[l].size - 1
    <3>1. fs[k] = es[l]
      <4>1. fs[(k - w) + w] = es[k - w]
        BY <2>3, <1>1
      <4> QED  BY <4>1, <2>3
    <3>2. l \in 2 .. e /\ es[l].size \in Nat /\ l \in at + 1 .. e /\ k = l + w
      BY <2>3, <1>1, <1>2
    <3>3. Begun(es, l, last)
      BY <3>1, <3>2, <1>5 DEF NodesBegun, e
    <3>7. l \in 1 .. e
      BY <3>2
    <3>4. l + es[l].size <= e + 1
      BY <3>7, <1>15
    <3> HIDE DEF l
    <3>5. /\ last \in Int /\ last + w = to /\ l \in Int /\ w \in Int /\ last <= last /\ k \in Int /\ k <= l + w
          /\ \A m \in l .. last : fs[m + w].kind = es[m].kind
          /\ \A m \in k .. l + w - 1 : ~IsLeaf(fs[m])
      <4>1. PICK size \in Nat : size = es[l].size /\ l + size <= e + 1
        BY <3>2, <3>4
      <4>2. last = l + size - 1 /\ to = k + size - 1
        BY <4>1, <3>1
      <4> HIDE DEF last, to
      <4>3. l \in Int /\ w \in Int /\ k \in Int /\ at \in Int /\ e \in Int /\ k = l + w /\ l >= at + 1
        BY <3>2, <1>1
      <4>8. l + size <= e + 1 /\ size \in Int
        BY <4>1
      <4>9. l + size - 1 \in Int /\ l + size - 1 <= e /\ (l + size - 1) + w = k + size - 1
        BY <4>8, <4>3
      <4>4. last \in Int /\ last <= e
        BY <4>2, <4>9
      <4>5. last + w = to
        BY <4>2, <4>9
      <4>6. \A m \in l .. last : m \in at + 1 .. e
        BY <4>3, <4>4
      <4>7. \A m \in k .. l + w - 1 : ~IsLeaf(fs[m])
        BY <4>3
      <4> QED  BY <4>3, <4>4, <4>5, <4>6, <4>7, <1>1
    <3> HIDE DEF last, to
    <3>6. Begun(fs, k, last + w)
      BY <3>3, <3>5, BegunMoves
    <3> QED  BY <3>6, <3>5 DEF to
  <2> QED  BY <2>1, <2>2, <2>3, <1>9, <1>1
<1>12. Nested(fs, rs)
  <2>1. ASSUME NEW r \in 1 .. Len(rs), rs[r].index < e, ~IsLeaf(es[rs[r].index + 1])
        PROVE  ~IsLeaf(fs[rs[r].index + 1])
    <3>1. PICK x \in Nat : x = rs[r].index /\ x <= at /\ x < e
      BY <2>1, <1>4
    <3>2. CASE x < at
      BY <3>1, <3>2, <2>1, <1>1
    <3>3. CASE x = at /\ w = 0
      <4>1. x + 1 \in at + 1 .. e /\ (x + 1) + w = x + 1
        BY <3>1, <3>3, <1>1
      <4>2. fs[(x + 1) + w] = es[x + 1]
        BY <4>1, <1>1
      <4> QED  BY <4>1, <4>2, <3>1, <2>1
    <3>4. CASE x = at /\ w # 0
      BY <3>1, <3>4, <1>1, <1>7
    <3> QED  BY <3>1, <3>2, <3>3, <3>4
  <2> QED  BY <2>1, <1>5, <1>1, <1>4 DEF Nested, e, f
<1>13. RulesBegun(fs, rs, quiet)
  <2> SUFFICES ASSUME NEW r \in 2 .. Len(rs)
               PROVE  /\ Begun(fs, rs[r].index + 1, f)
                      /\ quiet \/ HasLeaf(fs, rs[r].index + 1, f)
    BY DEF RulesBegun, f
  <2> DEFINE a == rs[r].index + 1
  <2>1. a \in 1 .. at + 1
    BY <1>4, <1>1
  <2>2. Begun(es, a, e) /\ (quiet \/ HasLeaf(es, a, e))
    BY <1>5 DEF RulesBegun, e
  <2> HIDE DEF a
  <2>3. /\ a \in Int /\ at \in Int /\ e \in Int /\ w \in Nat /\ a <= at + 1 /\ at <= e /\ f = e + w
        /\ \A k \in a .. at : fs[k].kind = es[k].kind
        /\ \A k \in at + 1 .. e : fs[k + w].kind = es[k].kind
    BY <2>1, <1>1
  <2>4. Begun(fs, a, e + w)
    BY <2>2, <2>3, <1>7, BegunSpreads
  <2>5. HasLeaf(es, a, e) => HasLeaf(fs, a, e + w)
    BY <2>3, LeafSpreads
  <2> QED  BY <2>2, <2>3, <2>4, <2>5 DEF a
<1>14. ChainsReach(fs, rs)
  <2> SUFFICES ASSUME NEW r \in 1 .. Len(rs), NEW c \in 1 .. Len(rs[r].wraps)
               PROVE  Reaches(fs, rs[r], c)
    BY DEF ChainsReach
  <2>1. Reaches(es, rs[r], c)
    BY <1>5 DEF ChainsReach
  <2> QED  BY <2>1, <1>1, <1>4 DEF Reaches, e, f
<1> QED  BY <1>10, <1>11, <1>12, <1>13, <1>14 DEF Shape

LEMMA PopKeeps ==
  ASSUME NEW W, NEW es \in Seq(Element(W)), NEW rs \in Seq(Rule(W)), rs # <<>>,
         NEW quiet \in BOOLEAN, Shape(es, rs, quiet)
  PROVE  /\ SubSeq(rs, 1, Len(rs) - 1) \in Seq(Rule(W))
         /\ Shape(es, SubSeq(rs, 1, Len(rs) - 1), quiet)
<1> DEFINE n0 == Len(rs)
<1> DEFINE below == SubSeq(rs, 1, n0 - 1)
<1>1. n0 \in Nat /\ n0 # 0
  BY EmptySeq
<1>2. \A r \in 1 .. n0 : rs[r] \in Rule(W) /\ rs[r].index \in Nat
  BY RulesAre
<1>3. /\ below \in Seq(Rule(W)) /\ Len(below) = n0 - 1
      /\ \A r \in 1 .. n0 - 1 : below[r] = rs[r]
  <2>1. 1 \in Int /\ n0 - 1 \in Int /\ \A r \in 1 .. n0 - 1 : rs[r] \in Rule(W)
    BY <1>1, <1>2
  <2> DEFINE m == n0 - 1
  <2> HIDE DEF m
  <2>2. /\ SubSeq(rs, 1, m) \in Seq(Rule(W)) /\ Len(SubSeq(rs, 1, m)) = IF 1 <= m THEN m - 1 + 1 ELSE 0
        /\ \A r \in 1 .. m - 1 + 1 : SubSeq(rs, 1, m)[r] = rs[1 + r - 1]
    BY <2>1, SubSeqProperties DEF m
  <2>3. m \in Nat /\ below = SubSeq(rs, 1, m)
    BY <1>1 DEF m
  <2> HIDE DEF below
  <2>4. Len(below) = m
    BY <2>2, <2>3
  <2>5. \A r \in 1 .. m : below[r] = rs[r]
    <3>1. \A r \in 1 .. m : r \in 1 .. m - 1 + 1 /\ 1 + r - 1 = r
      BY <2>3
    <3> QED  BY <3>1, <2>2, <2>3
  <2> QED  BY <2>2, <2>3, <2>4, <2>5 DEF m
<1>4. Ended(es, rs) /\ NodesBegun(es) /\ Nested(es, rs) /\ RulesBegun(es, rs, quiet) /\ ChainsReach(es, rs)
  BY DEF Shape
<1>5. Len(es) \in Nat /\ (\A k \in 1 .. Len(es) : es[k].size \in Nat)
  BY ElementsAre
<1> HIDE DEF below
<1>6. \A r \in 1 .. Len(below) : r \in 1 .. n0 /\ below[r] = rs[r]
  BY <1>1, <1>3
<1>7. Ended(es, below)
  BY <1>4, <1>6 DEF Ended
<1>8. Nested(es, below)
  <2>1. below # <<>> => below[1] = rs[1] /\ rs # <<>>
    <3>1. below # <<>> => Len(below) # 0
      BY <1>3, EmptySeq
    <3> QED  BY <3>1, <1>1, <1>3
  <2>2. \A r \in 1 .. Len(below) : \A q \in 1 .. r - 1 : q \in 1 .. Len(below)
    BY <1>1, <1>3
  <2> QED  BY <2>1, <2>2, <1>4, <1>6 DEF Nested
<1>9. RulesBegun(es, below, quiet)
  <2>1. \A r \in 2 .. Len(below) : r \in 2 .. n0 /\ below[r] = rs[r]
    BY <1>1, <1>3
  <2> QED  BY <2>1, <1>4 DEF RulesBegun
<1>10. ChainsReach(es, below)
  BY <1>4, <1>6 DEF ChainsReach
<1> QED  BY <1>3, <1>4, <1>7, <1>8, <1>9, <1>10 DEF Shape, below

LEMMA AppendedIs ==
  ASSUME NEW S, NEW s \in Seq(S), NEW x \in S
  PROVE  /\ Append(s, x) \in Seq(S) /\ Len(s) \in Nat /\ Len(Append(s, x)) = Len(s) + 1
         /\ Append(s, x)[Len(s) + 1] = x /\ \A k \in 1 .. Len(s) : Append(s, x)[k] = s[k]
  BY LenProperties, AppendProperties

\* A mark, or a chain with nothing recorded yet, where the array ends.
LEMMA HoldKeeps ==
  ASSUME NEW W, NEW es \in Seq(Element(W)), NEW rs \in Seq(Rule(W)), rs # <<>>,
         NEW rule \in Rule(W), rule.what # "node", rule.index = Len(es), rule.wraps = <<>>,
         Shape(es, rs, TRUE)
  PROVE  Shape(es, Append(rs, rule), TRUE)
<1> DEFINE ss == Append(rs, rule)
<1> DEFINE last == Len(rs) + 1
<1>1. /\ Len(rs) \in Nat /\ Len(rs) # 0 /\ Len(ss) = last /\ ss[last] = rule
      /\ \A r \in 1 .. Len(rs) : ss[r] = rs[r]
  BY AppendedIs, EmptySeq
<1>2. \A r \in 1 .. last : r \in 1 .. Len(rs) \/ r = last
  BY <1>1
<1>3. Len(es) \in Nat /\ (\A k \in 1 .. Len(es) : es[k].size \in Nat)
  BY ElementsAre
<1>4. Ended(es, rs) /\ NodesBegun(es) /\ Nested(es, rs) /\ RulesBegun(es, rs, TRUE) /\ ChainsReach(es, rs)
  BY DEF Shape
<1>5. \A r \in 1 .. Len(rs) : rs[r].index \in Nat
  BY RulesAre
<1>6. ss # <<>>
  BY <1>1, EmptySeq
<1> HIDE DEF ss
<1>7. Ended(es, ss)
  BY <1>1, <1>2, <1>4 DEF Ended
<1>8. Nested(es, ss)
  <2>1. ss[1].what = "node" /\ ss[1].index = 0
    BY <1>1, <1>4 DEF Nested
  <2> SUFFICES ASSUME NEW r \in 1 .. last
               PROVE  /\ ss[r].index <= Len(es)
                      /\ ss[r].what = "node" => ss[r].index < Len(es) /\ ~IsLeaf(es[ss[r].index + 1])
                      /\ \A q \in 1 .. r - 1 :
                           /\ ss[q].index <= ss[r].index
                           /\ ss[q].what = "node" => ss[q].index < ss[r].index
    BY <1>1, <2>1 DEF Nested
  <2>2. CASE r \in 1 .. Len(rs)
    <3>1. ss[r] = rs[r] /\ \A q \in 1 .. r - 1 : ss[q] = rs[q]
      BY <1>1, <2>2
    <3> QED  BY <3>1, <2>2, <1>4 DEF Nested
  <2>3. CASE r = last
    <3>1. ss[r] = rule /\ \A q \in 1 .. r - 1 : ss[q] = rs[q] /\ q \in 1 .. Len(rs)
      BY <1>1, <2>3
    <3> QED  BY <3>1, <1>3, <1>4 DEF Nested
  <2> QED  BY <2>2, <2>3, <1>2
<1>9. RulesBegun(es, ss, TRUE)
  <2> SUFFICES ASSUME NEW r \in 2 .. last  PROVE Begun(es, ss[r].index + 1, Len(es))
    BY <1>1 DEF RulesBegun
  <2>1. CASE r \in 2 .. Len(rs)
    BY <2>1, <1>1, <1>4 DEF RulesBegun
  <2>2. CASE r = last
    <3>1. \A l \in Len(es) + 1 .. Len(es) : FALSE
      BY <1>3
    <3> QED  BY <3>1, <2>2, <1>1 DEF Begun
  <2> QED  BY <2>1, <2>2, <1>1
<1>10. ChainsReach(es, ss)
  <2>1. Len(rule.wraps) = 0
    BY EmptySeq
  <2>2. \A w \in 1 .. 0 : FALSE
    OBVIOUS
  <2> QED  BY <2>1, <2>2, <1>1, <1>2, <1>4 DEF ChainsReach
<1> QED  BY <1>4, <1>7, <1>8, <1>9, <1>10 DEF Shape, ss

\* A node is opened: what is in it is yet to come.
LEMMA OpenKeeps ==
  ASSUME NEW W, NEW es \in Seq(Element(W)), NEW rs \in Seq(Rule(W)), rs # <<>>,
         NEW node \in Element(W), node.kind \in NodeKind, node.size = 0,
         NEW rule \in Rule(W), rule.index = Len(es), rule.wraps = <<>>,
         Shape(es, rs, TRUE)
  PROVE  Shape(Append(es, node), Append(rs, rule), TRUE)
<1> DEFINE fs == Append(es, node)
<1> DEFINE ss == Append(rs, rule)
<1> DEFINE last == Len(rs) + 1
<1> DEFINE f == Len(es) + 1
<1>1. /\ Len(rs) \in Nat /\ Len(rs) # 0 /\ Len(ss) = last /\ ss[last] = rule
      /\ \A r \in 1 .. Len(rs) : ss[r] = rs[r]
  BY AppendedIs, EmptySeq
<1>2. \A r \in 1 .. last : r \in 1 .. Len(rs) \/ r = last
  BY <1>1
<1>3. Len(es) \in Nat /\ (\A k \in 1 .. Len(es) : es[k].size \in Nat)
  BY ElementsAre
<1>4. Ended(es, rs) /\ NodesBegun(es) /\ Nested(es, rs) /\ RulesBegun(es, rs, TRUE) /\ ChainsReach(es, rs)
  BY DEF Shape
<1>5. \A r \in 1 .. Len(rs) : rs[r].index \in Nat /\ rs[r].index <= Len(es)
  BY RulesAre, <1>4 DEF Nested
<1>6. Len(fs) = f /\ fs[f] = node /\ (\A k \in 1 .. Len(es) : fs[k] = es[k])
  BY AppendedIs
<1>7. ~IsLeaf(fs[f])
  BY <1>6 DEF IsLeaf
<1>8. ss # <<>>
  BY <1>1, EmptySeq
<1> HIDE DEF ss, fs
<1>9. Ended(fs, ss)
  <2> SUFFICES ASSUME NEW k \in 1 .. f
               PROVE  /\ k + fs[k].size <= f + 1
                      /\ \A r \in 1 .. last : k <= ss[r].index => k + fs[k].size <= ss[r].index + 1
    BY <1>1, <1>6 DEF Ended
  <2>1. CASE k \in 1 .. Len(es)
    <3>1. fs[k] = es[k] /\ es[k].size \in Nat /\ k + es[k].size <= Len(es) + 1
      BY <2>1, <1>3, <1>4, <1>6 DEF Ended
    <3>2. \A r \in 1 .. Len(rs) : k <= ss[r].index => k + fs[k].size <= ss[r].index + 1
      BY <2>1, <3>1, <1>1, <1>4 DEF Ended
    <3>3. k + fs[k].size <= ss[last].index + 1
      BY <3>1, <1>1
    <3> QED  BY <3>1, <3>2, <3>3, <1>2, <1>3
  <2>2. CASE k = f
    <3>1. \A r \in 1 .. last : ss[r].index \in Nat /\ ss[r].index <= Len(es)
      BY <1>1, <1>2, <1>3, <1>5
    <3>2. fs[k].size = 0
      BY <2>2, <1>6
    <3> QED  BY <3>1, <3>2, <2>2, <1>3
  <2> QED  BY <2>1, <2>2, <1>3
<1>10. NodesBegun(fs)
  <2> SUFFICES ASSUME NEW k \in 2 .. f, fs[k].size > 1  PROVE Begun(fs, k, k + fs[k].size - 1)
    BY <1>6 DEF NodesBegun
  <2>1. k \in 2 .. Len(es)
    <3>1. k # f
      BY <1>6
    <3> QED  BY <3>1, <1>3
  <2>2. fs[k] = es[k] /\ es[k].size \in Nat /\ k + es[k].size <= Len(es) + 1
    BY <2>1, <1>3, <1>4, <1>6 DEF Ended
  <2>3. Begun(es, k, k + es[k].size - 1)
    BY <2>1, <2>2, <1>4 DEF NodesBegun
  <2>4. \A l \in k .. k + es[k].size - 1 : fs[l] = es[l]
    <3>1. \A l \in k .. k + es[k].size - 1 : l \in 1 .. Len(es)
      BY <2>1, <2>2, <1>3
    <3> QED  BY <3>1, <1>6
  <2> QED  BY <2>2, <2>3, <2>4 DEF Begun
<1>11. Nested(fs, ss)
  <2>1. ss[1].what = "node" /\ ss[1].index = 0
    BY <1>1, <1>4 DEF Nested
  <2> SUFFICES ASSUME NEW r \in 1 .. last
               PROVE  /\ ss[r].index <= f
                      /\ ss[r].what = "node" => ss[r].index < f /\ ~IsLeaf(fs[ss[r].index + 1])
                      /\ \A q \in 1 .. r - 1 :
                           /\ ss[q].index <= ss[r].index
                           /\ ss[q].what = "node" => ss[q].index < ss[r].index
    BY <1>1, <1>6, <2>1 DEF Nested
  <2>2. CASE r \in 1 .. Len(rs)
    <3>1. ss[r] = rs[r] /\ \A q \in 1 .. r - 1 : ss[q] = rs[q]
      BY <1>1, <2>2
    <3>2. ss[r].index < f
      BY <3>1, <2>2, <1>3, <1>5
    <3>3. rs[r].index < Len(es) => fs[rs[r].index + 1] = es[rs[r].index + 1]
      BY <2>2, <1>3, <1>5, <1>6
    <3> QED  BY <3>1, <3>2, <3>3, <2>2, <1>3, <1>4, <1>5 DEF Nested
  <2>3. CASE r = last
    <3>1. ss[r] = rule /\ \A q \in 1 .. r - 1 : ss[q] = rs[q] /\ q \in 1 .. Len(rs)
      BY <1>1, <2>3
    <3>2. ss[r].index = Len(es) /\ ~IsLeaf(fs[ss[r].index + 1])
      BY <3>1, <1>7
    <3> QED  BY <3>1, <3>2, <1>3, <1>4 DEF Nested
  <2> QED  BY <2>2, <2>3, <1>2
<1>12. RulesBegun(fs, ss, TRUE)
  <2> SUFFICES ASSUME NEW r \in 2 .. last,
                      NEW l \in ss[r].index + 1 .. f, IsLeaf(fs[l]), fs[l].kind \in Trivia
               PROVE  \E m \in ss[r].index + 1 .. f : m < l /\ IsLeaf(fs[m])
    BY <1>1, <1>6 DEF RulesBegun, Begun
  <2>1. l # f
    BY <1>7
  <2>2. CASE r \in 2 .. Len(rs)
    <3> DEFINE from == rs[r].index
    <3>1. from \in Nat /\ from <= Len(es) /\ ss[r].index = from
      BY <2>2, <1>1, <1>5
    <3>2. Begun(es, from + 1, Len(es))
      BY <2>2, <1>4 DEF RulesBegun
    <3> HIDE DEF from
    <3>3. l \in from + 1 .. Len(es) /\ fs[l] = es[l]
      BY <3>1, <2>1, <1>3, <1>6
    <3>4. PICK m \in from + 1 .. Len(es) : m < l /\ IsLeaf(es[m])
      BY <3>2, <3>3 DEF Begun
    <3>5. m \in from + 1 .. f /\ fs[m] = es[m]
      BY <3>1, <3>4, <1>3, <1>6
    <3> QED  BY <3>1, <3>4, <3>5
  <2>3. CASE r = last
    BY <2>1, <2>3, <1>1, <1>3
  <2> QED  BY <2>2, <2>3, <1>1
<1>13. ChainsReach(fs, ss)
  <2> SUFFICES ASSUME NEW r \in 1 .. last, NEW w \in 1 .. Len(ss[r].wraps)
               PROVE  Reaches(fs, ss[r], w)
    BY <1>1 DEF ChainsReach
  <2>1. CASE r \in 1 .. Len(rs)
    <3>1. ss[r] = rs[r] /\ Reaches(es, rs[r], w)
      BY <2>1, <1>1, <1>4 DEF ChainsReach
    <3>2. \A end \in rs[r].index .. Len(es) : end \in rs[r].index .. Len(fs)
      BY <2>1, <1>3, <1>5, <1>6
    <3> QED  BY <3>1, <3>2 DEF Reaches
  <2>2. CASE r = last
    <3>1. Len(ss[r].wraps) = 0
      BY <2>2, <1>1, EmptySeq
    <3> QED  BY <3>1
  <2> QED  BY <2>1, <2>2, <1>2
<1> QED  BY <1>9, <1>10, <1>11, <1>12, <1>13 DEF Shape, ss, fs

\* A node that is finished reaches to where the array ends.
IsFilled(fs, es, at) ==
  /\ Len(fs) = Len(es)
  /\ \A k \in 1 .. Len(es) : fs[k].kind = es[k].kind /\ (k # at + 1 => fs[k] = es[k])
  /\ fs[at + 1].size = Len(es) - at

LEMMA FillKeeps ==
  ASSUME NEW W, NEW es \in Seq(Element(W)), NEW rs \in Seq(Rule(W)), rs # <<>>,
         NEW fs \in Seq(Element(W)), NEW quiet \in BOOLEAN,
         Shape(es, rs, quiet), rs[Len(rs)].what = "node",
         IsFilled(fs, es, rs[Len(rs)].index)
  PROVE  Shape(fs, rs, quiet)
<1> DEFINE e == Len(es)
<1> DEFINE last == Len(rs)
<1>1. e \in Nat /\ last \in Nat /\ last # 0 /\ Len(fs) = e
  BY LenProperties, EmptySeq DEF IsFilled
<1>2. \A r \in 1 .. last : rs[r].index \in Nat
  BY RulesAre
<1>3. PICK at \in Nat : at = rs[last].index
  BY <1>1, <1>2
<1>4. Ended(es, rs) /\ NodesBegun(es) /\ Nested(es, rs) /\ RulesBegun(es, rs, quiet) /\ ChainsReach(es, rs)
  BY DEF Shape
<1>5. /\ at < e /\ fs[at + 1].size = e - at
      /\ \A k \in 1 .. e : fs[k].kind = es[k].kind /\ (k # at + 1 => fs[k].size = es[k].size)
      /\ \A r \in 1 .. last : rs[r].index <= at
  <2>1. \A r \in 1 .. last : r = last \/ r \in 1 .. last - 1
    BY <1>1
  <2> QED  BY <1>1, <1>3, <1>4, <2>1 DEF Nested, IsFilled
<1>6. \A k \in 1 .. e : es[k].size \in Nat
  BY ElementsAre
<1> HIDE DEF e, last
<1>7. \A k \in 1 .. e : k + es[k].size <= e + 1
  BY <1>4 DEF Ended, e
<1>8. \A from \in Nat, to \in Nat : from >= 1 /\ to <= e /\ Begun(es, from, to) => Begun(fs, from, to)
  <2> SUFFICES ASSUME NEW from \in Nat, NEW to \in Nat, from >= 1, to <= e, Begun(es, from, to)
               PROVE  Begun(fs, from, to)
    OBVIOUS
  <2>1. \A k \in from .. to : fs[k].kind = es[k].kind
    BY <1>5, <1>1
  <2> QED  BY <2>1 DEF Begun, IsLeaf
<1>9. \A from \in Nat : from >= 1 /\ HasLeaf(es, from, e) => HasLeaf(fs, from, e)
  <2> SUFFICES ASSUME NEW from \in Nat, from >= 1, HasLeaf(es, from, e)
               PROVE  HasLeaf(fs, from, e)
    OBVIOUS
  <2>1. \A k \in from .. e : fs[k].kind = es[k].kind
    BY <1>5, <1>1
  <2> QED  BY <2>1 DEF HasLeaf, IsLeaf
<1>10. Ended(fs, rs)
  <2> SUFFICES ASSUME NEW k \in 1 .. e
               PROVE  /\ k + fs[k].size <= e + 1
                      /\ \A r \in 1 .. last : k <= rs[r].index => k + fs[k].size <= rs[r].index + 1
    BY <1>1 DEF Ended, last
  <2>1. CASE k = at + 1
    <3>1. \A r \in 1 .. last : ~(k <= rs[r].index)
      BY <2>1, <1>2, <1>5
    <3> QED  BY <3>1, <2>1, <1>1, <1>5
  <2>2. CASE k # at + 1
    <3>1. fs[k].size = es[k].size
      BY <2>2, <1>5
    <3> QED  BY <3>1, <1>4 DEF Ended, e, last
  <2> QED  BY <2>1, <2>2
<1>11. NodesBegun(fs)
  <2> SUFFICES ASSUME NEW k \in 2 .. e, fs[k].size > 1  PROVE Begun(fs, k, k + fs[k].size - 1)
    BY <1>1 DEF NodesBegun
  <2>1. CASE k = at + 1
    <3>1. last \in 2 .. last
      <4>1. last # 1
        BY <2>1, <1>3, <1>4 DEF Nested, last
      <4> QED  BY <4>1, <1>1
    <3>2. Begun(es, at + 1, e)
      BY <3>1, <1>3, <1>4 DEF RulesBegun, e, last
    <3>3. Begun(fs, at + 1, e)
      <4>1. at + 1 \in Nat /\ at + 1 >= 1 /\ e \in Nat /\ e <= e
        BY <1>1
      <4> QED  BY <4>1, <3>2, <1>8
    <3>4. k + fs[k].size - 1 = e
      BY <2>1, <1>1, <1>5
    <3> QED  BY <3>3, <3>4, <2>1
  <2>2. CASE k # at + 1
    <3>1. fs[k].size = es[k].size /\ k \in 1 .. e
      BY <2>2, <1>5
    <3>2. Begun(es, k, k + es[k].size - 1)
      BY <3>1, <1>4 DEF NodesBegun, e
    <3>3. k \in Nat /\ k >= 1 /\ k + es[k].size - 1 \in Nat /\ k + es[k].size - 1 <= e
      BY <3>1, <1>6, <1>7, <1>1
    <3> QED  BY <3>1, <3>2, <3>3, <1>8
  <2> QED  BY <2>1, <2>2
<1>12. Nested(fs, rs)
  <2>1. ASSUME NEW r \in 1 .. last, rs[r].index < e, ~IsLeaf(es[rs[r].index + 1])
        PROVE  ~IsLeaf(fs[rs[r].index + 1])
    <3>1. PICK x \in Nat : x = rs[r].index /\ x < e
      BY <2>1, <1>2
    <3>2. fs[x + 1].kind = es[x + 1].kind
      BY <3>1, <1>1, <1>5
    <3> QED  BY <3>1, <3>2, <2>1 DEF IsLeaf
  <2> QED  BY <2>1, <1>1, <1>4 DEF Nested, e, last
<1>13. RulesBegun(fs, rs, quiet)
  <2> SUFFICES ASSUME NEW r \in 2 .. last
               PROVE  /\ Begun(fs, rs[r].index + 1, e)
                      /\ quiet \/ HasLeaf(fs, rs[r].index + 1, e)
    BY <1>1 DEF RulesBegun, last
  <2>1. rs[r].index + 1 \in Nat /\ rs[r].index + 1 >= 1
    BY <1>2
  <2>2. Begun(es, rs[r].index + 1, e) /\ (quiet \/ HasLeaf(es, rs[r].index + 1, e))
    BY <1>4 DEF RulesBegun, e, last
  <2> QED  BY <2>1, <2>2, <1>1, <1>8, <1>9
<1>14. ChainsReach(fs, rs)
  BY <1>1, <1>4 DEF ChainsReach, Reaches, e
<1> QED  BY <1>10, <1>11, <1>12, <1>13, <1>14 DEF Shape

\* A wrapper is recorded: it reaches to where the array ends now.
IsRecorded(recorded, es, rs, wrap) ==
  /\ wrap.size = Len(es) - rs[Len(rs)].index + Len(rs[Len(rs)].wraps) + 1
  /\ recorded = [rs EXCEPT ![Len(rs)].wraps = Append(rs[Len(rs)].wraps, wrap)]

LEMMA RecordKeeps ==
  ASSUME NEW W, NEW es \in Seq(Element(W)), NEW rs \in Seq(Rule(W)), rs # <<>>, NEW quiet \in BOOLEAN,
         Shape(es, rs, quiet), NEW wrap \in Element(W), wrap.kind \in NodeKind,
         NEW recorded, IsRecorded(recorded, es, rs, wrap)
  PROVE  recorded \in Seq(Rule(W)) /\ Shape(es, recorded, quiet)
<1> DEFINE last == Len(rs)
<1> DEFINE wraps == Append(rs[last].wraps, wrap)
<1> DEFINE ss == [rs EXCEPT ![last].wraps = wraps]
<1>1. last \in Nat /\ last # 0 /\ last \in 1 .. last
  BY LenProperties, EmptySeq
<1>2. \A r \in 1 .. last : rs[r] \in Rule(W) /\ rs[r].index \in Nat /\ rs[r].wraps \in Seq(Element(W))
  BY RulesAre
<1>3. rs \in [1 .. last -> Rule(W)]
  BY LenProperties
<1>4. PICK old \in Seq(Element(W)) : old = rs[last].wraps
  BY <1>1, <1>2
<1>5. /\ wraps \in Seq(Element(W)) /\ Len(old) \in Nat /\ Len(wraps) = Len(old) + 1
      /\ wraps[Len(old) + 1] = wrap /\ \A k \in 1 .. Len(old) : wraps[k] = old[k]
  BY <1>4, AppendedIs
<1> HIDE DEF last, wraps
<1>6. [rs[last] EXCEPT !.wraps = wraps] \in Rule(W)
  <2>1. rs[last] \in Rule(W)
    BY <1>1, <1>2
  <2> QED  BY <2>1, <1>5 DEF Rule
<1>7. ss \in [1 .. last -> Rule(W)]
  BY <1>1, <1>3, <1>6
<1>8. ss \in Seq(Rule(W)) /\ Len(ss) = last
  BY <1>1, <1>7
<1>9. \A r \in 1 .. last :
        /\ ss[r].what = rs[r].what /\ ss[r].index = rs[r].index
        /\ ss[r].wraps = IF r = last THEN wraps ELSE rs[r].wraps
  <2>1. \A r \in Rule(W) : [r EXCEPT !.wraps = wraps].what = r.what /\ [r EXCEPT !.wraps = wraps].index = r.index
                          /\ [r EXCEPT !.wraps = wraps].wraps = wraps
    BY DEF Rule
  <2>2. /\ \A r \in 1 .. last : r # last => ss[r] = rs[r]
        /\ ss[last] = [rs[last] EXCEPT !.wraps = wraps] /\ rs[last] \in Rule(W)
    BY <1>1, <1>2, <1>3
  <2> HIDE DEF ss
  <2>3. ss[last].what = rs[last].what /\ ss[last].index = rs[last].index /\ ss[last].wraps = wraps
    BY <2>1, <2>2
  <2> QED  BY <2>2, <2>3
<1> HIDE DEF ss
<1>10. Ended(es, rs) /\ NodesBegun(es) /\ Nested(es, rs) /\ RulesBegun(es, rs, quiet) /\ ChainsReach(es, rs)
  BY DEF Shape
<1>11. Ended(es, ss)
  BY <1>8, <1>9, <1>10 DEF Ended, last
<1>12. Nested(es, ss)
  <2>1. 1 \in 1 .. last /\ \A r \in 1 .. last : \A q \in 1 .. r - 1 : q \in 1 .. last
    BY <1>1
  <2> QED  BY <2>1, <1>8, <1>9, <1>10 DEF Nested, last
<1>13. RulesBegun(es, ss, quiet)
  <2>1. \A r \in 2 .. last : r \in 1 .. last
    BY <1>1
  <2> QED  BY <2>1, <1>8, <1>9, <1>10 DEF RulesBegun, last
<1>14. ChainsReach(es, ss)
  <2> SUFFICES ASSUME NEW r \in 1 .. last, NEW w \in 1 .. Len(ss[r].wraps)
               PROVE  Reaches(es, ss[r], w)
    BY <1>8 DEF ChainsReach
  <2>1. CASE r # last
    <3>1. ss[r].wraps = rs[r].wraps /\ ss[r].index = rs[r].index
      BY <2>1, <1>9
    <3>2. Reaches(es, rs[r], w)
      BY <3>1, <1>10 DEF ChainsReach, last
    <3> QED  BY <3>1, <3>2 DEF Reaches
  <2>2. CASE r = last /\ w \in 1 .. Len(old)
    <3>1. ss[r].wraps[w] = rs[r].wraps[w] /\ ss[r].index = rs[r].index
      BY <2>2, <1>4, <1>5, <1>9
    <3>2. Reaches(es, rs[r], w)
      BY <2>2, <1>4, <1>10 DEF ChainsReach, last
    <3> QED  BY <3>1, <3>2 DEF Reaches
  <2>3. CASE r = last /\ w = Len(old) + 1
    <3>1. ss[r].wraps[w] = wrap
      BY <2>3, <1>5, <1>9
    <3>2. PICK at \in Nat : at = ss[r].index /\ at = rs[last].index
      BY <2>3, <1>1, <1>2, <1>9
    <3>3. at <= Len(es) /\ Len(es) \in Nat
      BY <3>2, <1>1, <1>10, LenProperties DEF Nested, last
    <3>4. wrap.size = Len(es) - at + w
      <4>1. wrap.size = Len(es) - at + Len(old) + 1
        BY <3>2, <1>4 DEF last, IsRecorded
      <4> QED  BY <4>1, <3>3, <2>3, <1>5
    <3>5. Len(es) \in at .. Len(es)
      BY <3>3
    <3> QED  BY <3>1, <3>2, <3>4, <3>5 DEF Reaches
  <2>4. Len(ss[last].wraps) = Len(old) + 1
    BY <1>1, <1>5, <1>9
  <2> QED  BY <2>1, <2>2, <2>3, <2>4, <1>5
<1> QED  BY <1>8, <1>10, <1>11, <1>12, <1>13, <1>14 DEF Shape, IsRecorded, ss, wraps, last

-------------------------------------------------------------------------------
LEMMA Grows ==
  ASSUME NEW W, NEW V, W \subseteq V
  PROVE  /\ \A es \in Seq(Element(W)) : es \in Seq(Element(V))
         /\ \A rs \in Seq(Rule(W)) : rs \in Seq(Rule(V))
<1>1. Element(W) \subseteq Element(V)
  BY DEF Element
<1>2. \A es \in Seq(Element(W)) : es \in Seq(Element(V))
  BY <1>1, SeqMonotonic
<1>3. Rule(W) \subseteq Rule(V)
  BY <1>2 DEF Rule
<1>4. \A rs \in Seq(Rule(W)) : rs \in Seq(Rule(V))
  BY <1>3, SeqMonotonic
<1> QED  BY <1>2, <1>4

LEMMA ClosedIs ==
  ASSUME NEW W, NEW es \in Seq(Element(W)), NEW node, NEW to,
         node.index \in Nat, node.index < Len(es), to - node.from \in W
  PROVE  /\ Parser!ClosedIn(es, node, to) \in Seq(Element(W))
         /\ IsFilled(Parser!ClosedIn(es, node, to), es, node.index)
         /\ Parser!ClosedIn(es, node, to)[node.index + 1].width = to - node.from
<1> DEFINE e == Len(es)
<1> DEFINE width == to - node.from
<1>1. PICK at \in Nat : at = node.index
  OBVIOUS
<1>2. e \in Nat /\ at < e /\ at + 1 \in 1 .. e /\ e - at \in Nat
  BY <1>1, LenProperties
<1>3. es \in [1 .. e -> Element(W)]
  BY LenProperties
<1> DEFINE full == [[es[at + 1] EXCEPT !.width = width] EXCEPT !.size = e - at]
<1> DEFINE fs == [es EXCEPT ![at + 1] = full]
<1>4. width \in W
  OBVIOUS
<1> HIDE DEF width, e
<1>5. es[at + 1] \in Element(W)
  BY <1>2, <1>3
<1>6. full \in Element(W) /\ full.kind = es[at + 1].kind /\ full.size = e - at /\ full.width = width
  BY <1>2, <1>4, <1>5 DEF Element
<1> HIDE DEF full
<1>7. fs \in [1 .. e -> Element(W)]
  BY <1>2, <1>3, <1>6
<1>8. fs \in Seq(Element(W)) /\ Len(fs) = e
  BY <1>2, <1>7
<1>9. IsFilled(fs, es, at) /\ fs[at + 1].width = width
  <2>1. fs[at + 1] = full /\ \A k \in 1 .. e : k # at + 1 => fs[k] = es[k]
    BY <1>2, <1>3
  <2> HIDE DEF fs
  <2> QED  BY <2>1, <1>6, <1>8 DEF IsFilled, e
<1>10. Parser!ClosedIn(es, node, to) = fs
  <2>1. Parser!ClosedIn(es, node, to) =
          [[es EXCEPT ![at + 1].width = width] EXCEPT ![at + 1].size = e - at]
    BY <1>1 DEF Parser!ClosedIn, width, e
  <2>2. [[es EXCEPT ![at + 1].width = width] EXCEPT ![at + 1].size = e - at] = fs
    BY <1>2, <1>3 DEF full
  <2> QED  BY <2>1, <2>2
<1> QED  BY <1>1, <1>8, <1>9, <1>10 DEF width

-------------------------------------------------------------------------------
TreeToken == [kind : Kinds, width : Nat]

Streaming == stream \in Seq(TreeToken) /\ index \in 0 .. Len(stream)

LEMMA StreamIs ==
  ASSUME Streaming
  PROVE  /\ Len(stream) \in Nat /\ index \in Nat
         /\ \A k \in 1 .. Len(stream) :
              stream[k].kind \in Kinds /\ stream[k].kind \notin NodeKind /\ stream[k].width \in Nat
<1>1. Len(stream) \in Nat /\ index \in Nat
  BY LenProperties DEF Streaming
<1>2. \A k \in 1 .. Len(stream) : stream[k] \in TreeToken
  BY ElementOfSeq DEF Streaming
<1>3. \A t \in TreeToken : t.kind \in Kinds /\ t.width \in Nat
  BY DEF TreeToken
<1> QED  BY <1>1, <1>2, <1>3, NodeKindsAssumption DEF NodeKind

\* _peek: from `from`, the next token that is not trivia, or the end.
NextReal(from, k) ==
  /\ k \in from .. Len(stream)
  /\ k = Len(stream) \/ stream[k + 1].kind \notin Trivia
  /\ \A l \in from .. k - 1 : stream[l + 1].kind \in Trivia

LEMMA PeekIs ==
  ASSUME Streaming, NEW from \in 0 .. Len(stream)
  PROVE  NextReal(from, Parser!Peek(from)) /\ \A k : NextReal(from, k) => k = Parser!Peek(from)
<1> DEFINE m == Len(stream)
<1>1. m \in Nat /\ from \in Nat /\ from <= m
  BY StreamIs
<1> HIDE DEF m
<1> DEFINE S == {k \in from .. m : k = m \/ stream[k + 1].kind \notin Trivia}
<1>2. S \in SUBSET Nat /\ m \in S
  BY <1>1
<1> DEFINE least == Least(S)
<1>3. least \in S /\ \A y \in S : least <= y
  BY <1>2, LeastIsLeast
<1> HIDE DEF least
<1>4. NextReal(from, least)
  <2>1. \A l \in from .. least - 1 : l \in from .. m /\ ~(least <= l)
    BY <1>1, <1>3
  <2> QED  BY <2>1, <1>1, <1>3 DEF NextReal, m
<1>5. Parser!Peek(from) = CHOOSE k \in from .. m : NextReal(from, k)
  BY DEF Parser!Peek, NextReal, m
<1>6. least \in from .. m
  BY <1>3
<1>7. NextReal(from, Parser!Peek(from))
  BY <1>4, <1>5, <1>6
<1>8. \A k, l : NextReal(from, k) /\ NextReal(from, l) => ~(k < l)
  <2> SUFFICES ASSUME NEW k, NEW l, NextReal(from, k), NextReal(from, l), k < l  PROVE FALSE
    OBVIOUS
  <2>1. k \in from .. m /\ l \in from .. m
    BY DEF NextReal, m
  <2>2. k \in from .. l - 1 /\ k # m
    BY <2>1, <1>1
  <2> QED  BY <2>2 DEF NextReal, m
<1>9. \A k, l : NextReal(from, k) /\ NextReal(from, l) => k = l
  <2> SUFFICES ASSUME NEW k, NEW l, NextReal(from, k), NextReal(from, l)  PROVE k = l
    OBVIOUS
  <2>1. k \in from .. m /\ l \in from .. m
    BY DEF NextReal, m
  <2>2. ~(k < l) /\ ~(l < k)
    BY <1>8
  <2> QED  BY <2>1, <2>2, <1>1
<1> QED  BY <1>7, <1>9

LEMMA FlushedIs ==
  ASSUME Streaming
  PROVE  /\ Parser!Flushed \in index .. Len(stream) /\ Quiet(stream, Parser!Flushed)
         /\ Parser!Bumped \in Parser!Flushed .. Len(stream)
<1>1. Len(stream) \in Nat /\ index \in 0 .. Len(stream)
  BY StreamIs DEF Streaming
<1>2. NextReal(index, Parser!Flushed)
  BY <1>1, PeekIs DEF Parser!Flushed
<1> QED  BY <1>1, <1>2 DEF NextReal, Quiet, Parser!Bumped

LEMMA RecoveredIs ==
  ASSUME Streaming, NEW resync
  PROVE  Parser!RecoveredTo(resync) \in Parser!Bumped .. Len(stream)
<1> DEFINE m == Len(stream)
<1> DEFINE b == Parser!Bumped
<1> DEFINE last == resync \cup {"TkEof"}
<1>1. m \in Nat /\ b \in 0 .. m
  BY StreamIs, FlushedIs
<1> HIDE DEF b, m, last
<1> DEFINE S == {k \in b .. m : Parser!At(k) \in last}
<1>2. m \in S
  <2>1. NextReal(m, m)
    BY <1>1 DEF NextReal, m
  <2>2. Parser!Peek(m) = m
    BY <2>1, <1>1, PeekIs DEF m
  <2> QED  BY <2>2, <1>1 DEF Parser!At, m, last
<1>3. S \in SUBSET Nat
  BY <1>1
<1> DEFINE least == Least(S)
<1>4. least \in S /\ \A y \in S : least <= y
  BY <1>2, <1>3, LeastIsLeast
<1> HIDE DEF least
<1>5. \A l \in b .. least - 1 : Parser!At(l) \notin last
  <2>1. \A l \in b .. least - 1 : l \in b .. m /\ ~(least <= l)
    BY <1>1, <1>4
  <2> QED  BY <2>1, <1>4
<1>6. least = b \/ stream[least].kind \notin Trivia
  <2> SUFFICES ASSUME least # b, stream[least].kind \in Trivia  PROVE FALSE
    OBVIOUS
  <2> DEFINE before == least - 1
  <2>1. before \in b .. least - 1 /\ before \in 0 .. m /\ before + 1 = least /\ least \in 0 .. m
    BY <1>1, <1>4
  <2> HIDE DEF before
  <2>2. NextReal(least, Parser!Peek(least))
    BY <2>1, PeekIs DEF m
  <2>3. NextReal(before, Parser!Peek(least))
    <3> DEFINE p == Parser!Peek(least)
    <3>1. p \in least .. m
      BY <2>2 DEF NextReal, m
    <3>2. p = m \/ stream[p + 1].kind \notin Trivia
      BY <2>2 DEF NextReal, m
    <3>3. \A l \in least .. p - 1 : stream[l + 1].kind \in Trivia
      BY <2>2 DEF NextReal
    <3> HIDE DEF p
    <3>4. \A l \in before .. p - 1 : l = before \/ l \in least .. p - 1
      BY <2>1, <3>1, <1>1
    <3>5. stream[before + 1].kind \in Trivia
      BY <2>1
    <3>6. p \in before .. m
      BY <2>1, <3>1, <1>1
    <3> QED  BY <3>2, <3>3, <3>4, <3>5, <3>6 DEF NextReal, p, m
  <2>4. Parser!Peek(least) = Parser!Peek(before)
    BY <2>1, <2>3, PeekIs DEF m
  <2>5. Parser!At(before) = Parser!At(least)
    BY <2>4 DEF Parser!At
  <2> QED  BY <2>1, <2>5, <1>4, <1>5
<1>7. least \in b .. m /\ Parser!At(least) \in last
  BY <1>4
<1>8. Parser!RecoveredTo(resync) =
        CHOOSE k \in b .. m :
          /\ Parser!At(k) \in last
          /\ k = b \/ stream[k].kind \notin Trivia
          /\ \A l \in b .. k - 1 : Parser!At(l) \notin last
  BY DEF Parser!RecoveredTo, b, m, last
<1> QED  BY <1>5, <1>6, <1>7, <1>8 DEF b, m

-------------------------------------------------------------------------------
\* The tree at a step of the parse: widths are of some set, which grows.
Grown(W) ==
  /\ Nat \subseteq W
  /\ elems \in Seq(Element(W)) /\ rules \in Seq(Rule(W))
  /\ Shape(elems, rules, Quiet(stream, index))

TreeInv == Streaming /\ (elems = <<>> => index = 0) /\ \E W : Grown(W)

\* What a step has to show of the next state.
Keeps(V, st, ix, es, rs) ==
  /\ st = stream /\ ix \in index .. Len(stream) /\ es # <<>>
  /\ Nat \subseteq V
  /\ es \in Seq(Element(V)) /\ rs \in Seq(Rule(V))
  /\ Shape(es, rs, Quiet(st, ix))

LEMMA KeepsTree ==
  ASSUME Streaming, NEW V, Keeps(V, stream', index', elems', rules')
  PROVE  TreeInv'
<1>1. /\ stream' \in Seq(TreeToken) /\ index' \in 0 .. Len(stream')
  BY StreamIs DEF Streaming, Keeps
<1>2. Grown(V)'
  BY DEF Grown, Keeps
<1> QED  BY <1>1, <1>2 DEF TreeInv, Streaming, Keeps

LEMMA RunningIs ==
  ASSUME NEW W, Grown(W), Parser!Running
  PROVE  /\ elems # <<>> /\ rules # <<>> /\ Len(rules) \in Nat /\ Len(rules) # 0
         /\ Parser!Top = rules[Len(rules)] /\ Parser!Top \in Rule(W)
         /\ Parser!Top.index \in Nat /\ Parser!Top.index <= Len(elems)
         /\ Parser!Top.what = "node" => Parser!Top.index < Len(elems) /\ ~IsLeaf(elems[Parser!Top.index + 1])
         /\ Parser!Top.what # "node" => Parser!Top.index # 0 /\ Len(rules) > 1
<1>1. rules # <<>> /\ Len(rules) \in Nat /\ Len(rules) # 0 /\ Parser!Top = rules[Len(rules)]
  BY EmptySeq, LenProperties DEF Grown, Parser!Running, Parser!Top
<1>2. Nested(elems, rules)
  BY DEF Grown, Shape
<1>3. rules \in Seq(Rule(W)) /\ elems \in Seq(Element(W))
  BY DEF Grown
<1>4. 1 \in 1 .. Len(rules) /\ Len(rules) \in 1 .. Len(rules)
  BY <1>1
<1>5. \A r \in 1 .. Len(rules) : rules[r] \in Rule(W) /\ rules[r].index \in Nat
  BY <1>3, RulesAre
<1>6. rules[1].what = "node" /\ rules[1].index = 0 /\ rules[1].index < Len(elems)
  BY <1>1, <1>2, <1>4 DEF Nested
<1>7. elems # <<>>
  BY <1>6, EmptySeq
<1>8. Parser!Top.what # "node" => Parser!Top.index # 0 /\ Len(rules) > 1
  <2> SUFFICES ASSUME Parser!Top.what # "node"  PROVE Parser!Top.index # 0 /\ Len(rules) > 1
    OBVIOUS
  <2>1. Len(rules) # 1
    BY <1>1, <1>6
  <2>2. 1 \in 1 .. Len(rules) - 1
    BY <2>1, <1>1
  <2> QED  BY <2>1, <2>2, <1>1, <1>2, <1>4, <1>6 DEF Nested
<1> QED  BY <1>1, <1>2, <1>4, <1>5, <1>7, <1>8 DEF Nested

\* The tokens of the stream from one index to another, as leaves.
LeavesOf(from, to) == [k \in 1 .. to - from |-> Parser!Leaf(stream[from + k])]

LEMMA LeavesAre ==
  ASSUME Streaming, NEW W, Nat \subseteq W, NEW from \in 0 .. Len(stream), NEW to \in from .. Len(stream)
  PROVE  /\ LeavesOf(from, to) \in Seq(Element(W)) /\ AreLeaves(LeavesOf(from, to))
         /\ Len(LeavesOf(from, to)) = to - from
         /\ from < to => LeavesOf(from, to)[1].kind = stream[from + 1].kind
<1> DEFINE d == to - from
<1>1. d \in Nat /\ Len(stream) \in Nat
  BY StreamIs
<1>2. \A k \in 1 .. d : from + k \in 1 .. Len(stream)
  BY <1>1
<1>3. \A k \in 1 .. d : LET leaf == Parser!Leaf(stream[from + k])
                       IN leaf \in Element(W) /\ IsLeaf(leaf) /\ leaf.size = 1 /\ leaf.kind = stream[from + k].kind
  <2> SUFFICES ASSUME NEW k \in 1 .. d
               PROVE  LET leaf == Parser!Leaf(stream[from + k])
                      IN leaf \in Element(W) /\ IsLeaf(leaf) /\ leaf.size = 1 /\ leaf.kind = stream[from + k].kind
    OBVIOUS
  <2>1. /\ stream[from + k].kind \in Kinds /\ stream[from + k].kind \notin NodeKind
        /\ stream[from + k].width \in W
    BY <1>2, StreamIs
  <2> QED  BY <2>1 DEF Parser!Leaf, Element, IsLeaf
<1> DEFINE ls == [k \in 1 .. d |-> Parser!Leaf(stream[from + k])]
<1>4. ls \in [1 .. d -> Element(W)]
  BY <1>3
<1>5. ls \in Seq(Element(W)) /\ Len(ls) = d
  BY <1>1, <1>4
<1>6. \A k \in 1 .. d : ls[k] = Parser!Leaf(stream[from + k])
  OBVIOUS
<1> HIDE DEF ls
<1>7. AreLeaves(ls)
  BY <1>3, <1>5, <1>6 DEF AreLeaves
<1>8. from < to => 1 \in 1 .. d
  BY <1>1
<1>9. from < to => ls[1].kind = stream[from + 1].kind
  BY <1>3, <1>6, <1>8
<1> QED  BY <1>5, <1>7, <1>9 DEF LeavesOf, ls

LEMMA EmittedIs ==
  ASSUME Streaming, NEW W, Grown(W), elems # <<>>, NEW to \in index .. Len(stream)
  PROVE  /\ Parser!Emitted(to) = elems \o LeavesOf(index, to)
         /\ Parser!Emitted(to) \in Seq(Element(W)) /\ Parser!Emitted(to) # <<>>
         /\ Len(Parser!Emitted(to)) = Len(elems) + (to - index)
         /\ Shape(Parser!Emitted(to), rules, Quiet(stream, to))
<1> DEFINE ls == LeavesOf(index, to)
<1> DEFINE quiet == Quiet(stream, index)
<1> DEFINE later == Quiet(stream, to)
<1>1. Parser!Emitted(to) = elems \o ls
  BY DEF Parser!Emitted, LeavesOf
<1>2. index \in 0 .. Len(stream) /\ Nat \subseteq W /\ elems \in Seq(Element(W)) /\ rules \in Seq(Rule(W))
  BY DEF Streaming, Grown
<1>3. /\ ls \in Seq(Element(W)) /\ AreLeaves(ls) /\ Len(ls) = to - index
      /\ index < to => ls[1].kind = stream[index + 1].kind
  BY <1>2, LeavesAre
<1>4. Len(stream) \in Nat
  BY StreamIs
<1> HIDE DEF ls
<1>5. ls # <<>> => index < to
  BY <1>2, <1>3, <1>4, EmptySeq
<1>6. ls = <<>> => index = to
  <2>1. ls = <<>> => Len(ls) = 0
    BY EmptySeq
  <2> QED  BY <2>1, <1>2, <1>3, <1>4
<1>7. ls # <<>> /\ quiet => ls[1].kind \notin Trivia
  BY <1>2, <1>3, <1>4, <1>5 DEF Quiet
<1>8. ls = <<>> /\ quiet => later
  BY <1>6
<1>9. quiet \in BOOLEAN /\ later \in BOOLEAN /\ Shape(elems, rules, quiet)
  BY DEF Quiet, Grown
<1> HIDE DEF quiet, later
<1>10. Shape(elems \o ls, rules, later)
  BY <1>2, <1>3, <1>7, <1>8, <1>9, EmitKeeps
<1>11. elems \o ls \in Seq(Element(W)) /\ Len(elems \o ls) = Len(elems) + Len(ls)
  BY <1>2, <1>3, ConcatProperties
<1>12. elems \o ls # <<>>
  BY <1>2, <1>3, ConcatEqualIffEmpty
<1> QED  BY <1>1, <1>3, <1>10, <1>11, <1>12 DEF ls, later

LEMMA GrowsTree ==
  ASSUME NEW W, NEW V, Grown(W), W \subseteq V
  PROVE  Grown(V)
  BY Grows DEF Grown

LEMMA StartTree ==
  ASSUME TreeInv, NEW kind \in NodeKinds, Parser!Start(kind)
  PROVE  TreeInv'
<1>1. PICK W : Grown(W)
  BY DEF TreeInv
<1> DEFINE V == W \cup {offset'}
<1> DEFINE to == Parser!Flushed
<1> DEFINE es == Parser!Emitted(to)
<1> DEFINE node == Parser!Wrapper(kind, 0, 0)
<1> DEFINE rule == Parser!Held("node", Len(es), offset')
<1>2. Streaming /\ Grown(V) /\ Parser!Running
  BY <1>1, GrowsTree DEF TreeInv, Parser!Start
<1>3. to \in index .. Len(stream) /\ Quiet(stream, to)
  BY <1>2, FlushedIs
<1>4. elems # <<>> /\ rules # <<>> /\ Nat \subseteq V /\ rules \in Seq(Rule(V)) /\ offset' \in V
  BY <1>2, RunningIs DEF Grown
<1>5. /\ index' = to /\ elems' = Append(es, node) /\ rules' = Append(rules, rule) /\ stream' = stream
  BY DEF Parser!Start, Parser!Emit
<1> HIDE DEF V
<1>6. es \in Seq(Element(V)) /\ Shape(es, rules, Quiet(stream, to)) /\ Len(es) \in Nat
  BY <1>2, <1>3, <1>4, EmittedIs, LenProperties
<1> HIDE DEF es, to
<1>7. Quiet(stream, to) = TRUE
  BY <1>3 DEF Quiet
<1>8. node \in Element(V) /\ node.kind \in NodeKind /\ node.size = 0
  BY <1>4 DEF Element, NodeKind, Parser!Wrapper
<1>9. rule \in Rule(V) /\ rule.index = Len(es) /\ rule.wraps = <<>>
  BY <1>4, <1>6, EmptySeq DEF Rule, Parser!Held
<1> HIDE DEF node, rule
<1>10. Shape(Append(es, node), Append(rules, rule), TRUE)
  <2>1. Shape(es, rules, TRUE)
    BY <1>6, <1>7
  <2> QED  BY <2>1, <1>4, <1>6, <1>8, <1>9, OpenKeeps
<1>11. Append(es, node) \in Seq(Element(V)) /\ Append(rules, rule) \in Seq(Rule(V)) /\ Append(es, node) # <<>>
  <2>1. Append(es, node) \in Seq(Element(V)) /\ Append(rules, rule) \in Seq(Rule(V))
    BY <1>4, <1>6, <1>8, <1>9, AppendedIs
  <2>2. Len(Append(es, node)) # 0
    BY <1>6, <1>8, AppendedIs
  <2> QED  BY <2>1, <2>2, EmptySeq
<1>12. Keeps(V, stream', index', elems', rules')
  BY <1>3, <1>4, <1>5, <1>7, <1>10, <1>11 DEF Keeps
<1> QED  BY <1>2, <1>12, KeepsTree

LEMMA CheckpointTree ==
  ASSUME TreeInv, NEW what \in {"mark", "chain"}, Parser!Checkpoint(what)
  PROVE  TreeInv'
<1>1. PICK W : Grown(W)
  BY DEF TreeInv
<1> DEFINE V == W \cup {offset'}
<1> DEFINE to == Parser!Flushed
<1> DEFINE es == Parser!Emitted(to)
<1> DEFINE rule == Parser!Held(what, Len(es), offset')
<1>2. Streaming /\ Grown(V) /\ Parser!Running
  BY <1>1, GrowsTree DEF TreeInv, Parser!Checkpoint
<1>3. to \in index .. Len(stream) /\ Quiet(stream, to)
  BY <1>2, FlushedIs
<1>4. elems # <<>> /\ rules # <<>> /\ Nat \subseteq V /\ rules \in Seq(Rule(V)) /\ offset' \in V
  BY <1>2, RunningIs DEF Grown
<1>5. /\ index' = to /\ elems' = es /\ rules' = Append(rules, rule) /\ stream' = stream
  BY DEF Parser!Checkpoint, Parser!Emit
<1> HIDE DEF V
<1>6. es \in Seq(Element(V)) /\ Shape(es, rules, Quiet(stream, to)) /\ Len(es) \in Nat /\ es # <<>>
  BY <1>2, <1>3, <1>4, EmittedIs, LenProperties
<1> HIDE DEF es, to
<1>7. Quiet(stream, to) = TRUE
  BY <1>3 DEF Quiet
<1>8. rule \in Rule(V) /\ rule.what # "node" /\ rule.index = Len(es) /\ rule.wraps = <<>>
  BY <1>4, <1>6, EmptySeq DEF Rule, Parser!Held
<1> HIDE DEF rule
<1>9. Shape(es, Append(rules, rule), TRUE)
  <2>1. Shape(es, rules, TRUE)
    BY <1>6, <1>7
  <2> QED  BY <2>1, <1>4, <1>6, <1>8, HoldKeeps
<1>10. Append(rules, rule) \in Seq(Rule(V))
  BY <1>4, <1>8, AppendedIs
<1>11. Keeps(V, stream', index', elems', rules')
  BY <1>3, <1>4, <1>5, <1>6, <1>7, <1>9, <1>10 DEF Keeps
<1> QED  BY <1>2, <1>11, KeepsTree

LEMMA BumpTree ==
  ASSUME TreeInv, Parser!Bump
  PROVE  TreeInv'
<1>1. PICK W : Grown(W)
  BY DEF TreeInv
<1>2. Streaming /\ Parser!Running /\ elems # <<>> /\ Nat \subseteq W /\ rules \in Seq(Rule(W))
  BY <1>1, RunningIs DEF TreeInv, Parser!Bump, Grown
<1>3. Parser!Bumped \in index .. Len(stream)
  BY <1>2, FlushedIs, StreamIs
<1>4. /\ index' = Parser!Bumped /\ elems' = Parser!Emitted(Parser!Bumped) /\ rules' = rules /\ stream' = stream
  BY DEF Parser!Bump, Parser!Emit
<1>5. /\ Parser!Emitted(Parser!Bumped) \in Seq(Element(W)) /\ Parser!Emitted(Parser!Bumped) # <<>>
      /\ Shape(Parser!Emitted(Parser!Bumped), rules, Quiet(stream, Parser!Bumped))
  BY <1>1, <1>2, <1>3, EmittedIs
<1>6. Keeps(W, stream', index', elems', rules')
  BY <1>2, <1>3, <1>4, <1>5 DEF Keeps
<1> QED  BY <1>2, <1>6, KeepsTree

LEMMA ReturnTree ==
  ASSUME TreeInv, Parser!Return
  PROVE  TreeInv'
<1>1. PICK W : Grown(W)
  BY DEF TreeInv
<1>2. /\ Streaming /\ Parser!Running /\ elems # <<>> /\ rules # <<>> /\ Nat \subseteq W
      /\ elems \in Seq(Element(W)) /\ rules \in Seq(Rule(W)) /\ Shape(elems, rules, Quiet(stream, index))
  BY <1>1, RunningIs DEF TreeInv, Parser!Return, Grown
<1>3. /\ index' = index /\ elems' = elems /\ stream' = stream
      /\ rules' = SubSeq(rules, 1, Len(rules) - 1)
  BY DEF Parser!Return, Parser!Below
<1>4. Quiet(stream, index) \in BOOLEAN /\ index \in index .. Len(stream)
  BY <1>2, StreamIs DEF Quiet, Streaming
<1>5. /\ SubSeq(rules, 1, Len(rules) - 1) \in Seq(Rule(W))
      /\ Shape(elems, SubSeq(rules, 1, Len(rules) - 1), Quiet(stream, index))
  BY <1>2, <1>4, PopKeeps
<1>6. Keeps(W, stream', index', elems', rules')
  BY <1>2, <1>3, <1>4, <1>5 DEF Keeps
<1> QED  BY <1>2, <1>6, KeepsTree

LEMMA FinishTree ==
  ASSUME TreeInv, Parser!Finish
  PROVE  TreeInv'
<1>1. PICK W : Grown(W)
  BY DEF TreeInv
<1> DEFINE node == Parser!Top
<1> DEFINE V == W \cup {offset - node.from}
<1> DEFINE fs == Parser!ClosedIn(elems, node, offset)
<1> DEFINE below == SubSeq(rules, 1, Len(rules) - 1)
<1>2. Parser!Running
  <2>1. Len(rules) > 1
    BY DEF Parser!Finish
  <2> QED  BY <2>1, EmptySeq DEF Parser!Running
<1>3. Streaming /\ Grown(V)
  BY <1>1, GrowsTree DEF TreeInv
<1>4. /\ elems # <<>> /\ rules # <<>> /\ Nat \subseteq V /\ elems \in Seq(Element(V)) /\ rules \in Seq(Rule(V))
      /\ Shape(elems, rules, Quiet(stream, index)) /\ node = rules[Len(rules)]
      /\ node.index \in Nat /\ offset - node.from \in V
  BY <1>2, <1>3, RunningIs DEF Grown
<1>5. node.what = "node" /\ node.index < Len(elems)
  BY <1>2, <1>3, RunningIs DEF Parser!Finish
<1>6. /\ index' = index /\ elems' = fs /\ stream' = stream /\ rules' = below
  BY DEF Parser!Finish, Parser!Below
<1> HIDE DEF V, node
<1>7. fs \in Seq(Element(V)) /\ IsFilled(fs, elems, node.index)
  BY <1>4, <1>5, ClosedIs
<1> HIDE DEF fs
<1>8. Quiet(stream, index) \in BOOLEAN /\ index \in index .. Len(stream)
  BY <1>3, StreamIs DEF Quiet, Streaming
<1>9. Shape(fs, rules, Quiet(stream, index))
  BY <1>4, <1>5, <1>7, <1>8, FillKeeps
<1>10. below \in Seq(Rule(V)) /\ Shape(fs, below, Quiet(stream, index))
  BY <1>4, <1>7, <1>8, <1>9, PopKeeps
<1>11. fs # <<>>
  <2>1. Len(fs) = Len(elems) /\ Len(elems) # 0
    BY <1>4, <1>7, EmptySeq DEF IsFilled
  <2> QED  BY <2>1, EmptySeq
<1>12. Keeps(V, stream', index', elems', rules')
  BY <1>4, <1>6, <1>7, <1>8, <1>10, <1>11 DEF Keeps
<1> QED  BY <1>3, <1>12, KeepsTree

LEMMA InsertTree ==
  ASSUME Streaming, NEW W, Grown(W), Parser!Running, Parser!Top.what # "node",
         NEW ws \in Seq(Element(W)), Wraps(elems, Parser!Top.index, ws)
  PROVE  /\ Parser!InsertedAt(Parser!Top.index, ws) \in Seq(Element(W))
         /\ Parser!InsertedAt(Parser!Top.index, ws) # <<>>
         /\ Shape(Parser!InsertedAt(Parser!Top.index, ws), rules, Quiet(stream, index))
<1> DEFINE last == Len(rules)
<1> DEFINE fs == Parser!InsertedAt(Parser!Top.index, ws)
<1>1. PICK at \in Nat : at = Parser!Top.index
  BY RunningIs
<1>2. /\ last \in Nat /\ last > 1 /\ elems # <<>> /\ at # 0 /\ at <= Len(elems) /\ Parser!Top = rules[last]
      /\ elems \in Seq(Element(W)) /\ rules \in Seq(Rule(W)) /\ Shape(elems, rules, Quiet(stream, index))
  BY <1>1, RunningIs DEF Grown
<1>3. Len(elems) \in Nat /\ at \in 1 .. Len(elems) /\ at \in 0 .. Len(elems) /\ last \in 2 .. last
  BY <1>1, <1>2, LenProperties
<1>4. fs = Inserted(elems, at, ws)
  BY <1>1 DEF Parser!InsertedAt, Inserted
<1>5. Begun(elems, at + 1, Len(elems))
  BY <1>1, <1>2, <1>3 DEF Shape, RulesBegun
<1>6. \A k \in 1 .. at : k + elems[k].size <= at + 1
  <2>1. \A k \in 1 .. at : k \in 1 .. Len(elems) /\ k <= at /\ last \in 1 .. last
    BY <1>3
  <2> QED  BY <2>1, <1>1, <1>2 DEF Shape, Ended
<1>7. \A r \in 1 .. last : rules[r].index <= at
  <2>1. \A r \in 1 .. last : r = last \/ r \in 1 .. last - 1
    BY <1>2
  <2> QED  BY <2>1, <1>1, <1>2, <1>3 DEF Shape, Nested
<1>8. Inserted(elems, at, ws) \in Seq(Element(W)) /\ IsInserted(Inserted(elems, at, ws), elems, at, ws)
  BY <1>2, <1>3, InsertedIs
<1> HIDE DEF fs
<1>9. Quiet(stream, index) \in BOOLEAN
  BY DEF Quiet
<1>10. Wraps(elems, at, ws)
  BY <1>1
<1>11. Shape(fs, rules, Quiet(stream, index))
  BY <1>2, <1>3, <1>4, <1>5, <1>6, <1>7, <1>8, <1>9, <1>10, InsertKeeps
<1>12. fs # <<>>
  <2>1. Len(fs) = Len(elems) + Len(ws) /\ Len(ws) \in Nat
    BY <1>4, <1>8, LenProperties DEF IsInserted
  <2>2. Len(fs) # 0
    BY <2>1, <1>3
  <2> QED  BY <2>2, EmptySeq
<1> QED  BY <1>4, <1>8, <1>11, <1>12 DEF fs

LEMMA WrapFromTree ==
  ASSUME TreeInv, NEW kind \in NodeKinds, Parser!WrapFrom(kind)
  PROVE  TreeInv'
<1>1. PICK W : Grown(W)
  BY DEF TreeInv
<1> DEFINE V == W \cup {offset - Parser!Top.from}
<1> DEFINE wrap == Parser!Wrapper(kind, offset - Parser!Top.from, Len(elems) - Parser!Top.index + 1)
<1> DEFINE fs == Parser!InsertedAt(Parser!Top.index, <<wrap>>)
<1>2. Streaming /\ Grown(V) /\ Parser!Running /\ Parser!Top.what # "node"
  BY <1>1, GrowsTree DEF TreeInv, Parser!WrapFrom
<1>3. PICK at \in Nat : at = Parser!Top.index /\ at <= Len(elems)
  BY <1>2, RunningIs
<1>4. /\ Nat \subseteq V /\ elems \in Seq(Element(V)) /\ rules \in Seq(Rule(V))
      /\ Len(elems) \in Nat /\ offset - Parser!Top.from \in V
  BY <1>2, LenProperties DEF Grown
<1>5. /\ index' = index /\ elems' = fs /\ stream' = stream /\ rules' = rules
  BY DEF Parser!WrapFrom
<1> HIDE DEF V
<1>6. wrap \in Element(V) /\ wrap.kind \in NodeKind /\ wrap.size = Len(elems) - at + 1
  BY <1>3, <1>4 DEF Parser!Wrapper, Element, NodeKind
<1> HIDE DEF wrap
<1>7. <<wrap>> \in Seq(Element(V)) /\ Len(<<wrap>>) = 1 /\ <<wrap>>[1] = wrap
  BY <1>6
<1>8. Wraps(elems, at, <<wrap>>)
  <2>1. Len(elems) \in at .. Len(elems) /\ wrap.size = Len(elems) - at + 1 - 1 + 1
    BY <1>3, <1>4, <1>6
  <2>2. \A k \in 1 .. Len(<<wrap>>) : k = 1
    BY <1>7
  <2> QED  BY <2>1, <2>2, <1>6, <1>7 DEF Wraps
<1>9. Wraps(elems, Parser!Top.index, <<wrap>>)
  BY <1>3, <1>8
<1>10. fs \in Seq(Element(V)) /\ fs # <<>> /\ Shape(fs, rules, Quiet(stream, index))
  BY <1>2, <1>7, <1>9, InsertTree
<1>11. index \in index .. Len(stream)
  BY <1>2, StreamIs DEF Streaming
<1>12. Keeps(V, stream', index', elems', rules')
  BY <1>4, <1>5, <1>10, <1>11 DEF Keeps
<1> QED  BY <1>2, <1>12, KeepsTree

LEMMA ChainWrapTree ==
  ASSUME TreeInv, NEW kind \in NodeKinds, Parser!ChainWrap(kind)
  PROVE  TreeInv'
<1>1. PICK W : Grown(W)
  BY DEF TreeInv
<1> DEFINE top == Parser!Top
<1> DEFINE V == W \cup {offset - top.from}
<1> DEFINE wrap == Parser!Wrapper(kind, offset - top.from, Len(elems) - top.index + Len(top.wraps) + 1)
<1> DEFINE ss == [rules EXCEPT ![Len(rules)].wraps = Append(rules[Len(rules)].wraps, wrap)]
<1>2. Streaming /\ Grown(V) /\ Parser!Running
  BY <1>1, GrowsTree DEF TreeInv, Parser!ChainWrap
<1>3. /\ elems # <<>> /\ rules # <<>> /\ top = rules[Len(rules)] /\ top \in Rule(V)
      /\ top.index \in Nat /\ top.index <= Len(elems)
  BY <1>2, RunningIs
<1>4. /\ Nat \subseteq V /\ elems \in Seq(Element(V)) /\ rules \in Seq(Rule(V))
      /\ Len(elems) \in Nat /\ offset - top.from \in V /\ Shape(elems, rules, Quiet(stream, index))
  BY <1>2, LenProperties DEF Grown
<1>5. /\ index' = index /\ elems' = elems /\ stream' = stream /\ rules' = ss
  BY <1>3 DEF Parser!ChainWrap, Parser!Recorded
<1> HIDE DEF V, top
<1>6. Len(elems) - top.index + Len(top.wraps) + 1 \in Nat
  <2>1. Len(top.wraps) \in Nat
    BY <1>3, LenProperties DEF Rule
  <2>2. \A a, b, c \in Nat : a <= b => b - a + c + 1 \in Nat
    OBVIOUS
  <2> QED  BY <2>1, <2>2, <1>3, <1>4
<1>7. /\ wrap \in Element(V) /\ wrap.kind \in NodeKind
      /\ wrap.size = Len(elems) - top.index + Len(top.wraps) + 1
  BY <1>4, <1>6 DEF Parser!Wrapper, Element, NodeKind
<1> HIDE DEF wrap
<1>12. rules' = [rules EXCEPT ![Len(rules)].wraps = Append(rules[Len(rules)].wraps, wrap)]
  BY <1>5
<1>8. wrap.size = Len(elems) - rules[Len(rules)].index + Len(rules[Len(rules)].wraps) + 1
  BY <1>3, <1>7
<1>9. Quiet(stream, index) \in BOOLEAN /\ index \in index .. Len(stream)
  BY <1>2, StreamIs DEF Quiet, Streaming
<1>13. IsRecorded(rules', elems, rules, wrap)
  BY <1>8, <1>12 DEF IsRecorded
<1>10. rules' \in Seq(Rule(V)) /\ Shape(elems, rules', Quiet(stream, index))
  BY <1>3, <1>4, <1>7, <1>8, <1>9, <1>13, RecordKeeps
<1> HIDE DEF ss
<1>11. Keeps(V, stream', index', elems', rules')
  BY <1>3, <1>4, <1>5, <1>9, <1>10 DEF Keeps
<1> QED  BY <1>2, <1>11, KeepsTree

LEMMA CloseChainTree ==
  ASSUME TreeInv, Parser!CloseChain
  PROVE  TreeInv'
<1>1. PICK W : Grown(W)
  BY DEF TreeInv
<1> DEFINE last == Len(rules)
<1> DEFINE fs == Parser!InsertedAt(Parser!Top.index, Reverse(Parser!Top.wraps))
<1> DEFINE below == SubSeq(rules, 1, Len(rules) - 1)
<1>2. Streaming /\ Parser!Running /\ Parser!Top.what # "node"
  BY DEF TreeInv, Parser!CloseChain
<1>3. /\ rules # <<>> /\ last \in 1 .. last /\ Parser!Top = rules[last] /\ Parser!Top \in Rule(W)
      /\ Nat \subseteq W /\ elems \in Seq(Element(W)) /\ rules \in Seq(Rule(W)) /\ Len(elems) \in Nat
  BY <1>1, <1>2, RunningIs, LenProperties DEF Grown
<1>4. PICK at \in Nat : at = Parser!Top.index
  BY <1>1, <1>2, RunningIs
<1>5. PICK wraps \in Seq(Element(W)) : wraps = Parser!Top.wraps
  BY <1>3 DEF Rule
<1>6. /\ index' = index /\ elems' = fs /\ stream' = stream /\ rules' = below
  BY DEF Parser!CloseChain, Parser!Below, Reverse, Parser!Reverse
<1> DEFINE count == Len(wraps)
<1> DEFINE ws == Reverse(wraps)
<1>7. count \in Nat /\ (\A k \in 1 .. count : wraps[k] \in Element(W))
  BY LenProperties, ElementOfSeq
<1>8. /\ ws \in Seq(Element(W)) /\ Len(ws) = count
      /\ \A k \in 1 .. count : ws[k] = wraps[count - k + 1]
  <2>1. ws = [k \in 1 .. count |-> wraps[(count - k) + 1]]
    BY DEF Reverse
  <2>2. \A k \in 1 .. count : (count - k) + 1 \in 1 .. count
    BY <1>7
  <2>3. ws \in [1 .. count -> Element(W)]
    BY <1>7, <2>1, <2>2
  <2> HIDE DEF ws, count
  <2>4. ws \in Seq(Element(W)) /\ Len(ws) = count
    BY <1>7, <2>3
  <2> QED  BY <2>1, <2>4
<1> HIDE DEF ws, count
<1>9. \A w \in 1 .. count : wraps[w].kind \in NodeKind /\ \E end \in at .. Len(elems) : wraps[w].size = end - at + w
  <2>1. \A w \in 1 .. count : Reaches(elems, rules[last], w)
    BY <1>1, <1>3, <1>5 DEF Grown, Shape, ChainsReach, count
  <2> QED  BY <2>1, <1>3, <1>4, <1>5 DEF Reaches
<1>10. Wraps(elems, at, ws)
  <2> SUFFICES ASSUME NEW k \in 1 .. count
               PROVE  /\ ws[k].kind \in NodeKind
                      /\ \E end \in at .. Len(elems) : ws[k].size = end - at + count - k + 1
    BY <1>8 DEF Wraps
  <2> DEFINE w == count - k + 1
  <2>1. w \in 1 .. count /\ ws[k] = wraps[w]
    BY <1>7, <1>8
  <2>2. PICK end \in at .. Len(elems) : wraps[w].size = end - at + w
    BY <2>1, <1>9
  <2>3. end - at + w = end - at + count - k + 1
    BY <1>3, <1>7
  <2> QED  BY <2>1, <2>2, <2>3, <1>9
<1>11. Wraps(elems, Parser!Top.index, ws) /\ fs = Parser!InsertedAt(Parser!Top.index, ws)
  BY <1>4, <1>5, <1>10 DEF ws
<1> HIDE DEF fs
<1>12. fs \in Seq(Element(W)) /\ fs # <<>> /\ Shape(fs, rules, Quiet(stream, index))
  BY <1>1, <1>2, <1>8, <1>11, InsertTree
<1>13. Quiet(stream, index) \in BOOLEAN /\ index \in index .. Len(stream)
  BY <1>2, StreamIs DEF Quiet, Streaming
<1>14. below \in Seq(Rule(W)) /\ Shape(fs, below, Quiet(stream, index))
  BY <1>3, <1>12, <1>13, PopKeeps
<1>15. Keeps(W, stream', index', elems', rules')
  BY <1>3, <1>6, <1>12, <1>13, <1>14 DEF Keeps
<1> QED  BY <1>2, <1>15, KeepsTree

LEMMA EndTree ==
  ASSUME TreeInv, Parser!End
  PROVE  TreeInv'
<1>1. PICK W : Grown(W)
  BY DEF TreeInv
<1> DEFINE root == Parser!Top
<1> DEFINE V == W \cup {offset' - root.from}
<1> DEFINE to == Parser!Bumped
<1> DEFINE es == Parser!Emitted(to)
<1> DEFINE fs == Parser!ClosedIn(es, root, offset')
<1>2. Streaming /\ Grown(V) /\ Parser!Running /\ Len(rules) = 1
  <2>1. Len(rules) = 1
    BY DEF Parser!End
  <2>2. Parser!Running
    BY <2>1, EmptySeq DEF Parser!Running
  <2> QED  BY <1>1, <2>1, <2>2, GrowsTree DEF TreeInv
<1>3. to \in index .. Len(stream)
  BY <1>2, FlushedIs, StreamIs
<1>4. /\ elems # <<>> /\ rules # <<>> /\ Nat \subseteq V /\ elems \in Seq(Element(V)) /\ rules \in Seq(Rule(V))
      /\ root = rules[Len(rules)] /\ root.index \in Nat /\ offset' - root.from \in V /\ root.what = "node"
  BY <1>2, RunningIs DEF Grown
<1>5. /\ index' = to /\ elems' = fs /\ rules' = <<>> /\ stream' = stream
  BY DEF Parser!End, Parser!Emit
<1> HIDE DEF V, root
<1>6. /\ es \in Seq(Element(V)) /\ es # <<>> /\ Shape(es, rules, Quiet(stream, to))
      /\ Len(es) \in Nat
  BY <1>2, <1>3, <1>4, EmittedIs, LenProperties
<1> HIDE DEF es, to
<1>7. root.index < Len(es)
  BY <1>2, <1>4, <1>6 DEF Shape, Nested
<1>8. fs \in Seq(Element(V)) /\ IsFilled(fs, es, root.index)
  BY <1>4, <1>6, <1>7, ClosedIs
<1> HIDE DEF fs
<1>9. Quiet(stream, to) \in BOOLEAN
  BY DEF Quiet
<1>10. Shape(fs, rules, Quiet(stream, to))
  BY <1>4, <1>6, <1>8, <1>9, FillKeeps
<1>11. <<>> \in Seq(Rule(V)) /\ Shape(fs, <<>>, Quiet(stream, to))
  <2>1. Len(rules) - 1 < 1 /\ Len(rules) - 1 \in Int /\ 1 \in Int
    BY <1>2
  <2>2. SubSeq(rules, 1, Len(rules) - 1) = <<>>
    BY <2>1, SubSeqEmpty
  <2>3. /\ SubSeq(rules, 1, Len(rules) - 1) \in Seq(Rule(V))
        /\ Shape(fs, SubSeq(rules, 1, Len(rules) - 1), Quiet(stream, to))
    BY <1>4, <1>8, <1>9, <1>10, PopKeeps
  <2> QED  BY <2>2, <2>3
<1>12. fs # <<>>
  <2>1. Len(fs) = Len(es) /\ Len(es) # 0
    BY <1>6, <1>8, EmptySeq DEF IsFilled
  <2> QED  BY <2>1, EmptySeq
<1>13. Keeps(V, stream', index', elems', rules')
  BY <1>3, <1>4, <1>5, <1>8, <1>11, <1>12 DEF Keeps
<1> QED  BY <1>2, <1>13, KeepsTree

LEMMA ModuleTree ==
  ASSUME TreeInv, NEW toks \in Seq(TreeToken), Parser!StartModule(toks)
  PROVE  TreeInv'
<1> DEFINE root == Parser!Wrapper(Parser!NdModule, 0, 0)
<1> DEFINE rule == Parser!Held("node", 0, 0)
<1> DEFINE es == <<root>>
<1> DEFINE rs == <<rule>>
<1>1. stream' = toks /\ index' = 0 /\ elems' = es /\ rules' = rs
  BY DEF Parser!StartModule, TreeInv
<1>2. root \in Element(Nat) /\ root.size = 0 /\ rule \in Rule(Nat)
  BY EmptySeq DEF Element, Rule, NodeKind, Parser!Wrapper, Parser!Held
<1>3. rule.what = "node" /\ rule.index = 0 /\ rule.wraps = <<>> /\ Len(rule.wraps) = 0
  BY EmptySeq DEF Parser!Held
<1> HIDE DEF root, rule
<1>4. /\ es \in Seq(Element(Nat)) /\ Len(es) = 1 /\ es[1] = root /\ es # <<>>
      /\ rs \in Seq(Rule(Nat)) /\ Len(rs) = 1 /\ rs[1] = rule
  BY <1>2
<1> HIDE DEF es, rs
<1>5. (\A k \in 1 .. 1 : k = 1) /\ (\A k \in 2 .. 1 : FALSE) /\ (\A k \in 1 .. 0 : FALSE)
  OBVIOUS
<1>6. Ended(es, rs)
  BY <1>2, <1>3, <1>4, <1>5 DEF Ended
<1>7. NodesBegun(es)
  BY <1>4, <1>5 DEF NodesBegun
<1>8. Nested(es, rs)
  <2>1. \A r \in 1 .. 1 : \A q \in 1 .. r - 1 : FALSE
    OBVIOUS
  <2>2. ~IsLeaf(es[1])
    BY <1>4 DEF IsLeaf, NodeKind, Parser!Wrapper, root
  <2> QED  BY <2>1, <2>2, <1>3, <1>4, <1>5 DEF Nested
<1>9. RulesBegun(es, rs, Quiet(toks, 0))
  BY <1>4, <1>5 DEF RulesBegun
<1>10. ChainsReach(es, rs)
  BY <1>3, <1>4, <1>5 DEF ChainsReach
<1>11. Grown(Nat)'
  BY <1>1, <1>4, <1>6, <1>7, <1>8, <1>9, <1>10 DEF Grown, Shape
<1>12. Len(toks) \in Nat
  BY LenProperties
<1>13. Streaming' /\ (elems' = <<>> => index' = 0)
  BY <1>1, <1>12 DEF Streaming
<1> QED  BY <1>11, <1>13 DEF TreeInv

\* The tokens that recovery takes after its node is open.
LEMMA RestIs ==
  ASSUME Streaming, NEW W, Grown(W), elems # <<>>,
         NEW from \in index .. Len(stream), NEW to \in from .. Len(stream)
  PROVE  LET all == Parser!Emitted(to)
             rest == SubSeq(all, Len(Parser!Emitted(from)) + 1, Len(all))
         IN /\ rest = LeavesOf(from, to)
            /\ rest \in Seq(Element(W)) /\ AreLeaves(rest)
            /\ rest # <<>> => from < to /\ rest[1].kind = stream[from + 1].kind
            /\ rest = <<>> => from = to
<1> DEFINE all == Parser!Emitted(to)
<1> DEFINE p == Len(Parser!Emitted(from)) + 1
<1> DEFINE rest == SubSeq(all, p, Len(all))
<1> DEFINE ls == LeavesOf(index, to)
<1> DEFINE d == to - from
<1> DEFINE skip == from - index
<1>1. index \in Nat /\ Len(stream) \in Nat /\ Len(elems) \in Nat /\ index \in 0 .. Len(stream)
  BY StreamIs, LenProperties DEF Grown, Streaming
<1>2. to \in index .. Len(stream) /\ d \in Nat /\ skip \in Nat /\ to - index = skip + d
  BY <1>1
<1>3. /\ all = elems \o ls /\ all \in Seq(Element(W)) /\ Len(all) = Len(elems) + (to - index)
      /\ p = Len(elems) + (from - index) + 1
  BY <1>2, EmittedIs
<1>4. /\ ls \in Seq(Element(W)) /\ AreLeaves(ls) /\ Len(ls) = to - index
  BY <1>1, <1>2, LeavesAre DEF Grown
<1>5. \A k \in 1 .. skip + d : ls[k] = Parser!Leaf(stream[index + k])
  BY <1>2 DEF LeavesOf
<1>6. /\ Len(all) = Len(elems) + skip + d /\ p = Len(elems) + skip + 1
  BY <1>1, <1>2, <1>3
<1>7. \A k \in 1 .. d : all[p + k - 1] = ls[skip + k] /\ skip + k \in 1 .. Len(ls)
  <2> SUFFICES ASSUME NEW k \in 1 .. d  PROVE all[p + k - 1] = ls[skip + k] /\ skip + k \in 1 .. Len(ls)
    OBVIOUS
  <2>1. elems \in Seq(Element(W))
    BY DEF Grown
  <2>2. \A l \in 1 .. Len(elems) + Len(ls) :
          all[l] = IF l <= Len(elems) THEN elems[l] ELSE ls[l - Len(elems)]
    BY <2>1, <1>3, <1>4, ConcatProperties
  <2> HIDE DEF all, ls, p, d, skip
  <2>3. /\ p + k - 1 \in 1 .. Len(elems) + Len(ls) /\ ~(p + k - 1 <= Len(elems))
        /\ (p + k - 1) - Len(elems) = skip + k
    BY <1>1, <1>2, <1>4, <1>6
  <2> QED  BY <2>2, <2>3, <1>1, <1>2, <1>4
<1> HIDE DEF all, ls, p, d, skip
<1>8. p \in Int /\ Len(all) \in Int /\ Len(all) = p + d - 1
  BY <1>1, <1>2, <1>6
<1>9. \A k \in p .. Len(all) : all[k] \in Element(W)
  <2>1. \A k \in p .. Len(all) : k \in 1 .. Len(all)
    BY <1>1, <1>2, <1>6
  <2> QED  BY <2>1, <1>3, ElementOfSeq
<1>10. /\ rest \in Seq(Element(W)) /\ Len(rest) = d
       /\ \A k \in 1 .. d : rest[k] = all[p + k - 1]
  <2>1. /\ rest \in Seq(Element(W)) /\ Len(rest) = IF p <= Len(all) THEN Len(all) - p + 1 ELSE 0
        /\ \A k \in 1 .. Len(all) - p + 1 : rest[k] = all[p + k - 1]
    BY <1>8, <1>9, SubSeqProperties
  <2> HIDE DEF rest
  <2>2. Len(rest) = d /\ Len(all) - p + 1 = d
    BY <2>1, <1>2, <1>8
  <2> QED  BY <2>1, <2>2
<1> HIDE DEF rest
<1>11. AreLeaves(rest)
  BY <1>4, <1>7, <1>10 DEF AreLeaves
<1>12. rest # <<>> => from < to /\ rest[1].kind = stream[from + 1].kind
  <2> SUFFICES ASSUME rest # <<>>  PROVE from < to /\ rest[1].kind = stream[from + 1].kind
    OBVIOUS
  <2>1. d # 0
    BY <1>10, EmptySeq
  <2>2. 1 \in 1 .. d /\ skip + 1 \in 1 .. skip + d /\ index + (skip + 1) = from + 1 /\ from < to
    BY <2>1, <1>1, <1>2 DEF skip, d
  <2>3. rest[1] = ls[skip + 1]
    BY <2>2, <1>7, <1>10
  <2>4. ls[skip + 1] = Parser!Leaf(stream[from + 1])
    BY <2>2, <1>5
  <2> QED  BY <2>2, <2>3, <2>4 DEF Parser!Leaf
<1>13. rest = <<>> => from = to
  <2>1. rest = <<>> => d = 0
    BY <1>10, EmptySeq
  <2> QED  BY <2>1, <1>1 DEF d
<1>14. rest = LeavesOf(from, to)
  <2>1. LeavesOf(from, to) \in Seq(Element(W)) /\ Len(LeavesOf(from, to)) = d
    <3>1. from \in 0 .. Len(stream) /\ Nat \subseteq W
      BY <1>1 DEF Grown
    <3> QED  BY <3>1, LeavesAre DEF d
  <2>2. \A k \in 1 .. d : LeavesOf(from, to)[k] = Parser!Leaf(stream[from + k])
    BY DEF LeavesOf, d
  <2>3. ASSUME NEW k \in 1 .. d  PROVE rest[k] = LeavesOf(from, to)[k]
    <3>1. skip + k \in 1 .. skip + d /\ index + (skip + k) = from + k
      BY <1>1, <1>2 DEF skip
    <3>2. ls[skip + k] = Parser!Leaf(stream[from + k])
      BY <3>1, <1>5
    <3> QED  BY <3>2, <2>2, <1>7, <1>10
  <2> QED  BY <2>1, <2>3, <1>10, SeqEqual
<1> QED  BY <1>10, <1>11, <1>12, <1>13, <1>14 DEF rest, all, p

LEMMA ErrorTree ==
  ASSUME TreeInv, NEW resync, Parser!ErrorAndRecover(resync)
  PROVE  TreeInv'
<1>1. PICK W : Grown(W)
  BY DEF TreeInv
<1> DEFINE from == Parser!Flushed
<1> DEFINE to == Parser!RecoveredTo(resync)
<1> DEFINE at == offset + Parser!WidthTo(from)
<1> DEFINE es == Parser!Emitted(from)
<1> DEFINE all == Parser!Emitted(to)
<1> DEFINE error == Parser!Held("node", Len(es), at)
<1> DEFINE node == Parser!Wrapper(Parser!NdError, 0, 0)
<1> DEFINE opened == Append(es, node)
<1> DEFINE rest == SubSeq(all, Len(es) + 1, Len(all))
<1> DEFINE V == W \cup {at, offset' - at}
<1> DEFINE fs == Parser!ClosedIn(opened \o rest, error, offset')
<1> DEFINE ss == Append(rules, error)
<1>2. Streaming /\ Grown(V) /\ Parser!Running
  BY <1>1, GrowsTree DEF TreeInv, Parser!ErrorAndRecover
<1>3. /\ from \in index .. Len(stream) /\ to \in from .. Len(stream) /\ to \in index .. Len(stream)
      /\ Quiet(stream, from)
  BY <1>2, FlushedIs, RecoveredIs, StreamIs
<1>4. /\ elems # <<>> /\ rules # <<>> /\ Nat \subseteq V /\ rules \in Seq(Rule(V)) /\ at \in V /\ offset' - at \in V
  BY <1>2, RunningIs DEF Grown
<1>5. /\ error.index = Len(es) /\ error.from = at /\ error.what = "node" /\ error.wraps = <<>>
  BY DEF Parser!Held
<1>6. /\ index' = to /\ rules' = rules /\ stream' = stream /\ elems' = fs
  BY <1>5 DEF Parser!ErrorAndRecover, Parser!Emit
<1> HIDE DEF V, at
<1>7. /\ es \in Seq(Element(V)) /\ es # <<>> /\ Shape(es, rules, Quiet(stream, from)) /\ Len(es) \in Nat
  BY <1>2, <1>3, <1>4, EmittedIs, LenProperties
<1>8. /\ rest \in Seq(Element(V)) /\ AreLeaves(rest)
      /\ rest # <<>> => from < to /\ rest[1].kind = stream[from + 1].kind
      /\ rest = <<>> => from = to
  BY <1>2, <1>3, <1>4, RestIs
<1>9. error \in Rule(V)
  BY <1>4, <1>7, EmptySeq DEF Parser!Held, Rule
<1>10. node \in Element(V) /\ node.kind \in NodeKind /\ node.size = 0
  BY <1>4 DEF Parser!Wrapper, Element, NodeKind
<1> HIDE DEF from, to, es, all, rest, error, node
<1>11. Shape(opened, ss, TRUE) /\ opened \in Seq(Element(V)) /\ ss \in Seq(Rule(V))
  <2>1. Quiet(stream, from) = TRUE
    BY <1>3 DEF Quiet
  <2>2. Shape(es, rules, TRUE)
    BY <2>1, <1>7
  <2> QED  BY <2>2, <1>4, <1>5, <1>7, <1>9, <1>10, OpenKeeps, AppendedIs
<1>12. /\ Len(opened) = Len(es) + 1 /\ Len(ss) = Len(rules) + 1 /\ ss[Len(ss)] = error /\ ss # <<>>
       /\ Len(rules) \in Nat
  <2>1. Len(opened) = Len(es) + 1 /\ Len(ss) = Len(rules) + 1 /\ ss[Len(rules) + 1] = error /\ Len(rules) \in Nat
    BY <1>4, <1>7, <1>9, <1>10, AppendedIs
  <2>2. Len(ss) # 0
    BY <2>1
  <2> QED  BY <2>1, <2>2, EmptySeq
<1> HIDE DEF opened
<1> DEFINE gs == opened \o rest
<1> DEFINE later == Quiet(stream, to)
<1>13. later \in BOOLEAN
  BY DEF Quiet
<1>14. rest # <<>> => rest[1].kind \notin Trivia
  BY <1>2, <1>3, <1>8, StreamIs DEF Quiet
<1>15. rest = <<>> => later
  BY <1>3, <1>8
<1> HIDE DEF later
<1>16. Shape(gs, ss, later)
  BY <1>8, <1>11, <1>13, <1>14, <1>15, EmitKeeps
<1>17. gs \in Seq(Element(V)) /\ Len(gs) = Len(opened) + Len(rest) /\ Len(rest) \in Nat
  BY <1>8, <1>11, ConcatProperties, LenProperties
<1> HIDE DEF gs, ss
<1>18. error.index \in Nat /\ error.index < Len(gs)
  BY <1>5, <1>7, <1>12, <1>17
<1>19. fs \in Seq(Element(V)) /\ IsFilled(fs, gs, error.index)
  <2>1. offset' - error.from \in V
    BY <1>4, <1>5
  <2>2. fs = Parser!ClosedIn(gs, error, offset')
    BY DEF gs
  <2> HIDE DEF fs
  <2> QED  BY <2>1, <2>2, <1>17, <1>18, ClosedIs
<1> HIDE DEF fs
<1>20. Shape(fs, ss, later)
  BY <1>5, <1>11, <1>12, <1>13, <1>16, <1>17, <1>19, FillKeeps
<1>21. SubSeq(ss, 1, Len(ss) - 1) \in Seq(Rule(V)) /\ Shape(fs, SubSeq(ss, 1, Len(ss) - 1), later)
  BY <1>11, <1>12, <1>13, <1>19, <1>20, PopKeeps
<1>22. SubSeq(ss, 1, Len(ss) - 1) = rules
  <2> DEFINE m == Len(rules)
  <2>1. m \in Nat /\ Len(ss) - 1 = m /\ \A k \in 1 .. m : ss[k] = rules[k] /\ rules[k] \in Rule(V)
    BY <1>4, <1>9, <1>12, AppendedIs, ElementOfSeq DEF ss
  <2> HIDE DEF m
  <2>2. 1 \in Int /\ m \in Int /\ \A k \in 1 .. m : ss[k] \in Rule(V)
    BY <2>1
  <2>3. /\ SubSeq(ss, 1, m) \in Seq(Rule(V)) /\ Len(SubSeq(ss, 1, m)) = IF 1 <= m THEN m - 1 + 1 ELSE 0
        /\ \A k \in 1 .. m - 1 + 1 : SubSeq(ss, 1, m)[k] = ss[1 + k - 1]
    BY <2>2, SubSeqProperties
  <2> DEFINE below == SubSeq(ss, 1, m)
  <2>4. Len(below) = m
    BY <2>1, <2>3
  <2>5. \A k \in 1 .. m : below[k] = rules[k]
    <3>1. \A k \in 1 .. m : k \in 1 .. m - 1 + 1 /\ 1 + k - 1 = k
      BY <2>1
    <3> QED  BY <3>1, <2>1, <2>3
  <2>6. below \in Seq(Rule(V)) /\ Len(below) = Len(rules)
    BY <2>3, <2>4 DEF m
  <2> HIDE DEF below
  <2>7. \A k \in 1 .. Len(below) : below[k] = rules[k]
    BY <2>4, <2>5
  <2>8. below = rules
    BY <2>6, <2>7, <1>4, SeqEqual
  <2> QED  BY <2>1, <2>8 DEF below
<1>23. fs # <<>>
  <2>1. Len(fs) = Len(gs) /\ Len(gs) # 0
    BY <1>7, <1>12, <1>17, <1>19 DEF IsFilled
  <2> QED  BY <2>1, EmptySeq
<1>24. Keeps(V, stream', index', elems', rules')
  <2>1. Shape(fs, rules, later)
    BY <1>21, <1>22
  <2> QED  BY <2>1, <1>3, <1>4, <1>6, <1>19, <1>23 DEF Keeps, later
<1> QED  BY <1>2, <1>24, KeepsTree

-------------------------------------------------------------------------------
LEMMA SyntaxInitTree == SyntaxInit => Inv /\ TreeInv
<1> SUFFICES ASSUME SyntaxInit  PROVE Inv /\ TreeInv
  OBVIOUS
<1>1. Inv
  BY InitInv DEF SyntaxInit
<1>2. stream = <<>> /\ index = 0 /\ elems = <<>> /\ rules = <<>>
  BY DEF SyntaxInit, Parser!Init
<1>3. Streaming
  BY <1>2, EmptySeq DEF Streaming
<1>4. \A r \in 1 .. Len(<<>>) : FALSE
  BY EmptySeq
<1>5. \A r \in 2 .. Len(<<>>) : FALSE
  BY EmptySeq
<1>6. Shape(<<>>, <<>>, Quiet(stream, index))
  BY <1>4, <1>5 DEF Shape, Ended, NodesBegun, Nested, RulesBegun, ChainsReach
<1>7. <<>> \in Seq(Element(Nat)) /\ <<>> \in Seq(Rule(Nat))
  BY EmptySeq
<1>8. Grown(Nat)
  BY <1>2, <1>6, <1>7 DEF Grown
<1> QED  BY <1>1, <1>2, <1>3, <1>8 DEF TreeInv

LEMMA ParseTree ==
  ASSUME Inv, TreeInv, Parse
  PROVE  TreeInv'
<1> DEFINE toks == [k \in DOMAIN tokens |-> [kind |-> tokens[k].kind, width |-> tokens[k].width]]
<1>1. tokens \in Seq(TokenRecord) /\ Len(tokens) \in Nat /\ DOMAIN tokens = 1 .. Len(tokens)
  BY TokensHold
<1>2. \A k \in 1 .. Len(tokens) : tokens[k].kind \in Kinds /\ tokens[k].width \in Nat
  <2>1. \A k \in 1 .. Len(tokens) : tokens[k] \in TokenRecord
    BY <1>1, ElementOfSeq
  <2>2. \A t \in TokenRecord : t.kind \in Kinds /\ t.width \in Nat
    BY DEF TokenRecord
  <2> QED  BY <2>1, <2>2
<1>3. toks \in [1 .. Len(tokens) -> TreeToken]
  BY <1>1, <1>2 DEF TreeToken
<1>4. toks \in Seq(TreeToken)
  BY <1>1, <1>3
<1>5. Parser!StartModule(toks)
  BY DEF Parse
<1> HIDE DEF toks
<1> QED  BY <1>4, <1>5, ModuleTree

LEMMA SyntaxNextTree ==
  ASSUME Inv, TreeInv, [SyntaxNext]_<<vars, parser>>
  PROVE  Inv' /\ TreeInv'
<1>1. ASSUME UNCHANGED parser  PROVE TreeInv'
  BY <1>1 DEF parser, TreeInv, Streaming, Grown
<1>2. [Next]_vars
  BY DEF SyntaxNext, Scan, Parse, Building, Ready
<1>3. Inv'
  BY <1>2, NextInv
<1>4. CASE Scan \/ Ready \/ UNCHANGED <<vars, parser>>
  <2>1. UNCHANGED parser
    BY <1>4 DEF Scan, Ready
  <2> QED  BY <2>1, <1>1, <1>3
<1>5. CASE Parse
  BY <1>5, <1>3, ParseTree
<1>6. CASE Building
  <2>1. Parser!Step
    BY <1>6 DEF Building
  <2>2. CASE Parser!Finish \/ Parser!Return \/ Parser!CloseChain \/ Parser!Bump \/ Parser!End
    BY <2>2, <1>3, FinishTree, ReturnTree, CloseChainTree, BumpTree, EndTree
  <2>3. CASE \E kind \in NodeKinds : Parser!Start(kind) \/ Parser!WrapFrom(kind) \/ Parser!ChainWrap(kind)
    BY <2>3, <1>3, StartTree, WrapFromTree, ChainWrapTree
  <2>4. CASE \E what \in {"mark", "chain"} : Parser!Checkpoint(what)
    BY <2>4, <1>3, CheckpointTree
  <2>5. CASE \E resync \in SUBSET Parser!Kinds : Parser!ErrorAndRecover(resync)
    BY <2>5, <1>3, ErrorTree
  <2> QED  BY <2>1, <2>2, <2>3, <2>4, <2>5 DEF Parser!Step
<1> QED  BY <1>4, <1>5, <1>6 DEF SyntaxNext

\* The parser takes nothing back of what was scanned: the scan is as it was
\* without one.
THEOREM ScanIsUndisturbed == SyntaxSpec => Spec
<1>1. SyntaxInit => Init
  BY DEF SyntaxInit
<1>2. [SyntaxNext]_<<vars, parser>> => [Next]_vars
  BY DEF SyntaxNext, Scan, Parse, Building, Ready
<1> QED  BY <1>1, <1>2, PTL DEF SyntaxSpec, Spec

THEOREM TreesAreGrown == SyntaxSpec => [](Inv /\ TreeInv)
<1>1. Inv /\ TreeInv /\ [SyntaxNext]_<<vars, parser>> => (Inv /\ TreeInv)'
  BY SyntaxNextTree
<1> QED  BY SyntaxInitTree, <1>1, PTL DEF SyntaxSpec

(***************************************************************************)
(* Whatever rules a grammar has that close what they open, and however     *)
(* they open, wrap, chain and recover: no node but the root begins with    *)
(* white space or a comment.  A node may be laid down long after what it   *)
(* begins with, by a checkpoint or a chain: what a rule has so far will do *)
(* for a node from the moment it begins, for trivia is flushed first.      *)
(***************************************************************************)
THEOREM NodesBegin == SyntaxSpec => []NodesBeginAtTokens
<1>1. TreeInv => NodesBeginAtTokens
  <2> SUFFICES ASSUME TreeInv  PROVE NodesBeginAtTokens
    OBVIOUS
  <2>1. NodesBegun(elems)
    BY DEF TreeInv, Grown, Shape
  <2> SUFFICES ASSUME NEW k \in 2 .. Len(elems), elems[k].size > 1
               PROVE  LET leaves == {l \in k .. k + elems[k].size - 1 : ~Parser!IsNode(elems[l])}
                      IN \A l \in leaves : elems[l].kind \in Trivia => \E m \in leaves : m < l
    BY DEF NodesBeginAtTokens, Parser!NodesBeginAtTokens
  <2>2. Begun(elems, k, k + elems[k].size - 1)
    BY <2>1 DEF NodesBegun
  <2>3. \A l : ~Parser!IsNode(elems[l]) <=> IsLeaf(elems[l])
    BY DEF Parser!IsNode, IsLeaf, NodeKind
  <2> QED  BY <2>2, <2>3 DEF Begun
<1> QED  BY <1>1, TreesAreGrown, PTL

-------------------------------------------------------------------------------
\* What the leaves are.

LEMMA WidthIs ==
  ASSUME Streaming, NEW to \in index .. Len(stream),
         NEW g \in [index .. to -> Nat],
         \A k \in index + 1 .. to : g[k] = g[k - 1] + stream[k].width
  PROVE  Parser!WidthTo(to) = g[to] - g[index]
<1>1. index \in Nat /\ to \in Nat /\ index <= to
  BY StreamIs
<1> DEFINE F == CHOOSE f : f = [k \in index .. to |-> IF k = index THEN 0 ELSE f[k - 1] + stream[k].width]
<1>2. Parser!WidthTo(to) = F[to]
  BY DEF Parser!WidthTo
<1> DEFINE h == [k \in index .. to |-> g[k] - g[index]]
<1>3. h = [k \in index .. to |-> IF k = index THEN 0 ELSE h[k - 1] + stream[k].width]
  <2> SUFFICES ASSUME NEW k \in index .. to
               PROVE  h[k] = IF k = index THEN 0 ELSE h[k - 1] + stream[k].width
    OBVIOUS
  <2>1. CASE k = index
    BY <2>1, <1>1
  <2>2. CASE k # index
    <3>1. k \in index + 1 .. to /\ k - 1 \in index .. to /\ stream[k].width \in Nat /\ index \in index .. to
      BY <2>2, <1>1, StreamIs
    <3>2. g[k] = g[k - 1] + stream[k].width /\ g[k - 1] \in Nat /\ g[index] \in Nat
      BY <3>1
    <3> QED  BY <3>1, <3>2, <2>2
  <2> QED  BY <2>1, <2>2
<1>4. F = [k \in index .. to |-> IF k = index THEN 0 ELSE F[k - 1] + stream[k].width]
  BY <1>3
<1> HIDE DEF F, h
<1> DEFINE D == {k \in index .. to : F[k] # h[k]}
<1>5. D = {}
  <2> SUFFICES ASSUME D # {}  PROVE FALSE
    OBVIOUS
  <2> DEFINE k == Least(D)
  <2>1. D \in SUBSET Nat
    BY <1>1
  <2>2. k \in D /\ \A y \in D : k <= y
    BY <2>1, LeastIsLeast
  <2> HIDE DEF k
  <2>3. k \in index .. to /\ F[k] # h[k]
    BY <2>2
  <2>4. F[k] = (IF k = index THEN 0 ELSE F[k - 1] + stream[k].width)
    BY <2>3, <1>4
  <2>5. h[k] = (IF k = index THEN 0 ELSE h[k - 1] + stream[k].width)
    BY <2>3, <1>3
  <2>6. k # index
    BY <2>3, <2>4, <2>5
  <2>7. k - 1 \in index .. to /\ ~(k <= k - 1)
    BY <2>3, <2>6, <1>1
  <2>8. F[k - 1] = h[k - 1]
    BY <2>2, <2>7
  <2> QED  BY <2>3, <2>4, <2>5, <2>6, <2>8
<1>6. to \in index .. to
  BY <1>1
<1>7. F[to] = h[to]
  BY <1>5, <1>6
<1> QED  BY <1>2, <1>6, <1>7 DEF h

\* Where a token ends; before the first there is nothing.
AfterIn(ts, k) == IF k = 0 THEN 0 ELSE ts[k].at + ts[k].width

\* The leaves are the tokens that were taken, in their order.
IsTiled(es, ix, st) ==
  \E at \in [1 .. ix -> 1 .. Len(es)] :
    /\ \A k \in 1 .. Len(es) : IsLeaf(es[k]) => \E l \in 1 .. ix : at[l] = k
    /\ \A l \in 1 .. ix :
         /\ es[at[l]] = Parser!Leaf(st[l])
         /\ \A m \in 1 .. l - 1 : at[m] < at[l]

LEMMA EmitTiles ==
  ASSUME Streaming, NEW W, Nat \subseteq W, NEW es \in Seq(Element(W)),
         NEW from \in 0 .. Len(stream), NEW to \in from .. Len(stream), IsTiled(es, from, stream)
  PROVE  IsTiled(es \o LeavesOf(from, to), to, stream)
<1> DEFINE e == Len(es)
<1> DEFINE fs == es \o LeavesOf(from, to)
<1> DEFINE f == Len(fs)
<1>1. e \in Nat /\ Len(stream) \in Nat /\ from \in Nat /\ to \in Nat /\ from <= to
  BY StreamIs, LenProperties
<1>2. /\ f = e + (to - from)
      /\ \A k \in 1 .. e : fs[k] = es[k]
      /\ \A k \in e + 1 .. f : fs[k] = LeavesOf(from, to)[k - e]
  <2>1. LeavesOf(from, to) \in Seq(Element(W)) /\ Len(LeavesOf(from, to)) = to - from
    BY LeavesAre
  <2>2. /\ Len(fs) = Len(es) + (to - from)
        /\ \A k \in 1 .. Len(es) + (to - from) :
              fs[k] = IF k <= Len(es) THEN es[k] ELSE LeavesOf(from, to)[k - Len(es)]
    BY <2>1, ConcatProperties
  <2> HIDE DEF fs
  <2> QED  BY <2>2, <1>1
<1>3. \A k \in 1 .. to - from : LeavesOf(from, to)[k] = Parser!Leaf(stream[from + k])
  BY DEF LeavesOf
<1>4. PICK at \in [1 .. from -> 1 .. e] :
        /\ \A k \in 1 .. e : IsLeaf(es[k]) => \E l \in 1 .. from : at[l] = k
        /\ \A l \in 1 .. from :
             /\ es[at[l]] = Parser!Leaf(stream[l])
             /\ \A m \in 1 .. l - 1 : at[m] < at[l]
  BY DEF IsTiled
<1> HIDE DEF e, fs, f
<1> DEFINE bt == [l \in 1 .. to |-> IF l <= from THEN at[l] ELSE e + (l - from)]
<1>5. /\ \A l \in 1 .. from : bt[l] = at[l] /\ at[l] \in 1 .. e
      /\ \A l \in from + 1 .. to : bt[l] = e + (l - from)
  BY <1>1
<1>6. bt \in [1 .. to -> 1 .. f]
  BY <1>1, <1>2
<1> HIDE DEF bt
<1>7. \A k \in 1 .. f : IsLeaf(fs[k]) => \E l \in 1 .. to : bt[l] = k
  <2> SUFFICES ASSUME NEW k \in 1 .. f, IsLeaf(fs[k])  PROVE \E l \in 1 .. to : bt[l] = k
    OBVIOUS
  <2>1. CASE k \in 1 .. e
    <3>1. PICK l \in 1 .. from : at[l] = k
      BY <2>1, <1>2, <1>4
    <3> QED  BY <3>1, <1>1, <1>5
  <2>2. CASE k \in e + 1 .. f
    <3>1. from + (k - e) \in from + 1 .. to /\ from + (k - e) \in 1 .. to /\ e + ((from + (k - e)) - from) = k
      BY <2>2, <1>1, <1>2
    <3> QED  BY <3>1, <1>5
  <2> QED  BY <2>1, <2>2, <1>1
<1>8. \A l \in 1 .. to : fs[bt[l]] = Parser!Leaf(stream[l]) /\ \A m \in 1 .. l - 1 : bt[m] < bt[l]
  <2> SUFFICES ASSUME NEW l \in 1 .. to
               PROVE  fs[bt[l]] = Parser!Leaf(stream[l]) /\ \A m \in 1 .. l - 1 : bt[m] < bt[l]
    OBVIOUS
  <2>1. CASE l \in 1 .. from
    <3>1. \A m \in 1 .. l - 1 : m \in 1 .. from
      BY <2>1, <1>1
    <3> QED  BY <3>1, <2>1, <1>2, <1>4, <1>5
  <2>2. CASE l \in from + 1 .. to
    <3>1. /\ e + (l - from) \in e + 1 .. f /\ l - from \in 1 .. to - from
          /\ (e + (l - from)) - e = l - from /\ from + (l - from) = l
      BY <2>2, <1>1, <1>2
    <3>2. fs[e + (l - from)] = Parser!Leaf(stream[l])
      BY <3>1, <1>2, <1>3
    <3>3. \A m \in 1 .. l - 1 : bt[m] < e + (l - from)
      <4> SUFFICES ASSUME NEW m \in 1 .. l - 1  PROVE bt[m] < e + (l - from)
        OBVIOUS
      <4>1. CASE m \in 1 .. from
        BY <4>1, <2>2, <1>1, <1>5
      <4>2. CASE m \in from + 1 .. to
        <5>1. bt[m] = e + (m - from)
          BY <4>2, <1>5
        <5> QED  BY <5>1, <4>2, <2>2, <1>1
      <4> QED  BY <4>1, <4>2, <2>2, <1>1
    <3> QED  BY <3>2, <3>3, <2>2, <1>5
  <2> QED  BY <2>1, <2>2, <1>1
<1>9. IsTiled(fs, to, stream)
  BY <1>6, <1>7, <1>8 DEF IsTiled, f
<1> QED  BY <1>9 DEF fs

\* What was a leaf stays one in its order, and no other is put among them.
LEMMA TilesMove ==
  ASSUME NEW es, NEW fs, NEW ix \in Nat, NEW st, Len(es) \in Nat, Len(fs) \in Nat, IsTiled(es, ix, st),
         NEW new \in [1 .. Len(es) -> 1 .. Len(fs)],
         \A k \in 1 .. Len(es) : IsLeaf(es[k]) => fs[new[k]] = es[k],
         \A k, l \in 1 .. Len(es) : k < l => new[k] < new[l],
         \A m \in 1 .. Len(fs) : IsLeaf(fs[m]) => \E k \in 1 .. Len(es) : new[k] = m /\ IsLeaf(es[k]),
         \A l \in 1 .. ix : IsLeaf(Parser!Leaf(st[l]))
  PROVE  IsTiled(fs, ix, st)
<1>1. PICK at \in [1 .. ix -> 1 .. Len(es)] :
        /\ \A k \in 1 .. Len(es) : IsLeaf(es[k]) => \E l \in 1 .. ix : at[l] = k
        /\ \A l \in 1 .. ix :
             /\ es[at[l]] = Parser!Leaf(st[l])
             /\ \A m \in 1 .. l - 1 : at[m] < at[l]
  BY DEF IsTiled
<1> DEFINE bt == [l \in 1 .. ix |-> new[at[l]]]
<1>2. \A l \in 1 .. ix : bt[l] = new[at[l]] /\ at[l] \in 1 .. Len(es)
  OBVIOUS
<1>3. bt \in [1 .. ix -> 1 .. Len(fs)]
  BY <1>2
<1> HIDE DEF bt
<1>4. \A m \in 1 .. Len(fs) : IsLeaf(fs[m]) => \E l \in 1 .. ix : bt[l] = m
  <2> SUFFICES ASSUME NEW m \in 1 .. Len(fs), IsLeaf(fs[m])  PROVE \E l \in 1 .. ix : bt[l] = m
    OBVIOUS
  <2>1. PICK k \in 1 .. Len(es) : new[k] = m /\ IsLeaf(es[k])
    OBVIOUS
  <2>2. PICK l \in 1 .. ix : at[l] = k
    BY <2>1, <1>1
  <2> QED  BY <2>1, <2>2, <1>2
<1>5. \A l \in 1 .. ix : fs[bt[l]] = Parser!Leaf(st[l])
  BY <1>1, <1>2
<1>6. \A l \in 1 .. ix : \A m \in 1 .. l - 1 : bt[m] < bt[l]
  <2>1. \A l \in 1 .. ix : \A m \in 1 .. l - 1 : m \in 1 .. ix
    OBVIOUS
  <2> QED  BY <2>1, <1>1, <1>2
<1> QED  BY <1>3, <1>4, <1>5, <1>6 DEF IsTiled

LEMMA LeafIs ==
  ASSUME Streaming
  PROVE  \A l \in 1 .. Len(stream) : IsLeaf(Parser!Leaf(stream[l]))
  BY StreamIs DEF IsLeaf, Parser!Leaf

LEMMA AppendTiles ==
  ASSUME Streaming, NEW W, NEW es \in Seq(Element(W)), NEW node \in Element(W), ~IsLeaf(node),
         NEW ix \in 0 .. Len(stream), IsTiled(es, ix, stream)
  PROVE  IsTiled(Append(es, node), ix, stream)
<1> DEFINE fs == Append(es, node)
<1> DEFINE new == [k \in 1 .. Len(es) |-> k]
<1>1. /\ Len(es) \in Nat /\ Len(fs) = Len(es) + 1 /\ fs[Len(es) + 1] = node
      /\ \A k \in 1 .. Len(es) : fs[k] = es[k]
  BY AppendedIs
<1> HIDE DEF fs
<1>2. new \in [1 .. Len(es) -> 1 .. Len(fs)] /\ (\A k \in 1 .. Len(es) : new[k] = k)
  BY <1>1
<1> HIDE DEF new
<1>3. \A m \in 1 .. Len(fs) : IsLeaf(fs[m]) => \E k \in 1 .. Len(es) : new[k] = m /\ IsLeaf(es[k])
  <2> SUFFICES ASSUME NEW m \in 1 .. Len(fs), IsLeaf(fs[m])
               PROVE  \E k \in 1 .. Len(es) : new[k] = m /\ IsLeaf(es[k])
    OBVIOUS
  <2>1. m \in 1 .. Len(es)
    BY <1>1
  <2> QED  BY <2>1, <1>1, <1>2
<1>4. /\ \A k \in 1 .. Len(es) : IsLeaf(es[k]) => fs[new[k]] = es[k]
      /\ \A k, l \in 1 .. Len(es) : k < l => new[k] < new[l]
  BY <1>1, <1>2
<1>5. ix \in Nat /\ Len(fs) \in Nat /\ \A l \in 1 .. ix : IsLeaf(Parser!Leaf(stream[l]))
  BY <1>1, StreamIs, LeafIs
<1>6. IsTiled(fs, ix, stream)
  BY <1>1, <1>2, <1>3, <1>4, <1>5, TilesMove
<1> QED  BY <1>6 DEF fs

LEMMA InsertTiles ==
  ASSUME Streaming, NEW W, NEW es \in Seq(Element(W)), NEW ws \in Seq(Element(W)), NEW fs \in Seq(Element(W)),
         NEW at \in 0 .. Len(es), IsInserted(fs, es, at, ws), \A k \in 1 .. Len(ws) : ~IsLeaf(ws[k]),
         NEW ix \in 0 .. Len(stream), IsTiled(es, ix, stream)
  PROVE  IsTiled(fs, ix, stream)
<1> DEFINE w == Len(ws)
<1> DEFINE e == Len(es)
<1> DEFINE new == [k \in 1 .. e |-> IF k <= at THEN k ELSE k + w]
<1>1. /\ e \in Nat /\ w \in Nat /\ Len(fs) = e + w /\ at \in Nat /\ at <= e
      /\ \A k \in 1 .. at : fs[k] = es[k]
      /\ \A k \in 1 .. w : fs[at + k] = ws[k] /\ ~IsLeaf(ws[k])
      /\ \A k \in at + 1 .. e : fs[k + w] = es[k]
  BY LenProperties DEF IsInserted
<1> HIDE DEF w, e
<1>2. /\ new \in [1 .. e -> 1 .. Len(fs)]
      /\ \A k \in 1 .. at : new[k] = k
      /\ \A k \in at + 1 .. e : new[k] = k + w
  BY <1>1
<1> HIDE DEF new
<1>3. \A m \in 1 .. Len(fs) : IsLeaf(fs[m]) => \E k \in 1 .. e : new[k] = m /\ IsLeaf(es[k])
  <2> SUFFICES ASSUME NEW m \in 1 .. Len(fs), IsLeaf(fs[m])
               PROVE  \E k \in 1 .. e : new[k] = m /\ IsLeaf(es[k])
    OBVIOUS
  <2>1. CASE m \in 1 .. at
    BY <2>1, <1>1, <1>2
  <2>2. CASE m \in at + 1 .. at + w
    <3>1. m - at \in 1 .. w /\ at + (m - at) = m
      BY <2>2, <1>1
    <3>2. fs[at + (m - at)] = ws[m - at] /\ ~IsLeaf(ws[m - at])
      BY <3>1, <1>1
    <3> QED  BY <3>1, <3>2
  <2>3. CASE m \in at + w + 1 .. Len(fs)
    <3>1. m - w \in at + 1 .. e /\ m - w \in 1 .. e /\ (m - w) + w = m
      BY <2>3, <1>1
    <3>2. new[m - w] = (m - w) + w /\ fs[(m - w) + w] = es[m - w]
      BY <3>1, <1>1, <1>2
    <3> QED  BY <3>1, <3>2
  <2> QED  BY <2>1, <2>2, <2>3, <1>1
<1>4. \A k \in 1 .. e : IsLeaf(es[k]) => fs[new[k]] = es[k]
  <2>1. \A k \in 1 .. e : k \in 1 .. at \/ k \in at + 1 .. e
    BY <1>1
  <2>2. \A k \in 1 .. at : fs[new[k]] = es[k]
    BY <1>1, <1>2
  <2>3. \A k \in at + 1 .. e : fs[new[k]] = es[k]
    BY <1>1, <1>2
  <2> QED  BY <2>1, <2>2, <2>3
<1>5. \A k, l \in 1 .. e : k < l => new[k] < new[l]
  <2>1. \A k \in 1 .. e : k \in 1 .. at \/ k \in at + 1 .. e
    BY <1>1
  <2>2. \A k \in 1 .. e : (k <= at /\ new[k] = k) \/ (k > at /\ new[k] = k + w)
    BY <2>1, <1>2, <1>1
  <2> QED  BY <2>2, <1>1
<1>6. ix \in Nat /\ Len(fs) \in Nat /\ \A l \in 1 .. ix : IsLeaf(Parser!Leaf(stream[l]))
  BY <1>1, StreamIs, LeafIs
<1>7. Len(es) \in Nat /\ new \in [1 .. Len(es) -> 1 .. Len(fs)]
  BY <1>1, <1>2 DEF e
<1>8. /\ \A k \in 1 .. Len(es) : IsLeaf(es[k]) => fs[new[k]] = es[k]
      /\ \A k, l \in 1 .. Len(es) : k < l => new[k] < new[l]
      /\ \A m \in 1 .. Len(fs) : IsLeaf(fs[m]) => \E k \in 1 .. Len(es) : new[k] = m /\ IsLeaf(es[k])
  BY <1>3, <1>4, <1>5 DEF e
<1> QED  BY <1>6, <1>7, <1>8, TilesMove

LEMMA FillTiles ==
  ASSUME Streaming, NEW W, NEW es \in Seq(Element(W)), NEW fs \in Seq(Element(W)),
         NEW at \in Nat, at < Len(es), IsFilled(fs, es, at), ~IsLeaf(es[at + 1]),
         NEW ix \in 0 .. Len(stream), IsTiled(es, ix, stream)
  PROVE  IsTiled(fs, ix, stream)
<1> DEFINE new == [k \in 1 .. Len(es) |-> k]
<1>1. /\ Len(es) \in Nat /\ Len(fs) = Len(es) /\ at + 1 \in 1 .. Len(es)
      /\ \A k \in 1 .. Len(es) : fs[k].kind = es[k].kind /\ (k # at + 1 => fs[k] = es[k])
  BY LenProperties DEF IsFilled
<1>2. new \in [1 .. Len(es) -> 1 .. Len(fs)] /\ (\A k \in 1 .. Len(es) : new[k] = k)
  BY <1>1
<1> HIDE DEF new
<1>3. \A m \in 1 .. Len(fs) : IsLeaf(fs[m]) => new[m] = m /\ IsLeaf(es[m]) /\ m \in 1 .. Len(es)
  BY <1>1, <1>2 DEF IsLeaf
<1>4. /\ \A k \in 1 .. Len(es) : IsLeaf(es[k]) => fs[new[k]] = es[k]
      /\ \A k, l \in 1 .. Len(es) : k < l => new[k] < new[l]
  BY <1>1, <1>2
<1>5. ix \in Nat /\ Len(fs) \in Nat /\ \A l \in 1 .. ix : IsLeaf(Parser!Leaf(stream[l]))
  BY <1>1, StreamIs, LeafIs
<1>6. \A m \in 1 .. Len(fs) : IsLeaf(fs[m]) => \E k \in 1 .. Len(es) : new[k] = m /\ IsLeaf(es[k])
  BY <1>3
<1> QED  BY <1>1, <1>2, <1>4, <1>5, <1>6, TilesMove

\* The tokens as the parser is given them.
Taken == [k \in DOMAIN tokens |-> [kind |-> tokens[k].kind, width |-> tokens[k].width]]

Whole ==
  /\ elems # <<>> => mode = "done" /\ stream = Taken
  /\ offset = AfterIn(tokens, index)
  /\ IsTiled(elems, index, stream)
  /\ rules # <<>> => rules[1].from = 0
  /\ Parser!Built => index = Len(stream) /\ elems[1].size = Len(elems) /\ elems[1].width = offset

LEMMA TakenIs ==
  ASSUME Inv, TreeInv, Whole, elems # <<>>
  PROVE  /\ stream = Taken /\ Len(tokens) \in Nat /\ Len(stream) = Len(tokens) /\ tokens \in Seq(TokenRecord)
         /\ \A k \in 1 .. Len(stream) : stream[k].width = tokens[k].width /\ stream[k].kind = tokens[k].kind
<1>1. tokens \in Seq(TokenRecord) /\ Len(tokens) \in Nat /\ DOMAIN tokens = 1 .. Len(tokens)
  BY TokensHold
<1>2. stream = Taken
  BY DEF Whole
<1>3. /\ DOMAIN Taken = 1 .. Len(tokens)
      /\ \A k \in 1 .. Len(tokens) : Taken[k] = [kind |-> tokens[k].kind, width |-> tokens[k].width]
  BY <1>1 DEF Taken
<1>4. stream \in Seq(TreeToken)
  BY DEF TreeInv, Streaming
<1>5. DOMAIN stream = 1 .. Len(stream) /\ Len(stream) \in Nat
  BY <1>4, LenProperties
<1>6. Len(stream) = Len(tokens)
  <2>1. 1 .. Len(stream) = 1 .. Len(tokens)
    BY <1>2, <1>3, <1>5
  <2>2. ASSUME NEW a \in Nat, NEW b \in Nat, 1 .. a = 1 .. b  PROVE ~(a < b)
    <3>1. a < b => b \in 1 .. b /\ b \notin 1 .. a
      OBVIOUS
    <3> QED  BY <3>1, <2>2
  <2>3. ~(Len(stream) < Len(tokens)) /\ ~(Len(tokens) < Len(stream))
    BY <2>1, <2>2, <1>1, <1>5
  <2>4. \A a, b \in Nat : ~(a < b) /\ ~(b < a) => a = b
    OBVIOUS
  <2>5. Len(stream) \in Nat /\ Len(tokens) \in Nat
    BY <1>1, <1>5
  <2> QED  BY <2>3, <2>4, <2>5, Zenon
<1> QED  BY <1>1, <1>2, <1>3, <1>6

\* Where the tokens before an index end is where the last of them ends.
LEMMA OffsetIs ==
  ASSUME Inv, TreeInv, Whole, elems # <<>>, NEW to \in index .. Len(stream)
  PROVE  offset + Parser!WidthTo(to) = AfterIn(tokens, to)
<1>1. Streaming /\ index \in Nat /\ Len(stream) \in Nat /\ index <= Len(stream)
  BY StreamIs DEF TreeInv, Streaming
<1>2. /\ Len(stream) = Len(tokens) /\ DOMAIN tokens = 1 .. Len(stream)
      /\ \A k \in 1 .. Len(stream) : stream[k].width = tokens[k].width
  BY TakenIs, TokensHold
<1>3. \A k \in 1 .. Len(stream) : tokens[k].at \in Nat /\ tokens[k].width \in Nat
  <2>1. \A k \in 1 .. Len(tokens) : tokens[k] \in TokenRecord
    BY TokensHold, ElementOfSeq
  <2>2. \A t \in TokenRecord : t.at \in Nat /\ t.width \in Nat
    BY DEF TokenRecord
  <2> QED  BY <2>1, <2>2, <1>2
<1>4. \A k \in 1 .. Len(stream) :
        tokens[k].at = IF k = 1 THEN 0 ELSE tokens[k - 1].at + tokens[k - 1].width
  BY <1>2 DEF Inv, EveryByteIsInOneToken
<1> DEFINE m == Len(stream)
<1>5. \A k \in 0 .. m : AfterIn(tokens, k) \in Nat
  <2>1. \A k \in 0 .. m : k # 0 => k \in 1 .. m
    BY <1>1
  <2> QED  BY <2>1, <1>3 DEF AfterIn
<1>6. \A k \in 1 .. m : AfterIn(tokens, k) = AfterIn(tokens, k - 1) + stream[k].width
  <2> SUFFICES ASSUME NEW k \in 1 .. m
               PROVE  AfterIn(tokens, k) = AfterIn(tokens, k - 1) + stream[k].width
    OBVIOUS
  <2>1. k # 0 /\ (k = 1 <=> k - 1 = 0) /\ k \in Int
    BY <1>1
  <2>2. tokens[k].at = AfterIn(tokens, k - 1)
    BY <2>1, <1>4 DEF AfterIn
  <2> QED  BY <2>1, <2>2, <1>2 DEF AfterIn
<1> HIDE DEF m
<1> DEFINE g == [k \in index .. to |-> AfterIn(tokens, k)]
<1>7. \A k \in index .. to : k \in 0 .. m
  BY <1>1 DEF m
<1>8. g \in [index .. to -> Nat] /\ (\A k \in index .. to : g[k] = AfterIn(tokens, k))
  BY <1>5, <1>7
<1>9. index \in index .. to /\ to \in index .. to
  BY <1>1
<1> HIDE DEF g
<1>10. \A k \in index + 1 .. to : g[k] = g[k - 1] + stream[k].width
  <2> SUFFICES ASSUME NEW k \in index + 1 .. to  PROVE g[k] = g[k - 1] + stream[k].width
    OBVIOUS
  <2>1. k \in index .. to /\ k - 1 \in index .. to /\ k \in 1 .. m
    BY <1>1 DEF m
  <2> QED  BY <2>1, <1>6, <1>8
<1>11. Parser!WidthTo(to) = g[to] - g[index]
  BY <1>1, <1>8, <1>10, WidthIs
<1>12. offset = g[index] /\ AfterIn(tokens, to) = g[to] /\ g[to] \in Nat /\ g[index] \in Nat
  BY <1>8, <1>9 DEF Whole
<1>13. \A a, b \in Nat : a + (b - a) = b
  OBVIOUS
<1> QED  BY <1>11, <1>12, <1>13

\* The leaves of what was there and of the tokens that are emitted.
LEMMA EmittedTiles ==
  ASSUME Streaming, Whole, NEW W, Grown(W), elems # <<>>, NEW to \in index .. Len(stream)
  PROVE  /\ Parser!Emitted(to) \in Seq(Element(W)) /\ Parser!Emitted(to) # <<>> /\ Len(Parser!Emitted(to)) \in Nat
         /\ IsTiled(Parser!Emitted(to), to, stream)
<1>1. /\ index \in 0 .. Len(stream) /\ Nat \subseteq W /\ elems \in Seq(Element(W))
  BY DEF Streaming, Grown
<1>2. /\ Parser!Emitted(to) = elems \o LeavesOf(index, to)
      /\ Parser!Emitted(to) \in Seq(Element(W)) /\ Parser!Emitted(to) # <<>>
  BY EmittedIs
<1>3. IsTiled(elems, index, stream)
  BY DEF Whole
<1>4. IsTiled(elems \o LeavesOf(index, to), to, stream)
  BY <1>1, <1>3, EmitTiles
<1> QED  BY <1>2, <1>4, LenProperties

LEMMA AppendedFirst ==
  ASSUME NEW S, NEW s \in Seq(S), s # <<>>, NEW x \in S
  PROVE  Append(s, x) # <<>> /\ Append(s, x)[1] = s[1]
<1>1. Len(s) \in Nat /\ Len(s) # 0 /\ Len(Append(s, x)) = Len(s) + 1
  BY EmptySeq, AppendedIs
<1>2. 1 \in 1 .. Len(s) /\ Len(Append(s, x)) # 0
  BY <1>1
<1> QED  BY <1>2, AppendedIs, EmptySeq

\* What a step of the rules has to show of the next state.
Tiles(ix, off, es, rs) ==
  /\ ix \in index .. Len(stream) /\ off = offset + Parser!WidthTo(ix)
  /\ es # <<>> /\ IsTiled(es, ix, stream)
  /\ rs # <<>> /\ rs[1].from = rules[1].from

LEMMA StaysWhole ==
  ASSUME Inv, TreeInv, Whole, elems # <<>>, rules # <<>>, UNCHANGED vars, stream' = stream,
         Tiles(index', offset', elems', rules')
  PROVE  Whole'
<1>1. mode' = "done" /\ stream' = Taken'
  BY DEF Whole, Taken, vars
<1>2. offset' = AfterIn(tokens', index')
  <2>1. index' \in index .. Len(stream) /\ offset' = offset + Parser!WidthTo(index') /\ tokens' = tokens
    BY DEF Tiles, vars
  <2>2. PICK to \in index .. Len(stream) : to = index'
    BY <2>1
  <2>3. offset + Parser!WidthTo(to) = AfterIn(tokens, to)
    BY OffsetIs
  <2> QED  BY <2>1, <2>2, <2>3
<1>3. IsTiled(elems', index', stream')
  BY DEF Tiles
<1>4. rules' # <<>> /\ rules'[1].from = 0
  BY DEF Tiles, Whole
<1>5. ~Parser!Built'
  BY <1>4 DEF Parser!Built
<1> QED  BY <1>1, <1>2, <1>3, <1>4, <1>5 DEF Whole, AfterIn, IsTiled, Parser!Leaf, IsLeaf, NodeKind

LEMMA StartWhole ==
  ASSUME Inv, TreeInv, Whole, UNCHANGED vars, NEW kind \in NodeKinds, Parser!Start(kind)
  PROVE  Whole'
<1>1. PICK W : Grown(W)
  BY DEF TreeInv
<1> DEFINE to == Parser!Flushed
<1> DEFINE es == Parser!Emitted(to)
<1> DEFINE node == Parser!Wrapper(kind, 0, 0)
<1> DEFINE rule == Parser!Held("node", Len(es), offset')
<1> DEFINE V == W \cup {offset'}
<1>2. Streaming /\ Grown(V) /\ Parser!Running
  BY <1>1, GrowsTree DEF TreeInv, Parser!Start
<1>3. to \in index .. Len(stream)
  BY <1>2, FlushedIs
<1>4. /\ elems # <<>> /\ rules # <<>> /\ Len(rules) \in Nat /\ Len(rules) # 0 /\ offset' \in V
      /\ Nat \subseteq V /\ elems \in Seq(Element(V)) /\ rules \in Seq(Rule(V))
  BY <1>2, RunningIs DEF Grown
<1>5. /\ index' = to /\ offset' = offset + Parser!WidthTo(to) /\ stream' = stream
      /\ elems' = Append(es, node) /\ rules' = Append(rules, rule)
  BY DEF Parser!Start, Parser!Emit
<1> HIDE DEF V
<1>6. es \in Seq(Element(V)) /\ Len(es) \in Nat /\ IsTiled(es, to, stream)
  BY <1>2, <1>3, <1>4, EmittedTiles
<1> HIDE DEF es, to
<1>7. node \in Element(V) /\ ~IsLeaf(node)
  BY <1>4 DEF Element, NodeKind, Parser!Wrapper, IsLeaf
<1>8. rule \in Rule(V)
  BY <1>4, <1>6, EmptySeq DEF Rule, Parser!Held
<1> HIDE DEF node, rule
<1>9. IsTiled(Append(es, node), to, stream)
  <2>1. to \in 0 .. Len(stream)
    BY <1>2, <1>3, StreamIs
  <2> QED  BY <2>1, <1>2, <1>6, <1>7, AppendTiles
<1>10. Append(es, node) # <<>>
  <2>1. Len(Append(es, node)) # 0
    BY <1>6, <1>7, AppendedIs
  <2> QED  BY <2>1, EmptySeq
<1>11. Append(rules, rule) # <<>> /\ Append(rules, rule)[1] = rules[1]
  BY <1>4, <1>8, AppendedFirst
<1>12. Tiles(index', offset', elems', rules')
  BY <1>3, <1>5, <1>9, <1>10, <1>11 DEF Tiles
<1> QED  BY <1>4, <1>5, <1>12, StaysWhole

LEMMA CheckpointWhole ==
  ASSUME Inv, TreeInv, Whole, UNCHANGED vars, NEW what \in {"mark", "chain"}, Parser!Checkpoint(what)
  PROVE  Whole'
<1>1. PICK W : Grown(W)
  BY DEF TreeInv
<1> DEFINE to == Parser!Flushed
<1> DEFINE es == Parser!Emitted(to)
<1> DEFINE rule == Parser!Held(what, Len(es), offset')
<1> DEFINE V == W \cup {offset'}
<1>2. Streaming /\ Grown(V) /\ Parser!Running
  BY <1>1, GrowsTree DEF TreeInv, Parser!Checkpoint
<1>3. to \in index .. Len(stream)
  BY <1>2, FlushedIs
<1>4. /\ elems # <<>> /\ rules # <<>> /\ offset' \in V /\ rules \in Seq(Rule(V))
  BY <1>2, RunningIs DEF Grown
<1>5. /\ index' = to /\ offset' = offset + Parser!WidthTo(to) /\ stream' = stream
      /\ elems' = es /\ rules' = Append(rules, rule)
  BY DEF Parser!Checkpoint, Parser!Emit
<1> HIDE DEF V
<1>6. es \in Seq(Element(V)) /\ es # <<>> /\ Len(es) \in Nat /\ IsTiled(es, to, stream)
  BY <1>2, <1>3, <1>4, EmittedTiles
<1> HIDE DEF es, to
<1>7. rule \in Rule(V)
  BY <1>4, <1>6, EmptySeq DEF Rule, Parser!Held
<1> HIDE DEF rule
<1>8. Append(rules, rule) # <<>> /\ Append(rules, rule)[1] = rules[1]
  BY <1>4, <1>7, AppendedFirst
<1>9. Tiles(index', offset', elems', rules')
  BY <1>3, <1>5, <1>6, <1>8 DEF Tiles
<1> QED  BY <1>4, <1>5, <1>9, StaysWhole

LEMMA BumpWhole ==
  ASSUME Inv, TreeInv, Whole, UNCHANGED vars, Parser!Bump
  PROVE  Whole'
<1>1. PICK W : Grown(W)
  BY DEF TreeInv
<1>2. Streaming /\ Parser!Running /\ elems # <<>> /\ rules # <<>>
  BY <1>1, RunningIs DEF TreeInv, Parser!Bump
<1>3. Parser!Bumped \in index .. Len(stream)
  BY <1>2, FlushedIs, StreamIs
<1>4. /\ index' = Parser!Bumped /\ offset' = offset + Parser!WidthTo(Parser!Bumped)
      /\ elems' = Parser!Emitted(Parser!Bumped) /\ rules' = rules /\ stream' = stream
  BY DEF Parser!Bump, Parser!Emit
<1>5. /\ Parser!Emitted(Parser!Bumped) # <<>> /\ IsTiled(Parser!Emitted(Parser!Bumped), Parser!Bumped, stream)
  BY <1>1, <1>2, <1>3, EmittedTiles
<1>6. Tiles(index', offset', elems', rules')
  BY <1>2, <1>3, <1>4, <1>5 DEF Tiles
<1> QED  BY <1>2, <1>4, <1>6, StaysWhole

LEMMA NoneTaken ==
  ASSUME Inv, TreeInv, Whole, elems # <<>>
  PROVE  index \in index .. Len(stream) /\ offset = offset + Parser!WidthTo(index)
<1>1. index \in index .. Len(stream)
  BY StreamIs DEF TreeInv, Streaming
<1> QED  BY <1>1, OffsetIs DEF Whole

\* A step that takes no token.
LEMMA StillWhole ==
  ASSUME Inv, TreeInv, Whole, elems # <<>>, rules # <<>>, UNCHANGED vars, UNCHANGED <<stream, index, offset>>,
         elems' # <<>>, IsTiled(elems', index, stream), rules' # <<>>, rules'[1].from = rules[1].from
  PROVE  Whole'
<1>1. index \in index .. Len(stream) /\ offset = offset + Parser!WidthTo(index)
  BY NoneTaken
<1>2. Tiles(index', offset', elems', rules')
  BY <1>1 DEF Tiles
<1> QED  BY <1>2, StaysWhole

\* The first of the running rules goes on when another returns.
LEMMA BelowIs ==
  ASSUME NEW S, NEW s \in Seq(S), Len(s) > 1
  PROVE  SubSeq(s, 1, Len(s) - 1) # <<>> /\ SubSeq(s, 1, Len(s) - 1)[1] = s[1]
<1> DEFINE m == Len(s) - 1
<1>1. Len(s) \in Nat
  BY LenProperties
<1>2. 1 \in Int /\ m \in Int /\ 1 <= m
  BY <1>1
<1>3. \A k \in 1 .. m : s[k] \in S
  BY <1>1, ElementOfSeq
<1> HIDE DEF m
<1>4. /\ Len(SubSeq(s, 1, m)) = IF 1 <= m THEN m - 1 + 1 ELSE 0
      /\ \A k \in 1 .. m - 1 + 1 : SubSeq(s, 1, m)[k] = s[1 + k - 1]
  BY <1>2, <1>3, SubSeqProperties
<1>5. 1 \in 1 .. m - 1 + 1 /\ m - 1 + 1 # 0
  BY <1>2
<1>6. Len(SubSeq(s, 1, m)) # 0 /\ SubSeq(s, 1, m)[1] = s[1]
  BY <1>2, <1>4, <1>5
<1> QED  BY <1>6, EmptySeq DEF m

LEMMA FinishWhole ==
  ASSUME Inv, TreeInv, Whole, UNCHANGED vars, Parser!Finish
  PROVE  Whole'
<1>1. PICK W : Grown(W)
  BY DEF TreeInv
<1> DEFINE node == Parser!Top
<1> DEFINE V == W \cup {offset - node.from}
<1> DEFINE fs == Parser!ClosedIn(elems, node, offset)
<1>2. Parser!Running /\ Len(rules) > 1
  <2>1. Len(rules) > 1
    BY DEF Parser!Finish
  <2> QED  BY <2>1, EmptySeq DEF Parser!Running
<1>3. Streaming /\ Grown(V)
  BY <1>1, GrowsTree DEF TreeInv
<1>4. /\ elems # <<>> /\ rules # <<>> /\ elems \in Seq(Element(V)) /\ rules \in Seq(Rule(V))
      /\ node.index \in Nat /\ offset - node.from \in V
  BY <1>2, <1>3, RunningIs DEF Grown
<1>5. node.index < Len(elems) /\ ~IsLeaf(elems[node.index + 1])
  BY <1>2, <1>3, RunningIs DEF Parser!Finish
<1>6. /\ UNCHANGED <<stream, index, offset>> /\ elems' = fs /\ rules' = SubSeq(rules, 1, Len(rules) - 1)
  BY DEF Parser!Finish, Parser!Below
<1> HIDE DEF V, node
<1>7. fs \in Seq(Element(V)) /\ IsFilled(fs, elems, node.index)
  BY <1>4, <1>5, ClosedIs
<1> HIDE DEF fs
<1>8. index \in 0 .. Len(stream) /\ IsTiled(elems, index, stream)
  BY <1>3 DEF Streaming, Whole
<1>9. IsTiled(fs, index, stream)
  BY <1>3, <1>4, <1>5, <1>7, <1>8, FillTiles
<1>10. fs # <<>>
  <2>1. Len(fs) = Len(elems) /\ Len(elems) # 0
    BY <1>4, <1>7, EmptySeq DEF IsFilled
  <2> QED  BY <2>1, EmptySeq
<1>11. rules' # <<>> /\ rules'[1] = rules[1]
  BY <1>2, <1>4, <1>6, BelowIs
<1> QED  BY <1>4, <1>6, <1>9, <1>10, <1>11, StillWhole

LEMMA ReturnWhole ==
  ASSUME Inv, TreeInv, Whole, UNCHANGED vars, Parser!Return
  PROVE  Whole'
<1>1. PICK W : Grown(W)
  BY DEF TreeInv
<1>2. /\ elems # <<>> /\ rules # <<>> /\ rules \in Seq(Rule(W)) /\ Len(rules) > 1
  BY <1>1, RunningIs DEF Parser!Return, Grown
<1>3. UNCHANGED <<stream, index, offset, elems>> /\ rules' = SubSeq(rules, 1, Len(rules) - 1)
  BY DEF Parser!Return, Parser!Below
<1>4. rules' # <<>> /\ rules'[1] = rules[1]
  BY <1>2, <1>3, BelowIs
<1>5. elems' # <<>> /\ IsTiled(elems', index, stream)
  BY <1>2, <1>3 DEF Whole
<1> QED  BY <1>2, <1>3, <1>4, <1>5, StillWhole

LEMMA InsertWhole ==
  ASSUME Streaming, Whole, NEW W, Grown(W), Parser!Running,
         NEW ws \in Seq(Element(W)), \A k \in 1 .. Len(ws) : ~IsLeaf(ws[k])
  PROVE  /\ IsTiled(Parser!InsertedAt(Parser!Top.index, ws), index, stream)
         /\ Parser!InsertedAt(Parser!Top.index, ws) # <<>>
<1> DEFINE fs == Parser!InsertedAt(Parser!Top.index, ws)
<1>1. PICK at \in Nat : at = Parser!Top.index /\ at <= Len(elems)
  BY RunningIs
<1>2. elems # <<>> /\ elems \in Seq(Element(W)) /\ Len(elems) \in Nat /\ Len(ws) \in Nat
  BY RunningIs, LenProperties DEF Grown
<1>3. at \in 0 .. Len(elems)
  BY <1>1, <1>2
<1>4. fs = Inserted(elems, at, ws)
  BY <1>1 DEF Parser!InsertedAt, Inserted
<1>5. fs \in Seq(Element(W)) /\ IsInserted(fs, elems, at, ws)
  BY <1>2, <1>3, <1>4, InsertedIs
<1> HIDE DEF fs
<1>6. index \in 0 .. Len(stream) /\ IsTiled(elems, index, stream)
  BY DEF Streaming, Whole
<1>7. IsTiled(fs, index, stream)
  BY <1>2, <1>3, <1>5, <1>6, InsertTiles
<1>8. fs # <<>>
  <2>1. Len(fs) = Len(elems) + Len(ws) /\ Len(elems) # 0
    BY <1>2, <1>5, EmptySeq DEF IsInserted
  <2>2. Len(fs) # 0
    BY <2>1, <1>2
  <2> QED  BY <2>2, EmptySeq
<1> QED  BY <1>7, <1>8 DEF fs

LEMMA WrapFromWhole ==
  ASSUME Inv, TreeInv, Whole, UNCHANGED vars, NEW kind \in NodeKinds, Parser!WrapFrom(kind)
  PROVE  Whole'
<1>1. PICK W : Grown(W)
  BY DEF TreeInv
<1> DEFINE V == W \cup {offset - Parser!Top.from}
<1> DEFINE wrap == Parser!Wrapper(kind, offset - Parser!Top.from, Len(elems) - Parser!Top.index + 1)
<1>2. Streaming /\ Grown(V) /\ Parser!Running
  BY <1>1, GrowsTree DEF TreeInv, Parser!WrapFrom
<1>3. PICK at \in Nat : at = Parser!Top.index /\ at <= Len(elems)
  BY <1>2, RunningIs
<1>4. /\ elems # <<>> /\ rules # <<>> /\ Len(elems) \in Nat /\ offset - Parser!Top.from \in V
  BY <1>2, RunningIs, LenProperties DEF Grown
<1>5. /\ UNCHANGED <<stream, index, offset, rules>> /\ elems' = Parser!InsertedAt(Parser!Top.index, <<wrap>>)
  BY DEF Parser!WrapFrom
<1> HIDE DEF V
<1>6. wrap \in Element(V) /\ ~IsLeaf(wrap)
  BY <1>3, <1>4 DEF Parser!Wrapper, Element, NodeKind, IsLeaf
<1> HIDE DEF wrap
<1>7. <<wrap>> \in Seq(Element(V)) /\ \A k \in 1 .. Len(<<wrap>>) : ~IsLeaf(<<wrap>>[k])
  <2>1. <<wrap>> \in Seq(Element(V)) /\ Len(<<wrap>>) = 1 /\ <<wrap>>[1] = wrap
    BY <1>6
  <2>2. \A k \in 1 .. Len(<<wrap>>) : k = 1
    BY <2>1
  <2> QED  BY <2>1, <2>2, <1>6
<1>8. elems' # <<>> /\ IsTiled(elems', index, stream)
  BY <1>2, <1>5, <1>7, InsertWhole
<1> QED  BY <1>4, <1>5, <1>8, StillWhole

LEMMA ChainWrapWhole ==
  ASSUME Inv, TreeInv, Whole, UNCHANGED vars, NEW kind \in NodeKinds, Parser!ChainWrap(kind)
  PROVE  Whole'
<1>1. PICK W : Grown(W)
  BY DEF TreeInv
<1>2. elems # <<>> /\ rules # <<>> /\ rules \in Seq(Rule(W)) /\ Len(rules) \in Nat /\ Len(rules) # 0
  BY <1>1, RunningIs DEF Grown, Parser!ChainWrap
<1>3. /\ UNCHANGED <<stream, index, offset, elems>>
      /\ rules' = [rules EXCEPT ![Len(rules)].wraps = Parser!Recorded(Parser!Top, kind)]
  BY DEF Parser!ChainWrap
<1>4. 1 \in DOMAIN rules /\ rules[1] \in Rule(W) /\ DOMAIN rules = 1 .. Len(rules)
  BY <1>2, LenProperties, ElementOfSeq
<1>5. DOMAIN rules' = DOMAIN rules /\ rules'[1].from = rules[1].from
  BY <1>3, <1>4 DEF Rule
<1>6. rules' # <<>>
  BY <1>4, <1>5
<1>7. elems' # <<>> /\ IsTiled(elems', index, stream)
  BY <1>2, <1>3 DEF Whole
<1> QED  BY <1>2, <1>3, <1>5, <1>6, <1>7, StillWhole

LEMMA CloseChainWhole ==
  ASSUME Inv, TreeInv, Whole, UNCHANGED vars, Parser!CloseChain
  PROVE  Whole'
<1>1. PICK W : Grown(W)
  BY DEF TreeInv
<1> DEFINE last == Len(rules)
<1>2. Streaming /\ Parser!Running /\ Parser!Top.what # "node"
  BY DEF TreeInv, Parser!CloseChain
<1>3. /\ elems # <<>> /\ rules # <<>> /\ last \in 1 .. last /\ Len(rules) > 1
      /\ Parser!Top = rules[last] /\ Parser!Top \in Rule(W) /\ rules \in Seq(Rule(W))
  BY <1>1, <1>2, RunningIs DEF Grown
<1>4. PICK wraps \in Seq(Element(W)) : wraps = Parser!Top.wraps
  BY <1>3 DEF Rule
<1> DEFINE count == Len(wraps)
<1> DEFINE ws == Reverse(wraps)
<1>5. /\ UNCHANGED <<stream, index, offset>> /\ elems' = Parser!InsertedAt(Parser!Top.index, ws)
      /\ rules' = SubSeq(rules, 1, Len(rules) - 1)
  BY <1>4 DEF Parser!CloseChain, Parser!Below, Reverse, Parser!Reverse
<1>6. count \in Nat /\ (\A k \in 1 .. count : wraps[k] \in Element(W))
  BY LenProperties, ElementOfSeq
<1>7. \A k \in 1 .. count : ~IsLeaf(wraps[k])
  <2>1. \A k \in 1 .. count : Reaches(elems, rules[last], k)
    BY <1>1, <1>3, <1>4 DEF Grown, Shape, ChainsReach
  <2> QED  BY <2>1, <1>3, <1>4 DEF Reaches, IsLeaf
<1>8. ws \in Seq(Element(W)) /\ \A k \in 1 .. Len(ws) : ~IsLeaf(ws[k])
  <2>1. ws = [k \in 1 .. count |-> wraps[(count - k) + 1]]
    BY DEF Reverse
  <2>2. \A k \in 1 .. count : (count - k) + 1 \in 1 .. count
    BY <1>6
  <2>3. ws \in [1 .. count -> Element(W)]
    BY <1>6, <2>1, <2>2
  <2> HIDE DEF ws, count
  <2>4. ws \in Seq(Element(W)) /\ Len(ws) = count
    BY <1>6, <2>3
  <2> QED  BY <2>1, <2>2, <2>4, <1>7
<1> HIDE DEF ws, count
<1>9. elems' # <<>> /\ IsTiled(elems', index, stream)
  BY <1>1, <1>2, <1>5, <1>8, InsertWhole
<1>10. rules' # <<>> /\ rules'[1] = rules[1]
  BY <1>3, <1>5, BelowIs
<1> QED  BY <1>3, <1>5, <1>9, <1>10, StillWhole

LEMMA ErrorWhole ==
  ASSUME Inv, TreeInv, Whole, UNCHANGED vars, NEW resync, Parser!ErrorAndRecover(resync)
  PROVE  Whole'
<1>1. PICK W : Grown(W)
  BY DEF TreeInv
<1> DEFINE from == Parser!Flushed
<1> DEFINE to == Parser!RecoveredTo(resync)
<1> DEFINE at == offset + Parser!WidthTo(from)
<1> DEFINE es == Parser!Emitted(from)
<1> DEFINE all == Parser!Emitted(to)
<1> DEFINE error == Parser!Held("node", Len(es), at)
<1> DEFINE node == Parser!Wrapper(Parser!NdError, 0, 0)
<1> DEFINE opened == Append(es, node)
<1> DEFINE rest == SubSeq(all, Len(es) + 1, Len(all))
<1> DEFINE V == W \cup {at, offset' - at}
<1> DEFINE fs == Parser!ClosedIn(opened \o rest, error, offset')
<1>2. Streaming /\ Grown(V) /\ Parser!Running
  BY <1>1, GrowsTree DEF TreeInv, Parser!ErrorAndRecover
<1>3. /\ from \in index .. Len(stream) /\ to \in from .. Len(stream) /\ to \in index .. Len(stream)
      /\ from \in 0 .. Len(stream) /\ to \in 0 .. Len(stream)
  BY <1>2, FlushedIs, RecoveredIs, StreamIs
<1>4. elems # <<>> /\ rules # <<>> /\ Nat \subseteq V /\ offset' - at \in V
  BY <1>2, RunningIs DEF Grown
<1>5. error.index = Len(es) /\ error.from = at
  BY DEF Parser!Held
<1>6. /\ index' = to /\ offset' = offset + Parser!WidthTo(to) /\ UNCHANGED <<rules, stream>> /\ elems' = fs
  BY <1>5 DEF Parser!ErrorAndRecover, Parser!Emit
<1> HIDE DEF V, at
<1>7. es \in Seq(Element(V)) /\ Len(es) \in Nat /\ IsTiled(es, from, stream)
  BY <1>2, <1>3, <1>4, EmittedTiles
<1>8. rest = LeavesOf(from, to) /\ rest \in Seq(Element(V))
  BY <1>2, <1>3, <1>4, RestIs
<1>9. node \in Element(V) /\ ~IsLeaf(node)
  BY <1>4 DEF Parser!Wrapper, Element, NodeKind, IsLeaf
<1> HIDE DEF from, to, es, all, error, node, rest
<1>10. /\ opened \in Seq(Element(V)) /\ Len(opened) = Len(es) + 1 /\ opened[Len(es) + 1] = node
       /\ IsTiled(opened, from, stream)
  BY <1>2, <1>3, <1>7, <1>9, AppendedIs, AppendTiles
<1> HIDE DEF opened
<1> DEFINE gs == opened \o rest
<1>11. gs \in Seq(Element(V)) /\ Len(gs) = Len(opened) + Len(rest) /\ Len(rest) \in Nat
  BY <1>8, <1>10, ConcatProperties, LenProperties
<1>12. gs[Len(es) + 1] = node
  <2>1. \A l \in 1 .. Len(opened) + Len(rest) :
          gs[l] = IF l <= Len(opened) THEN opened[l] ELSE rest[l - Len(opened)]
    BY <1>8, <1>10, ConcatProperties
  <2> HIDE DEF gs
  <2>2. Len(es) + 1 \in 1 .. Len(opened) + Len(rest) /\ Len(es) + 1 <= Len(opened)
    BY <1>7, <1>10, <1>11
  <2> QED  BY <2>1, <2>2, <1>10
<1>13. IsTiled(gs, to, stream)
  <2>1. IsTiled(opened \o LeavesOf(from, to), to, stream)
    BY <1>2, <1>3, <1>4, <1>10, EmitTiles
  <2> QED  BY <2>1, <1>8
<1>14. fs = Parser!ClosedIn(gs, error, offset')
  OBVIOUS
<1> HIDE DEF gs, fs
<1>15. /\ error.index \in Nat /\ error.index < Len(gs) /\ ~IsLeaf(gs[error.index + 1])
       /\ offset' - error.from \in V
  BY <1>4, <1>5, <1>7, <1>9, <1>10, <1>11, <1>12
<1>16. fs \in Seq(Element(V)) /\ IsFilled(fs, gs, error.index)
  BY <1>11, <1>14, <1>15, ClosedIs
<1>17. IsTiled(fs, to, stream)
  BY <1>2, <1>3, <1>11, <1>13, <1>15, <1>16, FillTiles
<1>18. fs # <<>>
  <2>1. Len(fs) = Len(gs) /\ Len(gs) # 0
    BY <1>7, <1>10, <1>11, <1>16 DEF IsFilled
  <2> QED  BY <2>1, EmptySeq
<1>19. Tiles(index', offset', elems', rules')
  BY <1>3, <1>4, <1>6, <1>17, <1>18 DEF Tiles
<1> QED  BY <1>4, <1>6, <1>19, StaysWhole

\* At the end every token is taken: the end is the last of them.
LEMMA EofIs ==
  ASSUME Inv, TreeInv, Whole, elems # <<>>, Parser!Eof
  PROVE  Parser!Bumped = Len(stream)
<1>1. Streaming
  BY DEF TreeInv
<1>2. /\ Len(stream) \in Nat /\ index \in Nat /\ Parser!Flushed \in index .. Len(stream)
  BY <1>1, StreamIs, FlushedIs
<1>3. CASE Parser!Flushed = Len(stream)
  BY <1>2, <1>3 DEF Parser!Bumped
<1>4. CASE Parser!Flushed # Len(stream)
  <2> DEFINE k == Parser!Flushed + 1
  <2>1. stream[k].kind = "TkEof"
    BY <1>4 DEF Parser!Eof, Parser!At, Parser!Flushed
  <2>2. k \in 1 .. Len(stream) /\ Parser!Bumped = k
    BY <1>2, <1>4 DEF Parser!Bumped
  <2> HIDE DEF k
  <2>3. tokens[k].kind = "TkEof" /\ k \in DOMAIN tokens /\ Len(stream) = Len(tokens)
    BY <2>1, <2>2, TakenIs, TokensHold
  <2>4. k = Len(tokens)
    BY <2>3 DEF Inv, EveryByteIsInOneToken
  <2> QED  BY <2>2, <2>3, <2>4
<1> QED  BY <1>3, <1>4

LEMMA EndWhole ==
  ASSUME Inv, TreeInv, Whole, UNCHANGED vars, Parser!End
  PROVE  Whole'
<1>1. PICK W : Grown(W)
  BY DEF TreeInv
<1> DEFINE root == Parser!Top
<1> DEFINE to == Parser!Bumped
<1> DEFINE es == Parser!Emitted(to)
<1> DEFINE V == W \cup {offset' - root.from}
<1> DEFINE fs == Parser!ClosedIn(es, root, offset')
<1>2. Streaming /\ Grown(V) /\ Parser!Running /\ Len(rules) = 1
  <2>1. Len(rules) = 1
    BY DEF Parser!End
  <2>2. Parser!Running
    BY <2>1, EmptySeq DEF Parser!Running
  <2> QED  BY <1>1, <2>1, <2>2, GrowsTree DEF TreeInv
<1>3. /\ elems # <<>> /\ rules # <<>> /\ root = rules[1] /\ offset' - root.from \in V /\ root.from = 0
      /\ Nested(elems, rules)
  BY <1>2, RunningIs DEF Grown, Whole, Shape
<1>4. to = Len(stream) /\ to \in index .. Len(stream) /\ to \in 0 .. Len(stream)
  <2>1. to = Len(stream)
    BY <1>3, EofIs DEF Parser!End
  <2> QED  BY <2>1, <1>2, StreamIs DEF Streaming
<1>5. /\ index' = to /\ offset' = offset + Parser!WidthTo(to)
      /\ elems' = fs /\ rules' = <<>> /\ stream' = stream
  BY DEF Parser!End, Parser!Emit
<1>6. root.index = 0 /\ root.what = "node"
  BY <1>3 DEF Nested
<1>7. es \in Seq(Element(V)) /\ es # <<>> /\ Len(es) \in Nat /\ IsTiled(es, to, stream)
  BY <1>2, <1>3, <1>4, EmittedTiles
<1>8. ~IsLeaf(es[1]) /\ 0 < Len(es)
  <2>1. Shape(es, rules, Quiet(stream, to))
    BY <1>2, <1>3, <1>4, EmittedIs
  <2>2. 1 \in 1 .. Len(rules)
    BY <1>2
  <2>3. Nested(es, rules)
    BY <2>1 DEF Shape
  <2> HIDE DEF es, root
  <2>4. rules[1].index < Len(es) /\ ~IsLeaf(es[rules[1].index + 1])
    BY <2>2, <2>3, <1>3, <1>6 DEF Nested
  <2> QED  BY <2>4, <1>3, <1>6
<1>9. offset' = AfterIn(tokens, to)
  BY <1>3, <1>4, <1>5, OffsetIs
<1> HIDE DEF V, root, to, es
<1>10. /\ fs \in Seq(Element(V)) /\ IsFilled(fs, es, root.index)
       /\ fs[root.index + 1].width = offset' - root.from
  BY <1>3, <1>6, <1>7, <1>8, ClosedIs
<1> HIDE DEF fs
<1>11. IsTiled(fs, to, stream)
  BY <1>2, <1>4, <1>6, <1>7, <1>8, <1>10, FillTiles
<1>12. fs # <<>> /\ fs[1].size = Len(fs)
  <2>1. Len(fs) = Len(es) /\ fs[1].size = Len(es) /\ Len(es) # 0
    BY <1>6, <1>7, <1>8, <1>10 DEF IsFilled
  <2> QED  BY <2>1, EmptySeq
<1>13. fs[1].width = offset'
  <2>1. offset' \in Int
    <3>1. to = 0 \/ (tokens[to].at \in Nat /\ tokens[to].width \in Nat)
      <4>1. to = Len(tokens) /\ Len(tokens) \in Nat /\ tokens \in Seq(TokenRecord)
        BY <1>3, <1>4, TakenIs
      <4>2. to # 0 => tokens[to] \in TokenRecord
        BY <4>1, ElementOfSeq
      <4> QED  BY <4>2 DEF TokenRecord
    <3> QED  BY <3>1, <1>9 DEF AfterIn
  <2>2. fs[1].width = offset' - 0
    BY <1>3, <1>6, <1>10
  <2>3. \A o \in Int : o - 0 = o
    OBVIOUS
  <2>4. offset' - 0 = offset'
    BY <2>1, <2>3
  <2> QED  BY <2>2, <2>4
<1>14. /\ mode' = "done" /\ stream' = Taken' /\ offset' = AfterIn(tokens', index')
  BY <1>3, <1>5, <1>9 DEF Whole, Taken, vars
<1>15. IsTiled(elems', index', stream')
  BY <1>5, <1>11
<1>16. Parser!Built' => index' = Len(stream') /\ elems'[1].size = Len(elems') /\ elems'[1].width = offset'
  BY <1>4, <1>5, <1>12, <1>13
<1> QED  BY <1>5, <1>14, <1>15, <1>16 DEF Whole, AfterIn, IsTiled, Parser!Leaf, IsLeaf, NodeKind

LEMMA InitWhole == SyntaxInit => Whole
<1> SUFFICES ASSUME SyntaxInit  PROVE Whole
  OBVIOUS
<1>1. stream = <<>> /\ index = 0 /\ offset = 0 /\ elems = <<>> /\ rules = <<>>
  BY DEF SyntaxInit, Parser!Init
<1>2. IsTiled(<<>>, 0, <<>>)
  <2> DEFINE none == [l \in 1 .. 0 |-> 0]
  <2>1. Len(<<>>) = 0 /\ 1 .. 0 = {}
    OBVIOUS
  <2>2. none \in [1 .. 0 -> 1 .. 0]
    BY <2>1
  <2> QED  BY <2>1, <2>2 DEF IsTiled
<1> QED  BY <1>1, <1>2 DEF Whole, AfterIn, Parser!Built

LEMMA ParseWhole ==
  ASSUME Inv, TreeInv, Whole, Parse
  PROVE  Whole'
<1> DEFINE root == Parser!Wrapper(Parser!NdModule, 0, 0)
<1> DEFINE rule == Parser!Held("node", 0, 0)
<1>1. /\ UNCHANGED vars /\ mode = "done" /\ stream' = Taken /\ index' = 0 /\ offset' = offset
      /\ elems' = <<root>> /\ rules' = <<rule>> /\ elems = <<>> /\ index = 0
  BY DEF Parse, Taken, Parser!StartModule, TreeInv
<1>2. ~IsLeaf(root) /\ rule.from = 0
  BY DEF Parser!Wrapper, Parser!Held, IsLeaf, NodeKind
<1> HIDE DEF root, rule
<1>3. <<root>> # <<>> /\ Len(<<root>>) = 1 /\ <<root>>[1] = root /\ <<rule>> # <<>> /\ <<rule>>[1] = rule
  OBVIOUS
<1>4. IsTiled(<<root>>, 0, stream')
  <2> DEFINE none == [l \in 1 .. 0 |-> 0]
  <2>1. 1 .. 0 = {} /\ \A k \in 1 .. 1 : k = 1
    OBVIOUS
  <2>2. none \in [1 .. 0 -> 1 .. 1]
    BY <2>1
  <2>3. \A k \in 1 .. 1 : ~IsLeaf(<<root>>[k])
    BY <2>1, <1>2, <1>3
  <2> QED  BY <2>1, <2>2, <2>3, <1>3 DEF IsTiled
<1>5. offset = 0
  BY <1>1 DEF Whole, AfterIn
<1>6. rules' # <<>> /\ ~Parser!Built'
  BY <1>1, <1>3 DEF Parser!Built
<1>7. mode' = "done" /\ stream' = Taken' /\ offset' = AfterIn(tokens', index') /\ rules'[1].from = 0
  BY <1>1, <1>2, <1>3, <1>5 DEF Taken, AfterIn, vars
<1>8. IsTiled(elems', index', stream')
  BY <1>1, <1>4
<1> QED  BY <1>6, <1>7, <1>8 DEF Whole, AfterIn, IsTiled, Parser!Leaf, IsLeaf, NodeKind

LEMMA ScanWhole ==
  ASSUME Inv, TreeInv, Whole, Next, UNCHANGED parser
  PROVE  Whole'
<1>1. mode # "done"
  BY DEF Next, Whitespace, LineComment, NestedComment, InComment, CommentDone, Token, Quote, InQuoted,
         QuotedDone, InTriple, TripleDone, Unterminated, End, Scanning, Quoted
<1>2. elems = <<>> /\ index = 0
  BY <1>1 DEF Whole, TreeInv
<1>3. UNCHANGED <<stream, index, offset, elems, rules>>
  BY DEF parser
<1>4. Whole' <=> Whole
  BY <1>2, <1>3 DEF Whole, AfterIn, IsTiled, Parser!Built, Parser!Leaf, IsLeaf, NodeKind
<1> QED  BY <1>4

LEMMA SyntaxNextWhole ==
  ASSUME Inv, TreeInv, Whole, [SyntaxNext]_<<vars, parser>>
  PROVE  Whole'
<1>1. CASE UNCHANGED <<vars, parser>>
  BY <1>1 DEF vars, parser, Whole, Taken, AfterIn, IsTiled, Parser!Built, Parser!Leaf, IsLeaf, NodeKind
<1>2. CASE Scan
  BY <1>2, ScanWhole DEF Scan
<1>3. CASE Ready
  BY <1>1, <1>3 DEF Ready
<1>4. CASE Parse
  BY <1>4, ParseWhole
<1>5. CASE Building
  <2>1. Parser!Step /\ UNCHANGED vars
    BY <1>5 DEF Building
  <2>2. CASE Parser!Finish \/ Parser!Return \/ Parser!CloseChain \/ Parser!Bump \/ Parser!End
    BY <2>1, <2>2, FinishWhole, ReturnWhole, CloseChainWhole, BumpWhole, EndWhole
  <2>3. CASE \E kind \in NodeKinds : Parser!Start(kind) \/ Parser!WrapFrom(kind) \/ Parser!ChainWrap(kind)
    BY <2>1, <2>3, StartWhole, WrapFromWhole, ChainWrapWhole
  <2>4. CASE \E what \in {"mark", "chain"} : Parser!Checkpoint(what)
    BY <2>1, <2>4, CheckpointWhole
  <2>5. CASE \E resync \in SUBSET Parser!Kinds : Parser!ErrorAndRecover(resync)
    BY <2>1, <2>5, ErrorWhole
  <2> QED  BY <2>1, <2>2, <2>3, <2>4, <2>5 DEF Parser!Step
<1> QED  BY <1>1, <1>2, <1>3, <1>4, <1>5 DEF SyntaxNext

THEOREM TreesAreWhole == SyntaxSpec => []Whole
<1>1. Inv /\ TreeInv /\ Whole /\ (Inv /\ TreeInv)' /\ [SyntaxNext]_<<vars, parser>> => Whole'
  BY SyntaxNextWhole
<1> QED  BY InitWhole, TreesAreGrown, <1>1, PTL DEF SyntaxSpec

(***************************************************************************)
(* "Lossless: the leaves tile the source in order, so `reprint` reproduces *)
(* it" (syntax_tree.pony:14): of any source, by any rules that close what  *)
(* they open, the tree has the tokens for its leaves, each once, in order  *)
(* and with its width, and a root that covers them and every byte.         *)
(***************************************************************************)
THEOREM NothingIsLost == SyntaxSpec => []Lossless
<1>1. Inv /\ TreeInv /\ Whole => Lossless
  <2> SUFFICES ASSUME Inv, TreeInv, Whole  PROVE Lossless
    OBVIOUS
  <2>1. Parser!Built => index = Len(tokens) /\ elems[1].size = Len(elems) /\ elems[1].width = n
    <3> SUFFICES ASSUME Parser!Built
                 PROVE  index = Len(tokens) /\ elems[1].size = Len(elems) /\ elems[1].width = n
      OBVIOUS
    <3>1. elems # <<>> /\ mode = "done"
      BY DEF Parser!Built, Whole
    <3>2. index = Len(tokens) /\ elems[1].size = Len(elems) /\ elems[1].width = AfterIn(tokens, Len(tokens))
      BY <3>1, TakenIs DEF Whole
    <3>3. tokens # <<>> /\ tokens[Len(tokens)].kind = "TkEof"
      BY <3>1 DEF Inv, EveryByteIsInOneToken
    <3>4. Len(tokens) \in DOMAIN tokens /\ Len(tokens) # 0
      BY <3>3, TokensHold, EmptySeq
    <3>5. tokens[Len(tokens)].at + tokens[Len(tokens)].width = i /\ i = n
      BY <3>3, <3>4 DEF Inv, EveryByteIsInOneToken
    <3> QED  BY <3>2, <3>4, <3>5 DEF AfterIn
  <2>2. PICK at \in [1 .. index -> 1 .. Len(elems)] :
          /\ \A k \in 1 .. Len(elems) : IsLeaf(elems[k]) => \E l \in 1 .. index : at[l] = k
          /\ \A l \in 1 .. index :
               /\ elems[at[l]] = Parser!Leaf(stream[l])
               /\ \A m \in 1 .. l - 1 : at[m] < at[l]
    BY DEF Whole, IsTiled
  <2>3. Leaves = {k \in 1 .. Len(elems) : IsLeaf(elems[k])}
    <3>1. PICK W : elems \in Seq(Element(W))
      BY DEF TreeInv, Grown
    <3>2. DOMAIN elems = 1 .. Len(elems)
      BY <3>1, LenProperties
    <3> QED  BY <3>2 DEF Leaves, Parser!IsNode, IsLeaf, NodeKind
  <2>4. index \in Nat /\ index <= Len(stream) /\ Len(stream) \in Nat /\ Streaming
    BY StreamIs DEF TreeInv, Streaming
  <2>5. ASSUME NEW l \in 1 .. index
        PROVE  /\ elems[at[l]] = [kind |-> tokens[l].kind, width |-> tokens[l].width, size |-> 1]
               /\ at[l] \in Leaves
    <3>1. elems # <<>>
      <4>1. elems = <<>> => index = 0
        BY DEF TreeInv
      <4> QED  BY <4>1, <2>4
    <3>2. l \in 1 .. Len(stream)
      BY <2>4
    <3>3. stream[l].width = tokens[l].width /\ stream[l].kind = tokens[l].kind
      BY <3>1, <3>2, TakenIs
    <3>4. elems[at[l]] = Parser!Leaf(stream[l]) /\ IsLeaf(elems[at[l]]) /\ at[l] \in 1 .. Len(elems)
      BY <3>2, <2>2, <2>4, LeafIs
    <3> QED  BY <3>3, <3>4, <2>3 DEF Parser!Leaf
  <2>6. at \in [1 .. index -> Leaves]
    BY <2>2, <2>5
  <2>7. \A k \in Leaves : \E l \in 1 .. index : at[l] = k
    BY <2>2, <2>3
  <2> QED  BY <2>1, <2>2, <2>5, <2>6, <2>7 DEF Lossless
<1> QED  BY <1>1, TreesAreGrown, TreesAreWhole, PTL
===============================================================================
