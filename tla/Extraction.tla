------------------------------ MODULE Extraction ------------------------------
(***************************************************************************)
(* tools/corpus/extract_corpus.py: what it makes of one TEST_F block.  A   *)
(* block is what its regular expressions find in it: whether one of the    *)
(* SKIP_CALLS is there, the calls of TEST_ macros in their order, the      *)
(* sources it defines and the fixture packages it registers.  A literal    *)
(* stands for its characters, Unescaped[l] for what `unescape` makes them. *)
(***************************************************************************)
EXTENDS Naturals, Sequences

CONSTANTS
  None,        \* Python's None
  Literals,    \* the string literals of the suites
  Unescaped,   \* unescape
  Outside      \* the names that lead out of the directory they are taken in

ASSUME LiteralsAssumption == DOMAIN Unescaped = Literals

ACCEPT == {"TEST_COMPILE"}
REJECT == {"TEST_ERROR", "TEST_ERRORS_1", "TEST_ERRORS_2", "TEST_ERRORS_3",
           "TEST_ERROR_WITH_NOTE"}

(***************************************************************************)
(* A call [macro, var, args] has the source's variable and then its        *)
(* arguments, each the literals it is written as: more than one where the  *)
(* C source splits a string, none where it is not a string.                *)
(***************************************************************************)
\* Where the literals of a call stand, and the first of such places.
Pieces(args) == UNION {{i} \X DOMAIN args[i] : i \in DOMAIN args}
First(places) ==
  CHOOSE p \in places : \A q \in places : p[1] < q[1] \/ (p[1] = q[1] /\ p[2] =< q[2])
Piece(args, p) == args[p[1]][p[2]]

\* defs.get(macro, ([], None))
Define(defs, macro) ==
  IF macro \in DOMAIN defs THEN defs[macro] ELSE [params |-> <<>>, embedded |-> None]

\* The define takes the pass per call.
PassPerCall(d) == Len(d.params) >= 2 /\ d.params[2] = "pass"

CasePass(call, d) ==
  LET pieces == Pieces(call.args) IN
  IF PassPerCall(d)
    THEN IF pieces = {} THEN "?" ELSE Piece(call.args, First(pieces))
    ELSE IF d.embedded = None THEN "?" ELSE d.embedded

\* Where a definition is preceded by others of the same form, these are
\* plausible bugs in the code it models, and used nowhere.
AfterNone(pieces, d) == pieces
AfterPass(pieces, d) ==
  IF PassPerCall(d) /\ pieces # {} THEN pieces \ {First(pieces)} ELSE pieces

\* A message is what it is put together from, <<>> if there is none: of the
\* literals that are left, the first.
Message(call, d) ==
  LET pieces == AfterPass(Pieces(call.args), d) IN
  IF pieces = {} THEN <<>> ELSE <<Unescaped[Piece(call.args, First(pieces))]>>

\* The first macro that states a verdict.
Stating(block) == {i \in DOMAIN block.calls : block.calls[i].macro \in ACCEPT \cup REJECT}
StatesVerdict(block) == Stating(block) # {}
StatedBy(block) == block.calls[CHOOSE i \in Stating(block) : \A j \in Stating(block) : i =< j]

\* No row: a call that is not a plain verdict, no verdict, or no source.
IsCase(block) ==
  /\ ~block.skip
  /\ StatesVerdict(block)
  /\ StatedBy(block).var \in DOMAIN block.srcs

\* The row of the manifest.  The case's directory is a function of its key.
RowOf(key, block, defs) ==
  LET call == StatedBy(block)
      d == Define(defs, call.macro)
      expect == IF call.macro \in ACCEPT THEN "accept" ELSE "reject"
  IN [key |-> key, expect |-> expect, target |-> CasePass(call, d),
      message |-> IF expect = "accept" THEN <<>> ELSE Message(call, d)]

\* What is written to the case's directory: main.pony, and below it the files
\* of the fixture packages, those that would lie elsewhere left out.
MainOf(block) == Unescaped[block.srcs[StatedBy(block).var]]
FixturesOf(block) ==
  {[package |-> Unescaped[f.magic], file |-> Unescaped[f.name], text |-> Unescaped[f.content]] :
     f \in block.fixtures}
Inside(fixtures) == {f \in fixtures : {f.package, f.file} \cap Outside = {}}

-------------------------------------------------------------------------------
(***************************************************************************)
(* What a call asserts, by the parameters its define names: the arguments  *)
(* after the source stand for params[2], params[3], ...  Literals that     *)
(* follow one another are one string in C: all of them are the message.    *)
(***************************************************************************)
Argument(call, d, i) == IF i - 1 \in DOMAIN call.args THEN call.args[i - 1] ELSE <<>>
AssertedPass(call, d) ==
  IF \E i \in DOMAIN d.params : d.params[i] = "pass"
    THEN LET i == CHOOSE i \in DOMAIN d.params : d.params[i] = "pass"
         IN Head(Argument(call, d, i))
    ELSE d.embedded
Joined(literals) == [n \in DOMAIN literals |-> Unescaped[literals[n]]]
AssertedMessages(call, d) ==
  {Joined(Argument(call, d, i)) :
     i \in {j \in DOMAIN d.params : j > 1 /\ d.params[j] # "pass" /\ Argument(call, d, j) # <<>>}}

\* Every argument is one literal, or no string.
Unsplit(call) == \A i \in DOMAIN call.args : Len(call.args[i]) =< 1

(***************************************************************************)
(* "Three shapes exist in the suites" (extract_corpus.py:76-81): a define  *)
(* that embeds the pass, one that takes it as its second parameter, each   *)
(* call then giving it as one literal, and in both cases any other         *)
(* parameter is a message.                                                 *)
(***************************************************************************)
FollowsDefine(call, d) ==
  /\ call.args \in Seq(Seq(Literals)) /\ d.params \in Seq(STRING)
  /\ Len(call.args) < Len(d.params)
  /\ \A i \in DOMAIN d.params : d.params[i] = "pass" => i = 2
  /\ IF PassPerCall(d) THEN call.args # <<>> /\ Len(call.args[1]) = 1 ELSE d.embedded # None
===============================================================================
