-------------------------------- MODULE MCCorpus --------------------------------
(* Two tests in two suites: one suite's defines embed the pass, the other's take *)
(* it at each call.                                                              *)
EXTENDS Corpus, TLC

CONSTANTS embeds, perCall

MCOrder == <<embeds, perCall>>
MCSuiteOf(k) == IF k = embeds THEN "badpony" ELSE "verify"

MCLiterals == {"good", "late", "wrong", "uses", "expr", "nopass", "message", "note",
               "lib", "../lib", "lib.pony", "../lib.pony"}
MCUnescaped == [l \in MCLiterals |-> IF l = "message" THEN "unescaped message" ELSE l]

MCDefsOf(suite) ==
  IF suite = "badpony"
    THEN "TEST_COMPILE" :> [params |-> <<"src">>, embedded |-> "expr"] @@
         "TEST_ERROR" :> [params |-> <<"src", "err">>, embedded |-> "final"]
    ELSE "TEST_COMPILE" :> [params |-> <<"src", "pass">>, embedded |-> None] @@
         "TEST_ERROR" :> [params |-> <<"src", "pass", "err">>, embedded |-> None]

Plainly(macro, args, text) ==
  [skip |-> FALSE, calls |-> <<[macro |-> macro, var |-> "src", args |-> args]>>,
   srcs |-> "src" :> text, fixtures |-> {}]
Fixture(magic) == {[magic |-> magic, name |-> name, content |-> "good"] : name \in {"lib.pony", "../lib.pony"}}

MCBlocksOf(k) ==
  IF k = embeds
    THEN { Plainly("TEST_COMPILE", <<>>, "late"),
           [Plainly("TEST_COMPILE", <<>>, "uses") EXCEPT !.fixtures = Fixture("lib")],
           Plainly("TEST_ERROR", <<<<"message", "note">>>>, "uses"),
           Plainly("TEST_ERROR", <<<<>>>>, "good") }
    ELSE { Plainly("TEST_COMPILE", <<<<"nopass">>>>, "good"),
           [Plainly("TEST_ERROR", <<<<"expr">>, <<"message">>>>, "wrong")
              EXCEPT !.calls = <<[macro |-> "TEST_OTHER", var |-> "src", args |-> <<>>]>> \o @,
                     !.fixtures = Fixture("../lib")],
           [Plainly("TEST_COMPILE", <<<<"expr">>>>, "good") EXCEPT !.srcs = "other" :> "good"] }

\* "uses" needs its fixture package.
MCErrsFrom(program) ==
  CASE program.main = "late" -> Index("verify")
    [] program.main = "wrong" -> Index("expr")
    [] program.main = "uses" /\ program.fixtures = {} -> Index("import")
    [] OTHER -> NeverErrs
MCDiverges(program) == program.main = "wrong"
MCLateness == {{}, {"final"}}
=================================================================================
