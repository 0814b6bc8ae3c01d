------------------------------- MODULE Agreement -------------------------------
(***************************************************************************)
(* tools/agreement/check.py, as `make corpus` runs it: xargs hands it the  *)
(* list of sources, in as many runs as the length of a command line asks   *)
(* for.  A run compares what two dumpers print, one lexing with ponyc and  *)
(* one with pony_syntax; a dumper that dies leaves what it has printed by  *)
(* then.                                                                   *)
(***************************************************************************)
EXTENDS Naturals, Sequences, FiniteSets

CONSTANTS
  Corpus,      \* the list of the sources
  Streams,     \* sequences of token kinds, what a source may be lexed to
  Unreadable,  \* a file that cannot be opened, or has no bytes
  Absent,      \* a dumper has printed nothing of a file
  MaxDeaths

Sides == {"theirs", "ours"}
Files == {Corpus[k] : k \in DOMAIN Corpus}
Parts == {p \in UNION {[1 .. m -> 1 .. Len(Corpus)] : m \in 1 .. Len(Corpus)} :
            /\ \A k \in DOMAIN p : k > 1 => p[k] > p[k - 1]
            /\ p[Len(p)] = Len(Corpus)}

\* The list is what `find` and `sort` print: each source once.
SourcesAreListed ==
  /\ Corpus \in Seq(Files)
  /\ \A k, l \in DOMAIN Corpus : k # l => Corpus[k] # Corpus[l]

ASSUME AgreementAssumption == SourcesAreListed /\ Absent \notin Streams

VARIABLES
  parts,    \* xargs' cuts: where the list of each run ends
  lexed,    \* what each lexer makes of each file
  run,      \* the run xargs has come to
  step,     \* whose turn it is in it
  next,     \* the place in the list of the next file
  printed,  \* what it has read of each dumper
  died,     \* which dumper has died, and at which file
  differ    \* what its runs have reported

listing == <<parts, lexed>>
checkVars == <<listing, run, step, next, printed, died, differ>>

Nothing == [s \in Sides |-> [f \in Files |-> Absent]]

CheckInit ==
  /\ parts \in Parts
  /\ lexed \in [Sides -> [Files -> Streams \cup {Unreadable}]]
  /\ \A f \in Files : (lexed["theirs"][f] = Unreadable) <=> (lexed["ours"][f] = Unreadable)
  /\ run = 1
  /\ step = "theirs"
  /\ next = 1
  /\ printed = Nothing
  /\ died = {}
  /\ differ = {}

FirstOf(r) == IF r = 1 THEN 1 ELSE parts[r - 1] + 1
Listed == FirstOf(run) .. parts[run]
Left == run <= Len(parts) /\ next \in Listed
File == Corpus[next]

NextRun ==
  /\ run' = run + 1
  /\ next' = FirstOf(run + 1)
  /\ step' = "theirs"

\* What a side has printed ends with what it printed of this file: "### ",
\* and a line for each token; of a file it cannot open, nothing.
Prints(side, stream) ==
  printed' = [printed EXCEPT ![side][File] = stream]

Dump(side) ==
  /\ Left /\ step = side
  /\ IF lexed[side][File] = Unreadable THEN UNCHANGED printed ELSE Prints(side, lexed[side][File])
  /\ next' = next + 1
  /\ UNCHANGED <<listing, run, step, died, differ>>

\* No return code is looked at: the next step reads what there is.
After(side) == IF side = "theirs" THEN "ours" ELSE "compare"

DumpDies(side) ==
  /\ Left /\ step = side /\ Cardinality(died) < MaxDeaths
  /\ lexed[side][File] # Unreadable
  /\ \E k \in 0 .. Len(lexed[side][File]) : Prints(side, SubSeq(lexed[side][File], 1, k))
  /\ died' = died \cup {<<side, File>>}
  /\ step' = After(side) /\ next' = FirstOf(run)
  /\ UNCHANGED <<listing, run, differ>>

Dumped(side) ==
  /\ ~Left /\ run <= Len(parts) /\ step = side
  /\ step' = After(side) /\ next' = FirstOf(run)
  /\ UNCHANGED <<listing, run, printed, died, differ>>

Both(a, b) == 1 .. IF Len(a) < Len(b) THEN Len(a) ELSE Len(b)

\* Where a definition is preceded by others of the same form, these are
\* plausible bugs in the code it models, and used nowhere.
DifferenceInZip(f, a, b) ==
  IF a = Absent \/ b = Absent
  THEN {<<f, "one side produced nothing">>}
  ELSE {<<f, k>> : k \in {l \in Both(a, b) : a[l] # b[l]}}
Difference(f, a, b) ==
  LET apart == IF a = Absent \/ b = Absent THEN {} ELSE {k \in Both(a, b) : a[k] # b[k]}
  IN CASE a = Absent \/ b = Absent -> {<<f, "one side produced nothing">>}
       [] a # Absent /\ b # Absent /\ a = b -> {}
       [] apart # {} -> {<<f, CHOOSE k \in apart : \A l \in apart : k <= l>>}
       [] OTHER -> {<<f, "lengths differ">>}

Compare ==
  /\ step = "compare" /\ run <= Len(parts)
  /\ differ' = differ \cup
       UNION {Difference(Corpus[k], printed["theirs"][Corpus[k]], printed["ours"][Corpus[k]]) : k \in Listed}
  /\ printed' = Nothing
  /\ NextRun
  /\ UNCHANGED <<listing, died>>

CheckNext ==
  \/ \E side \in Sides : Dump(side) \/ DumpDies(side) \/ Dumped(side)
  \/ Compare

CheckSpec == CheckInit /\ [][CheckNext]_checkVars

-------------------------------------------------------------------------------
Compared == run > Len(parts)

(***************************************************************************)
(* check.py compares what it finds, whatever became of the dumpers, and    *)
(* takes the lexers to agree if no run of it reports a difference.  Then   *)
(* they do, though one of the dumpers may have died on the way, but for    *)
(* the last source of its run: there it may have died just before a token  *)
(* the other does not have.  While neither dies, what is reported is what  *)
(* differs.                                                                *)
(***************************************************************************)
Same(f) == lexed["theirs"][f] # Unreadable /\ lexed["theirs"][f] = lexed["ours"][f]
DiedLast(f) == \E r \in DOMAIN parts : Corpus[parts[r]] = f /\ \E side \in Sides : <<side, f>> \in died

AgreementIsSeen ==
  Compared =>
    /\ differ = {} => \A f \in Files : Same(f) \/ DiedLast(f)
    /\ died = {} => {d[1] : d \in differ} = {f \in Files : ~Same(f)}
===============================================================================
