------------------------------- MODULE Oracles -------------------------------
(***************************************************************************)
(* tools/corpus/message_oracle.py and column_oracle.py, as `make` runs     *)
(* them: over the manifest and the reach file that earlier runs left, with *)
(* no extraction of their own.  What the two programs find there is any    *)
(* manifest and any reach file; what ponyc and the checker write to stderr *)
(* for a case is one of Outputs.  The files as they are, and what they     *)
(* were made of, are the subject of Corpus.                                *)
(***************************************************************************)
EXTENDS Naturals, Sequences, FiniteSets

CONSTANTS
  CaseOrder,   \* the keys of the cases, as the manifest and the reach file have them
  Messages,
  NoMessage,   \* the manifest's sixth column is empty
  Outputs      \* sequences of lines

(***************************************************************************)
(* A line [text, at, spelled] has the message at a position, with the path *)
(* written in one of two ways; a line of an Info block has no position of  *)
(* its own and begins with blanks: spelled = "indented".                   *)
(***************************************************************************)
LinesAreWritten ==
  \A o \in Outputs :
    /\ o \in Seq({o[i] : i \in DOMAIN o})
    /\ \A i \in DOMAIN o :
         o[i].text \in Messages /\ o[i].spelled \in {"absolute", "given", "indented"}

CaseKeys == {CaseOrder[i] : i \in DOMAIN CaseOrder}
NoRow == "no row"

\* Each case is once in the files, and a message is no empty column.
CasesAreKeyed ==
  /\ CaseOrder \in Seq(CaseKeys)
  /\ \A i, j \in DOMAIN CaseOrder : i # j => CaseOrder[i] # CaseOrder[j]
  /\ {NoMessage, NoRow} \cap Messages = {}

ASSUME OraclesAssumption == LinesAreWritten /\ CasesAreKeyed

VARIABLES
  tool,             \* which of the two, or why make stopped
  manifestMessage,  \* the expected message of each case, NoRow where there is none
  reachVerdict,     \* what reach.tsv has of each case: accept, reject, invalid or NoRow
  torn,             \* reach.tsv has a line that is not eight columns
  exceptions,       \* the keys of message_exceptions.tsv
  atCase,           \* the case the loop has come to
  ran,              \* what was written for each case that was run
  found             \* what the loop has collected: misses, or mismatches

given == <<tool, manifestMessage, reachVerdict, torn, exceptions>>
oracleVars == <<given, atCase, ran, found>>

NotRun == [outcome |-> "not run"]
TimedOut == [outcome |-> "timed out"]

OracleInit ==
  /\ tool = "make"
  /\ manifestMessage \in [CaseKeys -> Messages \cup {NoMessage, NoRow}]
  /\ reachVerdict \in [CaseKeys -> {"accept", "reject", "invalid", NoRow}]
  /\ torn \in BOOLEAN
  /\ exceptions \in SUBSET CaseKeys
  /\ atCase = 1
  /\ ran = [k \in CaseKeys |-> NotRun]
  /\ found = {}

InManifest == {k \in CaseKeys : manifestMessage[k] # NoRow}

\* Where a definition is preceded by others of the same form, these are
\* plausible bugs in the code it models, and used nowhere.
FreshIfThere == \E k \in CaseKeys : reachVerdict[k] # NoRow
Fresh == \A k \in InManifest : reachVerdict[k] # NoRow

\* REACH_FRESH, and the column check both tools make before anything is run.
Start(t) ==
  /\ tool = "make"
  /\ tool' = IF ~Fresh THEN "stale" ELSE IF torn THEN "unreadable" ELSE t
  /\ UNCHANGED <<manifestMessage, reachVerdict, torn, exceptions, atCase, ran, found>>

Looping(t) == tool = t /\ atCase \in DOMAIN CaseOrder
CaseKey == CaseOrder[atCase]

-------------------------------------------------------------------------------
(* message_oracle.py                                                       *)

AsksMessage(k) == manifestMessage[k] \in Messages /\ reachVerdict[k] = "reject"

\* `parts[5] in stderr`: anywhere in it.
Emits(output, message) == \E i \in DOMAIN output : output[i].text = message

IsMissAlways(k, exit, output) == exit = 255 /\ ~Emits(output, manifestMessage[k])
IsMiss(k, exit, output) ==
  /\ exit = 255
  /\ ~Emits(output, manifestMessage[k])
  /\ k \notin exceptions

MessageSkip ==
  /\ Looping("message") /\ ~AsksMessage(CaseKey)
  /\ atCase' = atCase + 1
  /\ UNCHANGED <<given, ran, found>>

MessageRun(exit, output) ==
  /\ Looping("message") /\ AsksMessage(CaseKey)
  /\ atCase' = atCase + 1
  /\ ran' = [ran EXCEPT ![CaseKey] = [outcome |-> "ran", exit |-> exit, ours |-> output]]
  /\ found' = IF IsMiss(CaseKey, exit, output) THEN found \cup {CaseKey} ELSE found
  /\ UNCHANGED given

MessageTimeout ==
  /\ Looping("message") /\ AsksMessage(CaseKey)
  /\ atCase' = atCase + 1
  /\ ran' = [ran EXCEPT ![CaseKey] = TimedOut]
  /\ UNCHANGED <<given, found>>

-------------------------------------------------------------------------------
(* column_oracle.py                                                        *)

AsksColumn(k) == reachVerdict[k] = "reject" /\ k \in InManifest

\* The lines that match DIAG; how a path is spelled is no part of a position.
Located(output) == {i \in DOMAIN output : output[i].spelled # "indented"}
TextsOf(output) == {output[i].text : i \in Located(output)}

\* sorted(p for *p, m in ... if m == message): the positions, each as often as it occurs.
PlacesAsSet(output, message) ==
  {output[i].at : i \in {j \in Located(output) : output[j].text = message}}
Places(output, message) ==
  LET lines == {i \in Located(output) : output[i].text = message}
  IN [p \in {output[i].at : i \in lines} |-> Cardinality({i \in lines : output[i].at = p})]

Mismatched(theirs, ours) ==
  {m \in TextsOf(theirs) \cap TextsOf(ours) : Places(theirs, m) # Places(ours, m)}

ColumnSkip ==
  /\ Looping("column") /\ ~AsksColumn(CaseKey)
  /\ atCase' = atCase + 1
  /\ UNCHANGED <<given, ran, found>>

ColumnRun(theirs, ours) ==
  /\ Looping("column") /\ AsksColumn(CaseKey)
  /\ atCase' = atCase + 1
  /\ ran' = [ran EXCEPT ![CaseKey] = [outcome |-> "ran", theirs |-> theirs, ours |-> ours]]
  /\ found' = found \cup (Mismatched(theirs, ours) \X {CaseKey})
  /\ UNCHANGED given

ColumnTimeout ==
  /\ Looping("column") /\ AsksColumn(CaseKey)
  /\ atCase' = atCase + 1
  /\ ran' = [ran EXCEPT ![CaseKey] = TimedOut]
  /\ UNCHANGED <<given, found>>

OracleNext ==
  \/ \E t \in {"message", "column"} : Start(t)
  \/ MessageSkip \/ MessageTimeout
  \/ \E exit \in {0, 1, 255}, output \in Outputs : MessageRun(exit, output)
  \/ ColumnSkip \/ ColumnTimeout
  \/ \E theirs, ours \in Outputs : ColumnRun(theirs, ours)

OracleSpec == OracleInit /\ [][OracleNext]_oracleVars

-------------------------------------------------------------------------------
OracleEnded == tool \in {"message", "column"} /\ atCase > Len(CaseOrder)
OraclePasses == OracleEnded /\ found = {}
WasRun(k) == ran[k].outcome = "ran"

(***************************************************************************)
(* "A miss is a case the checker rejects for a different reason than the   *)
(* one its test asserts" (message_oracle.py:11-15): the oracle fails if    *)
(* there is one among the cases ponyc rejects that is no known divergence, *)
(* and for nothing else.                                                   *)
(***************************************************************************)
RejectsForPonycsReason ==
  OracleEnded /\ tool = "message" =>
    (OraclePasses <=>
       \A k \in {c \in InManifest : WasRun(c) /\ reachVerdict[c] = "reject"} :
         ran[k].exit = 255 /\ manifestMessage[k] # NoMessage /\ k \notin exceptions =>
           \E i \in DOMAIN ran[k].ours : ran[k].ours[i].text = manifestMessage[k])

(***************************************************************************)
(* "A message both emit must sit at the same line and column"              *)
(* (column_oracle.py:6-7): for each message that both programs place       *)
(* somewhere there is a one-to-one pairing of the places.                  *)
(***************************************************************************)
SameTextAs(output, m) == {i \in DOMAIN output : output[i].text = m /\ output[i].spelled # "indented"}

Paired(theirs, ours, m) ==
  \E f \in [SameTextAs(theirs, m) -> SameTextAs(ours, m)] :
    /\ \A i, j \in SameTextAs(theirs, m) : i # j => f[i] # f[j]
    /\ \A j \in SameTextAs(ours, m) : \E i \in SameTextAs(theirs, m) : f[i] = j
    /\ \A i \in SameTextAs(theirs, m) : theirs[i].at = ours[f[i]].at

SitsWherePonycPutsIt ==
  OracleEnded /\ tool = "column" =>
    (OraclePasses <=>
       \A k \in InManifest : WasRun(k) =>
         \A m \in Messages :
           SameTextAs(ran[k].theirs, m) # {} /\ SameTextAs(ran[k].ours, m) # {} =>
             Paired(ran[k].theirs, ran[k].ours, m))

(***************************************************************************)
(* "A stale reach file silently narrows the oracles -- they iterate its    *)
(* rows -- so freshness is checked" (Makefile:178): an oracle that comes   *)
(* to its end has run every case of the manifest that is not recorded as   *)
(* accepted or invalid, and carries a message where one is asked for.      *)
(***************************************************************************)
NothingIsNarrowed ==
  OracleEnded =>
    \A k \in InManifest :
      \/ ran[k] # NotRun
      \/ reachVerdict[k] \in {"accept", "invalid"}
      \/ tool = "message" /\ manifestMessage[k] = NoMessage
===============================================================================
