-------------------------------- MODULE Framing --------------------------------
(***************************************************************************)
(* The base protocol of notifier.pony: messages cut out of a byte stream   *)
(* that arrives in chunks of any size.                                     *)
(*                                                                         *)
(* The bytes of the stream are atoms: a line break, the text of a header,  *)
(* or a piece of content.  A client writes frames; what each gives is part *)
(* of the frame, and FramesAssumption says that it is what its bytes say.  *)
(***************************************************************************)
EXTENDS Naturals, Sequences, SequencesExt

CONSTANTS
  Frames,          \* what a client may write: [bytes, gives, clean], clean if each line
                   \* of the headers is one
  Lengths,         \* of the atoms "Content-Length: n": n, or Unusable
  Headers,         \* the atoms of other headers
  Contents,        \* what each content is read as (parse_message)
  NoLength, Unusable,
  MaxFrames        \* bound: no more than this many frames

LineBreak == "nl"

VARIABLES
  written,         \* the frames of the client
  stream,          \* their atoms, one frame after the other
  starts,          \* how many atoms lie before each of them, and before the next
  arrived,         \* how many atoms have arrived
  buffer,          \* those that have not been taken
  length,          \* headers("Content-Length")
  mode,            \* receiving_mode
  parsing,         \* inside `apply`
  out              \* messages handed on and errors reported

client == <<written, stream, starts>>
framingVars == <<client, arrived, buffer, length, mode, parsing, out>>

FramingInit ==
  /\ written = <<>>
  /\ stream = <<>>
  /\ starts = <<0>>
  /\ arrived = 0
  /\ buffer = <<>>
  /\ length = NoLength
  /\ mode = "header"
  /\ parsing = FALSE
  /\ out = <<>>

\* The client writes a frame, whatever has arrived of those before it.
Write(frame) ==
  /\ Len(written) < MaxFrames
  /\ written' = Append(written, frame)
  /\ stream' = stream \o frame.bytes
  /\ starts' = Append(starts, Len(stream) + Len(frame.bytes))
  /\ UNCHANGED <<arrived, buffer, length, mode, parsing, out>>

Appended(chunk) == buffer \o chunk

\* apply: a chunk comes, of any size.
Arrive ==
  /\ ~parsing
  /\ \E upTo \in (arrived + 1)..Len(stream) :
       /\ buffer' = Appended(SubSeq(stream, arrived + 1, upTo))
       /\ arrived' = upTo
  /\ parsing' = TRUE
  /\ UNCHANGED <<client, length, mode, out>>

------------------------------------------------------------------------------
(* receive_headers.                                                        *)

Breaks == {i \in 1..Len(buffer) : buffer[i] = LineBreak}
First == CHOOSE i \in Breaks : \A j \in Breaks : i <= j
Line == SubSeq(buffer, 1, First - 1)
Rest == SubSeq(buffer, First + 1, Len(buffer))

\* The name of a header ends at the first ": " of the line.
IsHeader(line) == \E i \in 1..Len(line) : line[i] \in DOMAIN Lengths \cup Headers
IsLength(line) == line[1] \in DOMAIN Lengths
LengthIn(line) == IF Len(line) = 1 THEN Lengths[line[1]] ELSE Unusable

ReadsLine ==
  /\ parsing
  /\ mode = "header"
  /\ Breaks # {}
  /\ buffer' = Rest
  /\ UNCHANGED <<client, arrived, out>>

TakeHeader ==
  /\ ReadsLine
  /\ IsHeader(Line)
  /\ length' = IF IsLength(Line) THEN LengthIn(Line) ELSE length
  /\ UNCHANGED <<mode, parsing>>

\* No ": " in the line: it is taken, and parsing stops as if there were no more.
TakeMalformed ==
  /\ ReadsLine
  /\ Line # <<>> /\ ~IsHeader(Line)
  /\ parsing' = FALSE
  /\ UNCHANGED <<length, mode>>

EndHeaders ==
  /\ ReadsLine
  /\ Line = <<>>
  /\ mode' = "content"
  /\ UNCHANGED <<length, parsing>>

AwaitLine ==
  /\ parsing
  /\ mode = "header"
  /\ Breaks = {}
  /\ parsing' = FALSE
  /\ UNCHANGED <<client, arrived, buffer, length, mode, out>>

------------------------------------------------------------------------------
(* receive_content, and the clean-up between messages and errors.          *)

LengthKept == length
LengthAfter == NoLength

Gives(result) ==
  /\ out' = Append(out, result)
  /\ length' = LengthAfter
  /\ mode' = "header"
  /\ UNCHANGED <<client, arrived, parsing>>

RefuseHeaders ==
  /\ parsing
  /\ mode = "content"
  /\ length \in {NoLength, Unusable}
  /\ Gives(IF length = NoLength THEN "NoContentLength" ELSE "InvalidContentLength")
  /\ UNCHANGED buffer

\* Is all of the content there?
CompleteLate == Len(buffer) > length
Complete == Len(buffer) >= length

TakeContent ==
  /\ parsing
  /\ mode = "content"
  /\ length \notin {NoLength, Unusable}
  /\ Complete
  /\ LET content == SubSeq(buffer, 1, length) IN
     Gives(IF content \in DOMAIN Contents THEN Contents[content] ELSE "InvalidJSON")
  /\ buffer' = SubSeq(buffer, length + 1, Len(buffer))

AwaitContent ==
  /\ parsing
  /\ mode = "content"
  /\ length \notin {NoLength, Unusable}
  /\ ~Complete
  /\ parsing' = FALSE
  /\ UNCHANGED <<client, arrived, buffer, length, mode, out>>

Parse ==
  \/ TakeHeader \/ TakeMalformed \/ EndHeaders \/ AwaitLine
  \/ RefuseHeaders \/ TakeContent \/ AwaitContent

FramingNext == (\E frame \in Frames : Write(frame)) \/ Arrive \/ Parse

FramingSpec == FramingInit /\ [][FramingNext]_framingVars
------------------------------------------------------------------------------
(* What the bytes of a frame say.                                          *)

LineStarts(bytes) == {i \in DOMAIN bytes : i = 1 \/ bytes[i - 1] = LineBreak}

\* The headers end at the first line that is empty.
EndsHeaders(bytes, h) ==
  /\ h \in LineStarts(bytes) /\ bytes[h] = LineBreak
  /\ \A i \in LineStarts(bytes) : bytes[i] = LineBreak => h <= i

\* The length that stands in the first n atoms: the last of them counts.
LengthLines(bytes, n) == {i \in LineStarts(bytes) : i <= n /\ bytes[i] \in DOMAIN Lengths}
LengthAtLine(bytes, i) == IF bytes[i + 1] = LineBreak THEN Lengths[bytes[i]] ELSE Unusable
LengthUpTo(bytes, n) ==
  LET lines == LengthLines(bytes, n) IN
  IF lines = {} THEN NoLength
  ELSE LengthAtLine(bytes, CHOOSE i \in lines : \A j \in lines : j <= i)

\* What follows the headers is as long as they say, and nothing without a length.
Means(bytes, h, gives) ==
  LET said == LengthUpTo(bytes, h)
      content == SubSeq(bytes, h + 1, Len(bytes))
  IN IF said = NoLength THEN content = <<>> /\ gives = "NoContentLength"
     ELSE IF said = Unusable THEN content = <<>> /\ gives = "InvalidContentLength"
     ELSE /\ Len(content) = said
          /\ gives = IF content \in DOMAIN Contents THEN Contents[content] ELSE "InvalidJSON"

\* Each line before the empty one holds a header.
HasOnlyHeaders(bytes, h) ==
  \A i \in LineStarts(bytes) : i < h =>
    \E j \in i..(h - 1) : /\ bytes[j] \in DOMAIN Lengths \cup Headers
                          /\ \A b \in i..j : bytes[b] # LineBreak

ASSUME LengthsAssumption ==
  /\ \A atom \in DOMAIN Lengths : Lengths[atom] \in Nat \cup {Unusable}
  /\ NoLength \notin Nat /\ Unusable \notin Nat /\ NoLength # Unusable
  /\ LineBreak \notin DOMAIN Lengths
  /\ MaxFrames \in Nat

ASSUME FramesAssumption ==
  \A frame \in Frames :
    /\ frame.bytes \in Seq(Range(frame.bytes))
    /\ \E h \in 1..Len(frame.bytes) :
         /\ EndsHeaders(frame.bytes, h)
         /\ Means(frame.bytes, h, frame.gives)
         /\ frame.clean => HasOnlyHeaders(frame.bytes, h)
------------------------------------------------------------------------------
(* Properties.                                                             *)

\* However the stream is cut, what comes out is what the frames give, in order:
\* no frame is skipped, read twice, or read with the header of another.
InOrder == IsPrefix(out, [i \in 1..Len(written) |-> written[i].gives])

\* When `apply` returns, the frames that have been handed on are those that have
\* arrived whole: parsing stops only if "more data is needed to parse", or at a
\* line that is no header, when what follows waits for the next chunk.
NothingWaits ==
  ~parsing /\ (\A i \in 1..Len(written) : written[i].clean) =>
    \A i \in 1..Len(written) : i <= Len(out) <=> starts[i + 1] <= arrived
==============================================================================
