------------------------------- MODULE MCFraming -------------------------------
(***************************************************************************)
(* Frames with a header more, with a line break in their content, with no  *)
(* content; with content that is no JSON or no message; with no length or  *)
(* none that is a number; and one with a line that is no header.           *)
(***************************************************************************)
EXTENDS Framing, TLC

Frame(bytes, gives) == [bytes |-> bytes, gives |-> gives, clean |-> TRUE]

MCLengths == "length 0" :> 0 @@ "length 2" :> 2 @@ "length 3" :> 3 @@ "length x" :> Unusable
MCHeaders == {"type"}
MCContents ==
  <<"{", "}">> :> "message" @@ <<"{", "nl", "}">> :> "another message"
    @@ <<"{", "{", "}">> :> "InvalidMessage"

MCFrames == {
  Frame(<<"length 2", "nl", "nl", "{", "}">>, "message"),
  Frame(<<"type", "nl", "length 3", "nl", "nl", "{", "nl", "}">>, "another message"),
  Frame(<<"length 3", "nl", "type", "nl", "nl", "{", "{", "}">>, "InvalidMessage"),
  Frame(<<"length 2", "nl", "nl", "nl", "length 3">>, "InvalidJSON"),
  Frame(<<"length 0", "nl", "nl">>, "InvalidJSON"),
  Frame(<<"type", "nl", "nl">>, "NoContentLength"),
  Frame(<<"length x", "nl", "nl">>, "InvalidContentLength"),
  [bytes |-> <<"{", "nl", "length 2", "nl", "nl", "{", "}">>, gives |-> "message", clean |-> FALSE]}
==============================================================================
