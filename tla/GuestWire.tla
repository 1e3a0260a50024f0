----------------------------- MODULE GuestWire -----------------------------
(***************************************************************************)
(* The guest agent's half of the wire format, written from the opcode      *)
(* table of spec.md section 4.1 (the agent is not under src/).  It is the  *)
(* reference the host codec is checked against: EncodeIn is what the      *)
(* agent writes for an event, ParseOut is how the agent splits the host's  *)
(* byte stream into commands.                                              *)
(***************************************************************************)
EXTENDS ClientpipeCodec

\* The agent's encoding of an inbound event.
EncodeIn(e) ==
    CASE e.kind = "ReportBoot" -> <<1>>
      [] e.kind = "Suspending" -> <<3>>
      [] e.kind = "Pong" -> <<4>>
      [] e.kind = "HotKey" -> <<5>> \o PutU32(e.id)
      [] e.kind = "HotKeyBindingFailed" -> <<6>> \o PutU32(Len(e.text)) \o e.text

\* Length in bytes of the complete outbound frame at the front of s, or 0
\* when s holds no complete frame.
OutFrameLen(s) ==
    IF s = <<>> THEN 0
    ELSE CASE s[1] \in {1, 3} -> 1
           [] s[1] = 2 /\ Len(s) >= 9 /\ Len(s) >= 9 + U32At(s, 6) -> 9 + U32At(s, 6)
           [] OTHER -> 0

OutFrame(s) ==
    CASE s[1] = 1 -> Ping
      [] s[1] = 3 -> ReleaseModifiers
      [] s[1] = 2 -> RegisterHotKey(U32At(s, 2), SubSeq(s, 10, 9 + U32At(s, 6)))

\* The commands of every complete frame in s, in order; a trailing partial
\* frame is left out.
RECURSIVE ParseOut(_)
ParseOut(s) ==
    LET n == OutFrameLen(s) IN
    IF n = 0 THEN <<>>
    ELSE <<OutFrame(s)>> \o ParseOut(SubSeq(s, n + 1, Len(s)))
=============================================================================
