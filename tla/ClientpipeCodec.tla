-------------------------- MODULE ClientpipeCodec --------------------------
(***************************************************************************)
(* The host side of the clientpipe wire format (clientpipe_codec.rs):      *)
(* ClientpipeCodec::decode turns the front of the read buffer into at most *)
(* one GaCmdIn, ClientpipeCodec::encode appends one GaCmdOut to the write  *)
(* buffer.  Bytes are naturals in 0..255, buffers are sequences of them,   *)
(* strings are sequences of UTF-8 bytes.                                   *)
(***************************************************************************)
EXTENDS Integers, Sequences

\* Inbound events (GaCmdIn).  One record shape for all variants so that
\* events compare field by field: id is used by HotKey, text by
\* HotKeyBindingFailed.
Ev(k, i, t) == [kind |-> k, id |-> i, text |-> t]
ReportBoot == Ev("ReportBoot", 0, <<>>)
Suspending == Ev("Suspending", 0, <<>>)
Pong == Ev("Pong", 0, <<>>)
HotKey(i) == Ev("HotKey", i, <<>>)
HotKeyBindingFailed(t) == Ev("HotKeyBindingFailed", 0, t)

\* Outbound commands (GaCmdOut).
Cmd(k, i, key) == [kind |-> k, id |-> i, key |-> key]
Ping == Cmd("Ping", 0, <<>>)
RegisterHotKey(i, key) == Cmd("RegisterHotKey", i, key)
ReleaseModifiers == Cmd("ReleaseModifiers", 0, <<>>)

\* Mutation: the u32 read big-endian.
U32AtBigEndian(s, i) == s[i+3] + 256 * s[i+2] + 65536 * s[i+1] + 16777216 * s[i]
\* get_u32::<LittleEndian> at position i, and put_u32::<LittleEndian>.
U32At(s, i) == s[i] + 256 * s[i+1] + 65536 * s[i+2] + 16777216 * s[i+3]
\* Mutation: the low byte written without truncation to 8 bits.
PutU32Unmasked(n) == << n, (n \div 256) % 256,
                       (n \div 65536) % 256, (n \div 16777216) % 256 >>
PutU32(n) == << n % 256, (n \div 256) % 256,
                (n \div 65536) % 256, (n \div 16777216) % 256 >>

\* String::from_utf8_lossy.  Every byte outside ASCII that the model uses
\* (see ASSUME in GuestWire) can never start or continue a valid UTF-8
\* sequence, so each one becomes one U+FFFD; ASCII bytes are kept.
Replacement == 65533
\* Mutation: the payload taken as text without validation.
Utf8Unchecked(s) == s
Utf8Lossy(s) == [i \in DOMAIN s |-> IF s[i] < 128 THEN s[i] ELSE Replacement]

\* The result of decode: NoFrame is Ok(None); otherwise the event and the
\* number of bytes buf.split_to removes.
NoFrame == [size |-> 0]
Frame(e, n) == [size |-> n, ev |-> e]

\* size after `size += 4 + len` for a binding failure with len text bytes.
\* Mutation: the text bytes are not counted and stay in the buffer.
FailedFrameSizeNoText(len) == 1 + 4
FailedFrameSize(len) == 1 + 4 + len

\* ClientpipeCodec::decode.  A HotKey whose 4 id bytes have not all arrived
\* fails its match guard and falls into the "invalid request" arm, which
\* also answers Ok(None).
Decode(buf) ==
    IF buf = <<>> THEN NoFrame
    ELSE LET op == buf[1] IN
         CASE op = 1 -> Frame(ReportBoot, 1)
           [] op = 3 -> Frame(Suspending, 1)
           [] op = 4 -> Frame(Pong, 1)
           [] op = 5 /\ Len(buf) >= 5 -> Frame(HotKey(U32At(buf, 2)), 5)
           [] op = 6 /\ Len(buf) >= 5 ->
                LET len == U32At(buf, 2) IN
                IF Len(buf) < len + 5 THEN NoFrame
                ELSE Frame(HotKeyBindingFailed(Utf8Lossy(SubSeq(buf, 6, 5 + len))),
                           FailedFrameSize(len))
           [] OTHER -> NoFrame

\* Mutation: RegisterHotKey writes the key length before the id.
EncodeLenFirst(c) ==
    CASE c.kind = "Ping" -> <<1>>
      [] c.kind = "RegisterHotKey" ->
            <<2>> \o PutU32(Len(c.key)) \o PutU32(c.id) \o c.key
      [] c.kind = "ReleaseModifiers" -> <<3>>

\* ClientpipeCodec::encode.  key.len() as u32 would drop the high bits of a
\* key of 4 GiB or more; the keys of the model are a few bytes long.
Encode(c) ==
    CASE c.kind = "Ping" -> <<1>>
      [] c.kind = "RegisterHotKey" ->
            <<2>> \o PutU32(c.id) \o PutU32(Len(c.key)) \o c.key
      [] c.kind = "ReleaseModifiers" -> <<3>>
=============================================================================
