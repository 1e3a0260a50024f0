----------------------------- MODULE Clientpipe -----------------------------
(***************************************************************************)
(* The connection actor of driver/clientpipe/mod.rs and the guest agent at *)
(* the other end of the unix stream.                                       *)
(*                                                                         *)
(* Clientpipe::new frames the stream with the codec and splits it: the     *)
(* sender future (write.send_all(recv)) takes commands off the mpsc        *)
(* channel, encodes them into the Framed write buffer wbuf and writes the  *)
(* buffer out, possibly in pieces; the handler (take_handler) polls the    *)
(* Framed reader, which decodes a frame from rbuf when it can and reads    *)
(* more bytes from the socket when it cannot, and dispatches every decoded *)
(* GaCmdIn to the controller.  The ReportBoot arm spawns the probe loop    *)
(* (a one-second interval with take_while(ga_ping)) when ga_hello says so; *)
(* the loop's error is discarded by .then(|_| Ok(())).                     *)
(*                                                                         *)
(* The guest agent (not under src/) is modelled from spec.md: it writes    *)
(* frames of GuestWire!EncodeIn, reads the host's frames and may answer a  *)
(* Ping with a Pong or not at all (a hung guest).                          *)
(***************************************************************************)
EXTENDS Controller, GuestWire, SequencesExt

CONSTANTS
    Ids,            \* hot-key ids the guest may report
    Keys,           \* key texts (UTF-8 bytes) the registrar may register
    Reasons,        \* binding-failure texts (UTF-8 bytes) the guest may send
    MaxGuestFrames, \* bound on the frames the guest writes
    MaxTicks,       \* bound on probe-timer ticks
    AllowGarbage,   \* whether the guest may write an opcode the host does not know
    GarbageByte,    \* that opcode
    TimerMayFail,   \* whether the interval timer may return an error
    MayDisconnect   \* whether the connection to the guest may be lost

ASSUME
    /\ Ids \subseteq 0..2147483647  \* u32 ids that TLC can represent
    /\ \A t \in Keys \cup Reasons :
          \A i \in DOMAIN t : t[i] \in (0..127) \cup {192, 193} \cup (245..255)
    /\ MaxGuestFrames \in Nat /\ MaxTicks \in Nat /\ MaxRequests \in Nat
    /\ GarbageByte \in 0..255 \ {1, 3, 4, 5, 6}
    /\ AllowGarbage \in BOOLEAN /\ TimerMayFail \in BOOLEAN /\ MayDisconnect \in BOOLEAN

VARIABLES
    toHost,     \* bytes the guest wrote that the host has not read
    guestSent,  \* history of what the guest wrote (events, and Garbage)
    rbuf,       \* the Framed read buffer
    dispatched, \* history of the events the handler dispatched
    wbuf,       \* the Framed write buffer
    toGuest,    \* every byte the host wrote to the stream
    guestRead,  \* number of host frames the guest agent has read
    loops,      \* probe loops (interval tasks) alive
    ticks,      \* probe-timer ticks while the guest was connected
    connected,  \* the guest end of the stream is open
    handlerDone,\* the handler future has completed (end of stream)
    senderDone  \* the sender future has completed (a write failed)

linkVars == <<connected, handlerDone, senderDone>>

pipeVars == <<toHost, guestSent, rbuf, dispatched, wbuf, toGuest, guestRead,
              loops, ticks, linkVars>>

Garbage == Ev("Garbage", 0, <<>>)

\* Events the guest agent may write of its own accord.
GuestEvents ==
    {ReportBoot, Suspending} \cup {HotKey(i) : i \in Ids}
    \cup {HotKeyBindingFailed(r) : r \in Reasons}

PipeInit ==
    /\ toHost = <<>> /\ guestSent = <<>>
    /\ rbuf = <<>> /\ dispatched = <<>>
    /\ wbuf = <<>> /\ toGuest = <<>> /\ guestRead = 0
    /\ loops = 0 /\ ticks = 0
    /\ connected = TRUE /\ handlerDone = FALSE /\ senderDone = FALSE

-----------------------------------------------------------------------------
(* The guest agent.                                                        *)

GuestWrite(e) ==
    /\ connected
    /\ Len(guestSent) < MaxGuestFrames
    /\ toHost' = toHost \o EncodeIn(e)
    /\ guestSent' = Append(guestSent, e)

GuestSend(e) ==
    /\ GuestWrite(e)
    /\ UNCHANGED <<rbuf, dispatched, wbuf, toGuest, guestRead, loops, ticks, linkVars>>
    /\ UNCHANGED ctlVars

GuestSendGarbage ==
    /\ connected
    /\ AllowGarbage
    /\ Len(guestSent) < MaxGuestFrames
    /\ toHost' = Append(toHost, GarbageByte)
    /\ guestSent' = Append(guestSent, Garbage)
    /\ UNCHANGED <<rbuf, dispatched, wbuf, toGuest, guestRead, loops, ticks, linkVars>>
    /\ UNCHANGED ctlVars

\* The agent reads the next complete host frame; a Ping may be answered.
GuestReceive ==
    /\ connected
    /\ guestRead < Len(ParseOut(toGuest))
    /\ guestRead' = guestRead + 1
    /\ \/ /\ ParseOut(toGuest)[guestRead + 1] = Ping
          /\ GuestWrite(Pong)
       \/ UNCHANGED <<toHost, guestSent>>
    /\ UNCHANGED <<rbuf, dispatched, wbuf, toGuest, loops, ticks, linkVars>>
    /\ UNCHANGED ctlVars

\* The guest agent goes away (VM reset, agent exit, network down).  Bytes
\* it wrote before stay readable; nothing written afterwards reaches it.
GuestDisconnect ==
    /\ MayDisconnect
    /\ connected
    /\ connected' = FALSE
    /\ UNCHANGED <<toHost, guestSent, rbuf, dispatched, wbuf, toGuest, guestRead,
                   loops, ticks, handlerDone, senderDone>>
    /\ UNCHANGED ctlVars

-----------------------------------------------------------------------------
(* The handler: Framed reader plus the match in take_handler.              *)

\* The match arm of take_handler for one decoded event.
Dispatch(e) ==
    CASE e.kind = "ReportBoot" ->
            /\ GaHello
            /\ loops' = IF GaHelloStarts THEN loops + 1 ELSE loops
      [] e.kind = "Suspending" -> GaSuspending /\ UNCHANGED loops
      [] e.kind = "Pong" -> GaPong /\ UNCHANGED loops
      [] e.kind = "HotKey" -> GaHotkey(e.id) /\ UNCHANGED loops
      [] e.kind = "HotKeyBindingFailed" -> UNCHANGED ctlVars /\ UNCHANGED loops

\* A frame is complete at the front of rbuf: split it off and dispatch it.
ReaderDecode ==
    LET r == Decode(rbuf) IN
    /\ r.size > 0
    /\ rbuf' = SubSeq(rbuf, r.size + 1, Len(rbuf))
    /\ dispatched' = Append(dispatched, r.ev)
    /\ Dispatch(r.ev)
    /\ UNCHANGED <<toHost, guestSent, wbuf, toGuest, guestRead, ticks, linkVars>>

\* No complete frame: read whatever part of the stream the socket returns.
ReaderRead ==
    /\ Decode(rbuf).size = 0
    /\ toHost # <<>>
    /\ \E n \in 1..Len(toHost) :
          /\ rbuf' = rbuf \o SubSeq(toHost, 1, n)
          /\ toHost' = SubSeq(toHost, n + 1, Len(toHost))
    /\ UNCHANGED <<guestSent, dispatched, wbuf, toGuest, guestRead, loops, ticks, linkVars>>
    /\ UNCHANGED ctlVars

\* No complete frame and the read returns 0 bytes: end of stream.  The
\* Framed reader ends the stream (or fails it with "bytes remaining on
\* stream" when a partial frame is left) and for_each completes.
ReaderEof ==
    /\ ~handlerDone
    /\ Decode(rbuf).size = 0
    /\ toHost = <<>>
    /\ ~connected
    /\ handlerDone' = TRUE
    /\ UNCHANGED <<toHost, guestSent, rbuf, dispatched, wbuf, toGuest, guestRead,
                   loops, ticks, connected, senderDone>>
    /\ UNCHANGED ctlVars

-----------------------------------------------------------------------------
(* The sender future: send_all from the channel into the Framed writer.    *)

WriterEncode ==
    /\ ~senderDone
    /\ queue # <<>>
    /\ wbuf' = wbuf \o Encode(Head(queue))
    /\ queue' = Tail(queue)
    /\ UNCHANGED <<toHost, guestSent, rbuf, dispatched, toGuest, guestRead,
                   loops, ticks, linkVars>>
    /\ UNCHANGED <<ctlState, reports, registry, presses, teardowns, enqueued>>

\* Mutation: the buffer is written only once it holds more than one byte.
WriterFlushBatched ==
    /\ connected /\ ~senderDone
    /\ Len(wbuf) > 1
    /\ \E n \in 1..Len(wbuf) :
          /\ toGuest' = toGuest \o SubSeq(wbuf, 1, n)
          /\ wbuf' = SubSeq(wbuf, n + 1, Len(wbuf))
    /\ UNCHANGED <<toHost, guestSent, rbuf, dispatched, guestRead, loops, ticks, linkVars>>
    /\ UNCHANGED ctlVars

\* poll_complete: one write of a non-empty prefix of the buffer.
WriterFlush ==
    /\ connected /\ ~senderDone
    /\ wbuf # <<>>
    /\ \E n \in 1..Len(wbuf) :
          /\ toGuest' = toGuest \o SubSeq(wbuf, 1, n)
          /\ wbuf' = SubSeq(wbuf, n + 1, Len(wbuf))
    /\ UNCHANGED <<toHost, guestSent, rbuf, dispatched, guestRead, loops, ticks, linkVars>>
    /\ UNCHANGED ctlVars

\* poll_complete on a closed stream: the write fails, send_all resolves
\* with the error and the sender is gone; the buffered bytes are lost.
WriterFail ==
    /\ ~connected /\ ~senderDone
    /\ wbuf # <<>>
    /\ senderDone' = TRUE
    /\ UNCHANGED <<toHost, guestSent, rbuf, dispatched, wbuf, toGuest, guestRead,
                   loops, ticks, connected, handlerDone>>
    /\ UNCHANGED ctlVars

-----------------------------------------------------------------------------
(* The probe loop: interval(1s).take_while(ga_ping).then(|_| Ok(())).      *)

\* Mutation: the loop is not cut by take_while and ticks for ever.
ProbeTickWithoutTakeWhile ==
    /\ loops > 0
    /\ ticks < MaxTicks \/ ~connected \/ ~GaPingContinues
    /\ ticks' = IF connected /\ GaPingContinues THEN ticks + 1 ELSE ticks
    /\ GaPing
    /\ UNCHANGED loops
    /\ UNCHANGED <<toHost, guestSent, rbuf, dispatched, wbuf, toGuest, guestRead, linkVars>>

\* One tick: take_while(ga_ping).  MaxTicks bounds the ticks that keep
\* probing a connected guest; the tick whose ga_ping ends the loop is always
\* possible (the interval keeps firing), and a lost guest is probed until
\* the loop stops.
ProbeTick ==
    /\ loops > 0
    /\ ticks < MaxTicks \/ ~connected \/ ~GaPingContinues
    /\ ticks' = IF connected /\ GaPingContinues THEN ticks + 1 ELSE ticks
    /\ GaPing
    /\ loops' = IF GaPingContinues THEN loops ELSE loops - 1
    /\ UNCHANGED <<toHost, guestSent, rbuf, dispatched, wbuf, toGuest, guestRead, linkVars>>

\* The timer yields an error: the loop ends and the error is discarded.
ProbeTimerError ==
    /\ TimerMayFail
    /\ loops > 0
    /\ loops' = loops - 1
    /\ UNCHANGED <<toHost, guestSent, rbuf, dispatched, wbuf, toGuest,
                   guestRead, ticks, linkVars>>
    /\ UNCHANGED ctlVars
=============================================================================
