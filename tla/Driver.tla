------------------------------- MODULE Driver -------------------------------
(***************************************************************************)
(* The guest control-plane link as the single-threaded reactor runs it:   *)
(* the clientpipe handler and sender, the probe loop, the SIGTERM source   *)
(* and the controller they all call into, interleaved one ready task at a  *)
(* time.  Every action is one poll of one task, which is atomic because    *)
(* all tasks share one thread.                                             *)
(***************************************************************************)
EXTENDS Clientpipe, CatchSigterm

vars == <<ctlVars, pipeVars, sigVars>>

Init == CtlInit /\ PipeInit /\ SigInit

\* The environment: guest agent, hot-key registrar, OS signals.
Environment ==
    \/ \E e \in GuestEvents : GuestSend(e) /\ UNCHANGED sigVars
    \/ GuestSendGarbage /\ UNCHANGED sigVars
    \/ GuestReceive /\ UNCHANGED sigVars
    \/ GuestDisconnect /\ UNCHANGED sigVars
    \/ /\ \E id \in Ids, key \in Keys : RegisterHotKeyRequest(id, key)
       /\ UNCHANGED <<pipeVars, sigVars>>
    \/ ReleaseModifiersRequest /\ UNCHANGED <<pipeVars, sigVars>>
    \/ Sigterm /\ UNCHANGED pipeVars

\* One poll of each task the reactor runs.
HandlerPoll == (ReaderDecode \/ ReaderRead \/ ReaderEof) /\ UNCHANGED sigVars
SenderEncode == WriterEncode /\ UNCHANGED sigVars
SenderFlush == (WriterFlush \/ WriterFail) /\ UNCHANGED sigVars
ProbeLoopTick == ProbeTick /\ UNCHANGED sigVars
ProbeLoopPoll == ProbeLoopTick \/ (ProbeTimerError /\ UNCHANGED sigVars)
SigtermSourcePoll == CatchSigtermRun /\ UNCHANGED pipeVars

Next ==
    \/ Environment
    \/ HandlerPoll
    \/ SenderEncode
    \/ SenderFlush
    \/ ProbeLoopPoll
    \/ SigtermSourcePoll

\* The reactor serves every ready source eventually (spec.md 4.3): the
\* handler, the sender and the signal source are weakly fair, and so is
\* the probe loop's tick, since its one-second interval keeps firing while
\* the loop lives.  The guest, the registrar and a timer error are not:
\* they may never happen.
Fairness ==
    /\ WF_vars(HandlerPoll)
    /\ WF_vars(SenderEncode)
    /\ WF_vars(SenderFlush)
    /\ WF_vars(ProbeLoopTick)
    /\ WF_vars(SigtermSourcePoll)

Spec == Init /\ [][Next]_vars /\ Fairness

-----------------------------------------------------------------------------
(* Helpers for the properties.                                             *)

\* What the guest wrote, up to its first unknown opcode.
GuestFrames ==
    LET g == SelectInSeq(guestSent, LAMBDA e : e.kind = "Garbage") IN
    IF g = 0 THEN guestSent ELSE SubSeq(guestSent, 1, g - 1)

\* The event the host should see for an event the guest wrote: the text as
\* from_utf8_lossy documents it, each byte that starts no valid UTF-8
\* sequence (all non-ASCII bytes of the model's texts) shown as U+FFFD.
AsReceived(e) ==
    [e EXCEPT !.text = [i \in DOMAIN @ |-> IF @[i] \in 0..127 THEN @[i] ELSE 65533]]

\* The clientpipe as the FIFO links of ClientpipeLink: the guest's frames
\* up to an unknown opcode as the host should see them, the dispatched
\* events, the commands enqueued, and the commands the guest can parse from
\* the bytes written to it.
Link == INSTANCE ClientpipeLink WITH
    sent <- [i \in DOMAIN GuestFrames |-> AsReceived(GuestFrames[i])],
    delivered <- dispatched,
    cmds <- enqueued,
    arrived <- ParseOut(toGuest),
    open <- connected,
    Events <- {AsReceived(e) : e \in GuestEvents \cup {Pong}},
    Commands <- {Ping, ReleaseModifiers} \cup {RegisterHotKey(i, k) : i \in Ids, k \in Keys}

PingCount(s) == Len(SelectSeq(s, LAMBDA c : c = Ping))

-----------------------------------------------------------------------------
(* Properties.                                                             *)

TypeOK ==
    /\ ctlState \in States
    /\ reports \in Nat /\ teardowns \in Nat /\ loops \in Nat
    /\ registry \subseteq Ids
    /\ \A i \in DOMAIN presses : presses[i] \in Ids
    /\ \A s \in {toHost, rbuf, wbuf, toGuest} : \A i \in DOMAIN s : s[i] \in 0..255
    /\ guestRead \in 0..Len(ParseOut(toGuest))
    /\ sigPending \in BOOLEAN
    /\ {connected, handlerDone, senderDone} \subseteq BOOLEAN

\* Framing (codec decode + Framed reader): however the stream is cut into
\* reads, the handler dispatches exactly the events the guest wrote, in
\* order, texts decoded lossily, and never an event of a partial frame.
InboundInOrder ==
    IsPrefix(dispatched, [i \in DOMAIN GuestFrames |-> AsReceived(GuestFrames[i])])

\* Every frame the guest wrote before any unknown opcode is eventually
\* dispatched by the handler.
InboundDelivered ==
    \A k \in 1..MaxGuestFrames :
        (Len(GuestFrames) >= k) ~> (Len(dispatched) >= k)

\* Sender (channel + codec encode + Framed writer): what the guest can parse
\* from the stream, then the write buffer, then the channel, is exactly
\* what the producers sent, in the order they sent it: nothing is lost,
\* duplicated or reordered across producers.
OutboundInOrder ==
    ParseOut(toGuest \o wbuf) \o queue = enqueued

\* Every command sent into the channel eventually reaches the guest.
OutboundDelivered ==
    \A k \in 1..(1 + MaxTicks + MaxRequests) :
        (Len(enqueued) >= k) ~> (Len(ParseOut(toGuest)) >= k)

\* Boot idempotence and self-stopping: at most one probe loop ever runs,
\* and while the controller believes the guest is being probed
\* (Probing or Alive) that loop is alive.
OneProbeLoopWhileMonitored ==
    /\ loops <= 1
    /\ ctlState \in {"Probing", "Alive"} => loops = 1



\* Hot-key routing end to end (the codec's u32 decoding, the HotKey arm of
\* the handler, ga_hotkey): the step that dispatches the guest's k-th frame,
\* when that frame is a HotKey, hands exactly the id the guest wrote to its
\* registrant if that id is registered by then, and drops it otherwise; no
\* other step hands out a press.
HotkeysRouted ==
    [][LET k == Len(dispatched') IN
       IF k > Len(dispatched) /\ guestSent[k].kind = "HotKey"
       THEN presses' = IF guestSent[k].id \in registry
                       THEN Append(presses, guestSent[k].id) ELSE presses
       ELSE presses' = presses]_vars

\* The byte-level clientpipe (codec, Framed reader and writer, channel,
\* partial reads and writes, end of stream and failed writes) implements
\* the abstract FIFO links, fairness included.
LinkRefinement == Link!LinkSpec

\* A guest that goes away while it is being probed is eventually found
\* unresponsive by the probe loop, unless its last words were Suspending:
\* the only detector of a vanished guest is the ping timeout.
LostGuestDetected ==
    (~connected /\ ctlState \in {"Probing", "Alive"})
        ~> (ctlState \in {"Unresponsive", "Suspending"})

\* The probe loop is a timer task of its own: once the controller has
\* stopped probing (Unresponsive or Suspending), take_while(ga_ping) at
\* mod.rs:64 must end every live loop at its next tick, so no interval
\* keeps firing for a guest nobody probes.
ProbeLoopEnds ==
    (loops > 0 /\ ctlState \in {"Unresponsive", "Suspending"}) ~> (loops = 0)
=============================================================================
