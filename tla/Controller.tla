----------------------------- MODULE Controller -----------------------------
(***************************************************************************)
(* The lifecycle/liveness supervisor the clientpipe handler calls into     *)
(* (driver::controller::Controller: ga_hello, ga_ping, ga_pong,            *)
(* ga_suspending, ga_hotkey, shutdown).  Its source is not under src/, so  *)
(* every operator here is written from spec.md section 4.4.                *)
(*                                                                         *)
(* The controller owns the sending handle of the clientpipe's unbounded    *)
(* mpsc channel: queue is what the writer task has not taken yet, enqueued *)
(* is the history of every command ever sent into it.                      *)
(***************************************************************************)
EXTENDS ClientpipeCodec, FiniteSets

CONSTANTS
    MaxRequests  \* bound on hot-key registrations and ReleaseModifiers sent

VARIABLES
    ctlState,    \* "Dormant", "Probing", "Alive", "Unresponsive", "Suspending"
    reports,     \* how often the guest was surfaced as unresponsive
    registry,    \* HotKeyRegistry: ids registered so far (never removed)
    presses,     \* hot-key presses handed to their registrant, in order
    teardowns,   \* downstream VM teardown signals raised by shutdown()
    queue,       \* the mpsc channel's content
    enqueued     \* history of every command sent into the channel

ctlVars == <<ctlState, reports, registry, presses, teardowns, queue, enqueued>>

States == {"Dormant", "Probing", "Alive", "Unresponsive", "Suspending"}

CtlInit ==
    /\ ctlState = "Dormant"
    /\ reports = 0
    /\ registry = {}
    /\ presses = <<>>
    /\ teardowns = 0
    /\ queue = <<>>
    /\ enqueued = <<>>

\* UnboundedSender::unbounded_send.
Send(c) ==
    /\ queue' = Append(queue, c)
    /\ enqueued' = Append(enqueued, c)

\* Mutation: ga_hello answers true for every boot report.
GaHelloStartsAlways == TRUE
\* ga_hello's result: TRUE only for the first ReportBoot.
GaHelloStarts == ctlState = "Dormant"

\* ga_hello: the first boot report starts probing and sends the first Ping;
\* a later one changes nothing.
GaHello ==
    IF GaHelloStarts
    THEN /\ ctlState' = "Probing"
         /\ Send(Ping)
         /\ UNCHANGED <<reports, registry, presses, teardowns>>
    ELSE UNCHANGED ctlVars

\* Mutation: take_while stops the loop after every tick.
GaPingContinuesNever == FALSE
\* ga_ping's result: whether the probe loop keeps running after this tick.
GaPingContinues == ctlState = "Alive"

\* ga_ping, one probe-timer tick.  A pong since the last tick (Alive) earns
\* the next Ping; none (still Probing) makes the guest unresponsive; in any
\* other state the loop just stops.
GaPing ==
    CASE ctlState = "Alive" ->
            /\ ctlState' = "Probing"
            /\ Send(Ping)
            /\ UNCHANGED <<reports, registry, presses, teardowns>>
      [] ctlState = "Probing" ->
            /\ ctlState' = "Unresponsive"
            /\ reports' = reports + 1
            /\ UNCHANGED <<registry, presses, teardowns, queue, enqueued>>
      [] OTHER -> UNCHANGED ctlVars

\* ga_pong.
GaPong ==
    /\ ctlState' = IF ctlState = "Probing" THEN "Alive" ELSE ctlState
    /\ UNCHANGED <<reports, registry, presses, teardowns, queue, enqueued>>

\* ga_suspending.
GaSuspending ==
    /\ ctlState' = "Suspending"
    /\ UNCHANGED <<reports, registry, presses, teardowns, queue, enqueued>>

\* Mutation: the press is forwarded without looking the id up.
GaHotkeyUnchecked(id) ==
    /\ presses' = Append(presses, id)
    /\ UNCHANGED <<ctlState, reports, registry, teardowns, queue, enqueued>>

\* ga_hotkey: a press of a registered id goes to its registrant, an unknown
\* id is dropped.
GaHotkey(id) ==
    /\ presses' = IF id \in registry THEN Append(presses, id) ELSE presses
    /\ UNCHANGED <<ctlState, reports, registry, teardowns, queue, enqueued>>

\* shutdown: terminal and idempotent.
Shutdown ==
    /\ teardowns' = IF teardowns = 0 THEN 1 ELSE teardowns
    /\ UNCHANGED <<ctlState, reports, registry, presses, queue, enqueued>>

Requests == Len(SelectSeq(enqueued, LAMBDA c : c.kind # "Ping"))

\* The hot-key registrar: a fresh id is recorded and RegisterHotKey sent.
RegisterHotKeyRequest(id, key) ==
    /\ Requests < MaxRequests
    /\ id \notin registry
    /\ registry' = registry \cup {id}
    /\ Send(RegisterHotKey(id, key))
    /\ UNCHANGED <<ctlState, reports, presses, teardowns>>

\* The registrar asks the guest to release its modifier keys.
ReleaseModifiersRequest ==
    /\ Requests < MaxRequests
    /\ Send(ReleaseModifiers)
    /\ UNCHANGED <<ctlState, reports, registry, presses, teardowns>>
=============================================================================
