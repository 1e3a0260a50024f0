--------------------------- MODULE ClientpipeLink ---------------------------
(***************************************************************************)
(* What the clientpipe promises (spec.md 4.2 and 5), without bytes,        *)
(* buffers or tasks: two FIFO links between the guest agent and the host.  *)
(* Inbound, the host receives the guest's events in the order they were   *)
(* sent, each exactly once; the controller may answer one with a command.  *)
(* Outbound, the guest receives the host's commands in the order they were *)
(* enqueued; one write may complete several of them at once.  The link may *)
(* close: the guest sends and receives nothing more, and what it sent      *)
(* before is still delivered.                                              *)
(***************************************************************************)
EXTENDS Sequences, Naturals

CONSTANTS
    Events,    \* what the guest may send, as the host sees it
    Commands   \* what the host may send

VARIABLES
    sent,      \* events the guest sent, in order
    delivered, \* events the host has handled, in order
    cmds,      \* commands the host enqueued, in order
    arrived,   \* commands that have reached the guest, in order
    open       \* the link is up

linkAbsVars == <<sent, delivered, cmds, arrived, open>>

LinkInit ==
    /\ sent = <<>> /\ delivered = <<>>
    /\ cmds = <<>> /\ arrived = <<>>
    /\ open = TRUE

GuestSends(e) ==
    /\ open
    /\ sent' = Append(sent, e)
    /\ UNCHANGED <<delivered, cmds, arrived, open>>

\* The host handles the oldest undelivered event and may enqueue one
\* command in response.
Deliver ==
    /\ Len(delivered) < Len(sent)
    /\ delivered' = Append(delivered, sent[Len(delivered) + 1])
    /\ \/ UNCHANGED cmds
       \/ \E c \in Commands : cmds' = Append(cmds, c)
    /\ UNCHANGED <<sent, arrived, open>>

HostSends(c) ==
    /\ cmds' = Append(cmds, c)
    /\ UNCHANGED <<sent, delivered, arrived, open>>

\* Some more of the enqueued commands reach the guest, in order.
Arrive ==
    /\ open
    /\ \E k \in (Len(arrived) + 1)..Len(cmds) : arrived' = SubSeq(cmds, 1, k)
    /\ UNCHANGED <<sent, delivered, cmds, open>>

Close ==
    /\ open
    /\ open' = FALSE
    /\ UNCHANGED <<sent, delivered, cmds, arrived>>

LinkNext ==
    \/ \E e \in Events : GuestSends(e)
    \/ Deliver
    \/ \E c \in Commands : HostSends(c)
    \/ Arrive
    \/ Close

\* Nothing the guest sent is left unhandled, and while the link is up
\* nothing enqueued is left undelivered.
LinkSpec ==
    LinkInit /\ [][LinkNext]_linkAbsVars /\ WF_linkAbsVars(Deliver) /\ WF_linkAbsVars(Arrive)
=============================================================================
