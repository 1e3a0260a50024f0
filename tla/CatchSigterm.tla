---------------------------- MODULE CatchSigterm ----------------------------
(***************************************************************************)
(* mainloop/catch_sigterm.rs: SIGTERM is blocked and routed to a signalfd; *)
(* the reactor runs the source when the fd is readable, run() reads one    *)
(* signal and calls shutdown() on the monitor, and answers                 *)
(* PollableResult::Ok, so the source stays registered.  A standard signal  *)
(* is pending at most once: SIGTERMs that arrive before the read coalesce. *)
(***************************************************************************)
EXTENDS Controller

CONSTANTS
    MaxSigterms  \* bound on SIGTERMs the environment delivers

VARIABLES
    sigPending,  \* SIGTERM pending on the signalfd (the fd is readable)
    sigterms     \* SIGTERMs delivered so far

sigVars == <<sigPending, sigterms>>

SigInit == sigPending = FALSE /\ sigterms = 0

\* The OS delivers SIGTERM to the blocked set: it becomes pending.
Sigterm ==
    /\ sigterms < MaxSigterms
    /\ sigterms' = sigterms + 1
    /\ sigPending' = TRUE
    /\ UNCHANGED ctlVars

\* CatchSigterm::run: read_signal, then monitor.shutdown().
CatchSigtermRun ==
    /\ sigPending
    /\ sigPending' = FALSE
    /\ Shutdown
    /\ UNCHANGED sigterms
=============================================================================
