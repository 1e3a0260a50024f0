----------------------------- MODULE Mkinitcpio -----------------------------
(***************************************************************************)
(* Wizard::autoconfigure_mkinitcpio (setup_wizard.rs): the scan of         *)
(* /etc/mkinitcpio.conf that puts KERNEL_MODULES at the front of the       *)
(* MODULES line, notes whether a HOOKS line uses modconf, and decides      *)
(* whether to write the result, to report success without writing, or to   *)
(* give up.  A line is abstracted to the predicates the scan tests on it:  *)
(* starts_with("MODULES=\"") or ("HOOKS=\""), and contains(KERNEL_MODULES), *)
(* ("vfio") or ("modconf").  The file is a shell script that mkinitcpio    *)
(* sources, so of two assignments to one variable the last one counts,    *)
(* and it reads lines whatever their encoding; the wizard reads only the  *)
(* lines that are UTF-8.                                                   *)
(***************************************************************************)
EXTENDS Integers, Sequences, SequencesExt

\* A MODULES line; km: it contains KERNEL_MODULES, vfio: it contains "vfio"
\* (KERNEL_MODULES itself contains "vfio").
ModulesLine(km, vfio) ==
    [kind |-> "modules", km |-> km, vfio |-> km \/ vfio, modconf |-> FALSE, utf8 |-> TRUE]
\* A HOOKS line, and whether it contains "modconf".
HooksLine(modconf) ==
    [kind |-> "hooks", km |-> FALSE, vfio |-> FALSE, modconf |-> modconf, utf8 |-> TRUE]
OtherLine ==
    [kind |-> "other", km |-> FALSE, vfio |-> FALSE, modconf |-> FALSE, utf8 |-> TRUE]

LineKinds ==
    {ModulesLine(km, v) : km, v \in BOOLEAN} \cup {HooksLine(m) : m \in BOOLEAN}
    \cup {OtherLine}

\* The same line with a byte sequence that is not UTF-8 in it (a Latin-1
\* comment or module name, say).
NonUtf8(l) == [l EXCEPT !.utf8 = FALSE]

\* The non-UTF-8 lines that can change what the scan or mkinitcpio sees: a
\* plain line, a MODULES line without vfio, a HOOKS line with modconf.
NonUtf8LineKinds == {NonUtf8(l) : l \in {OtherLine, ModulesLine(FALSE, FALSE), HooksLine(TRUE)}}

\* BufReader::new(f).lines().flat_map(|x| x.ok()): a line that is not
\* UTF-8 comes out as an Err, its bytes consumed, and is skipped.
ReadableLines(conf) == SelectSeq(conf, LAMBDA l : l.utf8)

\* The rewritten line MODULES="<KERNEL_MODULES> <rest of the old line>".
PrefixedModulesLine == ModulesLine(TRUE, TRUE)

\* The locals of the loop: hooks_added, already_added, *has_modconf,
\* mkic_conf, and whether the loop has returned Ok(false).
ScanInit == [hooksAdded |-> FALSE, alreadyAdded |-> FALSE,
             hasModconf |-> FALSE, out |-> <<>>, bail |-> FALSE]

\* Mutation: an already-patched MODULES line sets only already_added.
ScanStepAlreadyAddedOnly(st, l) ==
    CASE l.kind = "modules" /\ l.km -> [st EXCEPT !.alreadyAdded = TRUE]
      [] l.kind = "modules" /\ (l.vfio \/ st.hooksAdded) -> [st EXCEPT !.bail = TRUE]
      [] l.kind = "modules" ->
            [st EXCEPT !.out = Append(@, PrefixedModulesLine), !.hooksAdded = TRUE]
      [] OTHER ->
            [st EXCEPT !.hasModconf = @ \/ (l.kind = "hooks" /\ l.modconf),
                       !.out = Append(@, l)]

\* Mutation: only HOOKS lines are copied to the new file.
ScanStepDropsOthers(st, l) ==
    CASE l.kind = "modules" /\ l.km ->
            [st EXCEPT !.alreadyAdded = TRUE, !.hooksAdded = TRUE]
      [] l.kind = "modules" /\ (l.vfio \/ st.hooksAdded) -> [st EXCEPT !.bail = TRUE]
      [] l.kind = "modules" ->
            [st EXCEPT !.out = Append(@, PrefixedModulesLine), !.hooksAdded = TRUE]
      [] OTHER ->
            [st EXCEPT !.hasModconf = @ \/ (l.kind = "hooks" /\ l.modconf),
                       !.out = IF l.kind = "hooks" THEN Append(@, l) ELSE @]

\* One iteration of the for loop over the lines.
ScanStep(st, l) ==
    CASE l.kind = "modules" /\ l.km ->
            [st EXCEPT !.alreadyAdded = TRUE, !.hooksAdded = TRUE]
      [] l.kind = "modules" /\ (l.vfio \/ st.hooksAdded) -> [st EXCEPT !.bail = TRUE]
      [] l.kind = "modules" ->
            [st EXCEPT !.out = Append(@, PrefixedModulesLine), !.hooksAdded = TRUE]
      [] OTHER ->
            [st EXCEPT !.hasModconf = @ \/ (l.kind = "hooks" /\ l.modconf),
                       !.out = Append(@, l)]

\* The loop, left to right, up to the first `return Ok(false)`.
RECURSIVE ScanLines(_, _)
ScanLines(st, ls) ==
    IF ls = <<>> \/ st.bail THEN st ELSE ScanLines(ScanStep(st, Head(ls)), Tail(ls))

\* What the function does after the loop: "giveUp" is Ok(false) without a
\* write, "done" is Ok(true) without a write, "write" hands out to
\* sudo_write_file and returns its answer.
Autoconfigure(conf) ==
    LET st == ScanLines(ScanInit, ReadableLines(conf)) IN
    [hasModconf |-> st.hasModconf, out |-> st.out,
     verdict |-> CASE st.bail -> "giveUp"
                   [] st.alreadyAdded -> "done"
                   [] st.hooksAdded -> "write"
                   [] OTHER -> "giveUp"]

-----------------------------------------------------------------------------
(* How mkinitcpio reads a configuration: the last assignment counts.       *)

LastOfKind(conf, k) == SelectSeq(conf, LAMBDA l : l.kind = k)

ModulesLoaded(conf) ==
    LastOfKind(conf, "modules") # <<>> /\ Last(LastOfKind(conf, "modules")).km

UsesModconf(conf) ==
    LastOfKind(conf, "hooks") # <<>> /\ Last(LastOfKind(conf, "hooks")).modconf
=============================================================================
