---------------------------- MODULE SetupWizard ----------------------------
(***************************************************************************)
(* Wizard::run (setup_wizard.rs): the interactive first-time setup.  The   *)
(* wizard is one thread; every question is the ask_anything loop, which    *)
(* prints the question, reads a line, and returns when parse_answer        *)
(* accepts it and asks again when not.  pc is the question being asked or *)
(* the way the wizard ended.  Each answer action carries the wizard from   *)
(* the accepted answer through everything run() does until the next       *)
(* question or the end, so external effects (the mkinitcpio.conf rewrite,  *)
(* /etc/modprobe.d/vfio.conf, mkinitcpio -p) happen inside it.  The host   *)
(* (IOMMU, devices bound to vfio-pci, GPUs, the iommu group, DISPLAY,      *)
(* whether /etc/mkinitcpio.conf exists and what it says) is chosen in Init *)
(* and does not change.  Printed text is left out.                        *)
(***************************************************************************)
EXTENDS Mkinitcpio, FiniteSets

CONSTANTS
    MaxGpus,   \* bound on the GPUs udev lists
    MaxLines,  \* bound on the lines of /etc/mkinitcpio.conf
    Inputs,      \* the lines the user may type; "eof" is end of input
    AllowNonUtf8, \* /etc/mkinitcpio.conf may hold lines that are not UTF-8
    MaxRestarts   \* bound on the times the user runs the wizard again

ASSUME
    /\ MaxGpus \in 0..2
    /\ MaxLines \in Nat
    /\ "eof" \in Inputs
    /\ AllowNonUtf8 \in BOOLEAN
    /\ MaxRestarts \in Nat

VARIABLES
    pc,         \* the question asked, or "aborted", "panicked", "rebootAdvised"
    host,       \* the machine the wizard runs on
    conf,       \* the content of /etc/mkinitcpio.conf
    hasModconf, \* has_modconf of run()
    skipAsk,    \* the first skip_ask of run()
    autoDone,   \* autoconfigure_mkinitcpio answered true ("Success!")
    vfioConf,   \* /etc/modprobe.d/vfio.conf has been written
    restarts    \* how often the wizard was run again after it ended

vars == <<pc, host, conf, hasModconf, skipAsk, autoDone, vfioConf, restarts>>

\* The answers each question's parse_answer accepts: ask_yesno takes "y"
\* and "n"; ask_numeric the numerals of 0..devs.len() (end exclusive);
\* the memory question any line; ask_file a path that exists.
GpuNumerals == <<"0", "1">>
YesNo == {"y", "n"}
Accepts(q) ==
    CASE q = "selectGpu" -> {GpuNumerals[i] : i \in 1..host.gpus}
      [] q = "memory" -> Inputs \ {"eof"}
      [] q \in {"rootDisk", "iso"} -> {"/dev/sdb"}
      [] OTHER -> YesNo

Questions ==
    {"understood", "iommuDone", "selectGpu", "ignoreUnrelated", "editConf",
     "modconfDone", "manualDone", "vfioDone", "defaultKernel",
     "initramfsDone", "memory", "displayGui", "rootDisk", "iso", "ready"}

Hosts ==
    [iommu : BOOLEAN, passthrough : BOOLEAN, gpus : 0..MaxGpus,
     unrelated : BOOLEAN, display : BOOLEAN, mkinitcpio : BOOLEAN]

Init ==
    /\ host \in Hosts
    /\ conf \in IF host.mkinitcpio
                THEN UNION {[1..n -> LineKinds \cup (IF AllowNonUtf8 THEN NonUtf8LineKinds ELSE {})]
                              : n \in 0..MaxLines}
                ELSE {<<>>}
    /\ pc = "understood"
    /\ hasModconf = FALSE /\ skipAsk = FALSE
    /\ autoDone = FALSE /\ vfioConf = FALSE
    /\ restarts = 0

\* A step that only moves to the next question or end.
Goto(l) == pc' = l /\ UNCHANGED <<conf, hasModconf, skipAsk, autoDone, vfioConf>>

Abort == Goto("aborted")

-----------------------------------------------------------------------------
(* The steps of run() between two questions.                              *)

\* get_passthrough_devs: the udev enumeration of the devices bound to
\* vfio-pci.  Each of its three udev calls may fail (`?`).
GetPassthroughDevs(h) == {"err", IF h.passthrough THEN "some" ELSE "none"}

\* The drm enumeration at the start of udev_select_gpu, before its
\* question: its three udev calls may fail (`?`).
DrmEnumerationResults == BOOLEAN

\* After the IOMMU check: get_passthrough_devs().expect(..) decides between
\* step 2 (nothing bound to vfio-pci yet; udev_select_gpu asks at once
\* unless its enumeration fails, which .expect("Failed to select GPU")
\* turns into a panic) and step 5.
ToStep2Or5 ==
    \E r \in GetPassthroughDevs(host), drmOk \in DrmEnumerationResults :
        Goto(CASE r = "err" -> "panicked"
               [] r = "some" -> "memory"
               [] drmOk -> "selectGpu"
               [] OTHER -> "panicked")

\* What sudo_write_file can answer, as run() reads it: TRUE when sudo -e
\* installed what tee was given (Ok(true)); FALSE for a failing status
\* (Ok(false)) or a spawn, write or wait error (Err, unwrap_or(false)),
\* with the file left alone.
SudoWriteResults == BOOLEAN

\* The sudo_write_file of /etc/modprobe.d/vfio.conf; a failed write panics
\* and leaves the file as it was.  Then "Done?" unless skip_ask.
WriteVfioConf(skip) ==
    \E ok \in SudoWriteResults :
        /\ vfioConf' = (vfioConf \/ ok)
        /\ pc' = CASE ~ok -> "panicked"
                   [] skip -> "defaultKernel"
                   [] OTHER -> "vfioDone"
        /\ skipAsk' = skip

\* run() after autoconfigure_mkinitcpio(..).unwrap_or(false) answered r.
AfterAutoconfigure(r, hm) ==
    /\ hasModconf' = hm
    /\ autoDone' = r
    /\ IF r /\ hm THEN WriteVfioConf(TRUE)
       ELSE /\ pc' = IF r THEN "modconfDone" ELSE "manualDone"
            /\ UNCHANGED <<skipAsk, vfioConf>>

\* autoconfigure_mkinitcpio up to its first question: without the file it
\* answers Ok(false) at once.
EnterAutoconfigure ==
    IF host.mkinitcpio
    THEN Goto("editConf")
    ELSE AfterAutoconfigure(FALSE, hasModconf) /\ UNCHANGED conf

\* "Would you like me to try to edit the config file for you?" answered y:
\* *has_modconf = false, the scan, and the write when there is one.  The
\* write through sudo -e tee either installs the new file and answers
\* Ok(true), or fails, leaves the file alone and answers Ok(false) or Err.
EditConfYes ==
    LET a == Autoconfigure(conf) IN
    CASE a.verdict = "write" ->
            \E ok \in SudoWriteResults :
                /\ conf' = IF ok THEN a.out ELSE conf
                /\ AfterAutoconfigure(ok, a.hasModconf)
      [] OTHER ->
            /\ AfterAutoconfigure(a.verdict = "done", a.hasModconf)
            /\ UNCHANGED conf

\* "Understood?" answered y: is_iommu_enabled (an entry under
\* /sys/devices/virtual/iommu/) or Step 1 and its "Done?".
IommuCheck == IF host.iommu THEN ToStep2Or5 ELSE Goto("iommuDone")

\* udev_select_gpu after ask_numeric: the selected GPU's iommu group is
\* scanned; devices that are neither functions of the GPU nor PCI bridges
\* are unrelated and lead to "Ignore this and carry on?".  Otherwise the
\* ids are returned and run() goes on to mkinitcpio.
\* The scan itself (assert! on the iommu_group directory, read_dir and
\* device_from_syspath with `?`) may fail, which panics in run().
GpuSelected ==
    \E scanOk \in BOOLEAN :
        CASE ~scanOk -> Goto("panicked")
          [] host.unrelated -> Goto("ignoreUnrelated")
          [] OTHER -> EnterAutoconfigure

\* "Ignore this and carry on?": n is Ok(None), and run() returns at
\* `None => return`.
IgnoreUnrelatedAnswered(a) == IF a = "n" THEN Abort ELSE EnterAutoconfigure

-----------------------------------------------------------------------------
(* One accepted answer to each question.                                   *)

Answered(a) ==
    CASE pc = "understood" ->
            IF a = "n" THEN Abort ELSE IommuCheck
      [] pc = "iommuDone" -> IF a = "n" THEN Abort ELSE ToStep2Or5
      [] pc = "selectGpu" -> GpuSelected
      [] pc = "ignoreUnrelated" -> IgnoreUnrelatedAnswered(a)
      [] pc = "editConf" ->
            IF a = "n" THEN AfterAutoconfigure(FALSE, hasModconf) /\ UNCHANGED conf
            ELSE EditConfYes
      [] pc \in {"modconfDone", "manualDone"} ->
            IF a = "n" THEN Abort
            ELSE WriteVfioConf(FALSE) /\ UNCHANGED <<conf, hasModconf, autoDone>>
      [] pc = "vfioDone" -> IF a = "n" THEN Abort ELSE Goto("defaultKernel")
      [] pc = "defaultKernel" ->
            \* sudo mkinitcpio -p linux: spawn failure panics at expect,
            \* a failing status asks "Done?", success skips it.
            IF a = "n" THEN Goto("initramfsDone")
            ELSE \E l \in {"panicked", "initramfsDone", "rebootAdvised"} : Goto(l)
      [] pc = "initramfsDone" -> IF a = "n" THEN Abort ELSE Goto("rebootAdvised")
      [] pc = "memory" ->
            \* without DISPLAY setup.gui stays false: unimplemented!()
            Goto(IF host.display THEN "displayGui" ELSE "panicked")
      [] pc = "displayGui" -> Goto(IF a = "n" THEN "panicked" ELSE "rootDisk")
      [] pc = "rootDisk" -> Goto("iso")
      [] pc = "iso" -> Goto("ready")
      [] pc = "ready" ->
            \* qemu::run, then unimplemented!()
            IF a = "n" THEN Abort ELSE Goto("panicked")

\* ask_anything: one read_line.  At end of input the line is empty and
\* line.len() - 1 underflows (a panic); an answer parse_answer rejects
\* makes it ask again; an accepted one returns to run().
ReadLine ==
    /\ pc \in Questions
    /\ \E a \in Inputs :
          \/ /\ a = "eof"
             /\ Goto("panicked")
             /\ UNCHANGED host
          \/ /\ a \notin Accepts(pc) \cup {"eof"}
             /\ UNCHANGED vars
          \/ /\ a \in Accepts(pc)
             /\ Answered(a)
             /\ UNCHANGED host
    /\ UNCHANGED restarts

\* The user runs the wizard again after it aborted or panicked ("When you
\* restart the wizard after aborting it, it may lead you through some
\* steps again"): a new process, so run()'s locals start afresh, while the
\* files it wrote stay.  Without a reboot the host is the same.
Restart ==
    /\ pc \in {"aborted", "panicked"}
    /\ restarts < MaxRestarts
    /\ restarts' = restarts + 1
    /\ pc' = "understood"
    /\ hasModconf' = FALSE /\ skipAsk' = FALSE /\ autoDone' = FALSE
    /\ UNCHANGED <<host, conf, vfioConf>>

Next == ReadLine \/ Restart

Spec == Init /\ [][Next]_vars

-----------------------------------------------------------------------------

\* Every question the wizard asks has an answer its parse_answer accepts:
\* otherwise ask_anything loops until end of input (udev_select_gpu asks
\* ask_numeric over 0..devs.len() whatever devs.len() is).
EveryQuestionAnswerable == pc \in Questions => Accepts(pc) # {}

\* When autoconfigure_mkinitcpio reports success, the mkinitcpio.conf in
\* place makes the initramfs load the vfio modules: its MODULES assignment
\* in effect (the last) contains KERNEL_MODULES, whichever of rewrite,
\* "already added" or a failed write led there.
AutoSuccessMeansModulesLoaded == autoDone => ModulesLoaded(conf)

\* A write of mkinitcpio.conf keeps every line and its order and changes
\* only the MODULES line, which gets KERNEL_MODULES at its front.
RewritePreservesOtherLines ==
    [][(conf' # conf) =>
         (/\ Len(conf') = Len(conf)
          /\ \A i \in DOMAIN conf :
                conf'[i] = IF conf[i].kind = "modules" THEN PrefixedModulesLine
                           ELSE conf[i])]_vars

\* The wizard writes vfio.conf and skips its "Done?" only when the
\* mkinitcpio configuration in effect uses the modconf hook, which is what
\* makes vfio.conf reach the initramfs.
SkipOnlyWithModconf == skipAsk /\ vfioConf => UsesModconf(conf)

=============================================================================
