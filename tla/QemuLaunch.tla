---------------------------- MODULE QemuLaunch ----------------------------
(***************************************************************************)
(* qemu::run (qemu.rs) as the sequence of its steps that can fail or that  *)
(* change the host: the efivars copy, the guest-agent iso check, the samba *)
(* setup, the PCI loop that runs vfio-ubind on each resettable device      *)
(* before passing it through, the USB part (UsbTopology), and the spawn of *)
(* qemu.  Every .expect, assert! and panic! ends the driver ("panicked").  *)
(* The argument strings are abstracted to what they name: the devices      *)
(* passed through, in order, and whether usernet carries smb=.  The steps *)
(* that only append constant or formatted arguments (gui, cdrom, floppy,   *)
(* hugepages, memory, smp, bridges, storage, sound) cannot fail and are    *)
(* left out.                                                               *)
(***************************************************************************)
EXTENDS UsbTopology

CONSTANTS
    MaxPciDevices   \* bound on cfg.machine.pci_devices

ASSUME MaxPciDevices \in Nat

\* A configured PCI device, reduced to device.resettable; the slot is the
\* device's position in the configuration.
PciDevices == [resettable : BOOLEAN]

\* What spawning and waiting on vfio-ubind can give: exit 0, a failing
\* status, a spawn error, a wait error.
UbindOutcomes == {"success", "failure", "spawnError", "waitError"}

VARIABLES
    pciDevices,   \* cfg.machine.pci_devices
    sambaCfg,     \* cfg.samba is Some
    pc,           \* the step of qemu::run, "running" or "panicked"
    pciIdx,       \* the next device of the PCI loop
    rebound,      \* devices vfio-ubind has rebound (exit status 0)
    passed,       \* the vfio-pci devices in qemu's arguments, in order
    usernetSmb    \* usernet carries ",smb=<path>"

launchVars == <<pciDevices, sambaCfg, pc, pciIdx, rebound, passed, usernetSmb>>
allVars == <<vars, launchVars>>

LaunchInit ==
    /\ Init
    /\ pciDevices \in UNION {[1..n -> PciDevices] : n \in 0..MaxPciDevices}
    /\ sambaCfg \in BOOLEAN
    /\ pc = "efivars"
    /\ pciIdx = 1
    /\ rebound = {}
    /\ passed = <<>>
    /\ usernetSmb = FALSE

\* A step of qemu::run that only moves on to the next one or panics.
StepTo(l) == pc' = l /\ UNCHANGED <<pciDevices, sambaCfg, pciIdx, rebound, passed, usernetSmb>>

\* fs::copy of ovmf-vars.fd into tmp, .expect on failure.
CopyEfivars ==
    /\ pc = "efivars"
    /\ \E ok \in BOOLEAN : StepTo(IF ok THEN "gaIso" ELSE "panicked")
    /\ UNCHANGED vars

\* assert!(ga_iso.exists()).
CheckGaIso ==
    /\ pc = "gaIso"
    /\ \E exists \in BOOLEAN : StepTo(IF exists THEN "samba" ELSE "panicked")
    /\ UNCHANGED vars

\* samba::setup: assert!(is_installed()), then ",smb=<path>" appended to
\* usernet (write! to a String does not fail).
SambaSetup(installed) ==
    /\ pc' = IF installed THEN "pci" ELSE "panicked"
    /\ usernetSmb' = installed

\* if let Some(ref samba) = cfg.samba; smbd may or may not be installed.
Samba ==
    /\ pc = "samba"
    /\ IF sambaCfg
       THEN \E installed \in BOOLEAN : SambaSetup(installed)
       ELSE pc' = "pci" /\ UNCHANGED usernetSmb
    /\ UNCHANGED <<pciDevices, sambaCfg, pciIdx, rebound, passed>>
    /\ UNCHANGED vars

\* Mutation: a failing exit status of vfio-ubind is ignored.
PciStepIgnoringStatus(o) ==
    LET d == pciDevices[pciIdx] IN
    /\ ~d.resettable \/ o \in {"success", "failure"}
    /\ rebound' = IF d.resettable /\ o = "success" THEN rebound \cup {pciIdx} ELSE rebound
    /\ passed' = Append(passed, pciIdx)
    /\ pciIdx' = pciIdx + 1

\* Mutation: the vfio-pci argument added only for resettable devices.
PciStepArgInsideIf(o) ==
    LET d == pciDevices[pciIdx] IN
    /\ ~d.resettable \/ o = "success"
    /\ rebound' = IF d.resettable THEN rebound \cup {pciIdx} ELSE rebound
    /\ passed' = IF d.resettable THEN Append(passed, pciIdx) ELSE passed
    /\ pciIdx' = pciIdx + 1

\* One iteration of the pci_devices loop that does not panic: a resettable
\* device is first rebound by vfio-ubind, which must exit 0; then the
\* device is passed through as vfio-pci.
PciStep(o) ==
    LET d == pciDevices[pciIdx] IN
    /\ ~d.resettable \/ o = "success"
    /\ rebound' = IF d.resettable /\ o = "success" THEN rebound \cup {pciIdx} ELSE rebound
    /\ passed' = Append(passed, pciIdx)
    /\ pciIdx' = pciIdx + 1

\* The loop: an iteration whose vfio-ubind does not end in exit 0 panics
\* (spawn .expect, the failing-status panic!, the wait-error panic!); after
\* the last device, the USB part.
PciLoop ==
    /\ pc = "pci"
    /\ IF pciIdx <= Len(pciDevices)
       THEN \E o \in UbindOutcomes :
               \/ PciStep(o) /\ UNCHANGED pc
               \/ /\ pciDevices[pciIdx].resettable /\ o # "success"
                  /\ pc' = "panicked"
                  /\ UNCHANGED <<pciIdx, rebound, passed>>
       ELSE StepTo("usb")
    /\ UNCHANGED <<pciDevices, sambaCfg, usernetSmb>>
    /\ UNCHANGED vars

\* create usb buses and the group loop (UsbTopology's QemuRun); a binding
\* that fails to resolve panics there.
Usb ==
    /\ pc = "usb"
    /\ QemuRun
    /\ StepTo(IF Panics THEN "panicked" ELSE "spawn")

\* The additional command line, stdin, before_exec(setpgid) (whose failure
\* is only logged) and spawn_async(..).expect("Failed to start qemu").
Spawn ==
    /\ pc = "spawn"
    /\ \E ok \in BOOLEAN : StepTo(IF ok THEN "running" ELSE "panicked")
    /\ UNCHANGED vars

LaunchNext == CopyEfivars \/ CheckGaIso \/ Samba \/ PciLoop \/ Usb \/ Spawn

LaunchSpec == LaunchInit /\ [][LaunchNext]_allVars

-----------------------------------------------------------------------------

\* qemu never gets a resettable device that vfio-ubind has not rebound:
\* every vfio-pci argument for a resettable device follows a vfio-ubind
\* run that exited 0 (the panic message: otherwise the device "might not
\* be bound to the vfio-driver").
PassedThroughOnlyRebound ==
    \A k \in DOMAIN passed :
        pciDevices[passed[k]].resettable => passed[k] \in rebound

\* A qemu that runs was given the whole configuration: every PCI device,
\* once each and in configuration order, smb on usernet exactly when samba
\* is configured, and the USB devices (LighthousePlugged, PluggedOnOwnPort
\* speak of those).
StartedWithWholeConfig ==
    pc = "running" =>
        /\ passed = [i \in DOMAIN pciDevices |-> i]
        /\ usernetSmb = sambaCfg
        /\ phase = "started"

=============================================================================
