# TLA+ models of windows-gaming

This directory holds TLA+ models of the windows-gaming host driver: the
clientpipe connection to the guest agent, its wire codec, the SIGTERM source of
the mainloop, the launch of qemu by `qemu::run`, and the setup wizard. Each model is
checked with TLC. Paths below are relative to the repository root.

## The system and how its parts interact

| Part | Source | Role |
|---|---|---|
| Wire codec | `src/windows-gaming-driver/src/clientpipe_codec.rs` | `decode` turns the front of the read buffer into at most one `GaCmdIn`. `encode` appends one `GaCmdOut` to the write buffer. |
| Clientpipe | `src/windows-gaming-driver/src/driver/clientpipe/mod.rs` | Frames the guest's unix stream with the codec and splits it into a sender future and a handler. The sender runs `send_all` from an unbounded mpsc channel. The handler dispatches each event to the controller and spawns the one-second probe loop on `ReportBoot`. |
| Controller | not under `src/` (spec.md §4.4) | The supervisor: `ga_hello`, `ga_ping`, `ga_pong`, `ga_suspending`, `ga_hotkey`, `shutdown`. It owns the mpsc sender. |
| Reactor (mainloop) | not under `src/` (spec.md §4.3) | A single-threaded event loop. It polls one ready source or task at a time. |
| CatchSigterm | `src/windows-gaming-driver/src/mainloop/catch_sigterm.rs` | Blocks SIGTERM, reads it from a signalfd and calls `monitor.shutdown()`. |
| QEMU launcher | `src/windows-gaming/driver/src/qemu.rs` | Builds qemu's command line. The models cover its fallible steps: the efivars copy, the ga iso assert, samba, the PCI vfio-ubind loop, the USB controllers and device placement, and the spawn. |
| Setup wizard | `src/windows-gaming-driver/src/setup_wizard.rs` | Interactive first-time configuration. It asks questions on stdin, rewrites `/etc/mkinitcpio.conf`, writes `/etc/modprobe.d/vfio.conf` and runs `mkinitcpio -p`. It runs on its own, not with the driver. |
| Samba | `samba.rs` | `setup` asserts smbd is installed and appends `smb=` to usernet. It is one step of `qemu::run`. |
| Key table | `release_all_keys.rs` | A static table. Not modelled. |
| Guest agent | not in this repository's `src/` | Writes events and reads commands. It is modelled from spec.md as the environment. |

The interactions are these:
- The guest writes bytes.
- The handler reads them in whatever chunks the socket gives and decodes frames.
- Each frame goes to the controller.
- The controller, the probe loop and the hot-key registrar put commands into the channel.
- The sender encodes them and writes them out, possibly in pieces.
- A SIGTERM ends in exactly one VM teardown through the controller.

## Modules

| Module | Models | State and actions |
|---|---|---|
| `ClientpipeCodec` | codec.rs | Pure operators. `Decode(buf)` returns `NoFrame` or `Frame(ev, size)`. `Encode(cmd)` returns bytes. `U32At`/`PutU32` are the little-endian u32. `Utf8Lossy` is `from_utf8_lossy` on the byte classes the model uses. |
| `GuestWire` | guest side (spec) | `EncodeIn(ev)` gives the guest's frames. The RECURSIVE `ParseOut(bytes)` gives the complete host frames a byte stream holds. |
| `Controller` | Controller (spec) | `ctlState`, `reports`, `registry`, `presses`, `teardowns`, the channel `queue` and its history `enqueued`. There is one operator per controller method, plus the registrar's two requests. |
| `Clientpipe` | mod.rs + guest | `toHost`, `rbuf` (Framed read buffer), `dispatched`, `wbuf` (Framed write buffer), `toGuest`, `loops` (live probe loops), `ticks`. `ReaderDecode` decodes and dispatches one frame through the whole match arm. `ReaderRead` reads 1..n bytes only when no frame is complete, as Framed does. `WriterEncode` and `WriterFlush` (a partial write) make up the sender. `ProbeTick` is one `take_while(ga_ping)` step. `ProbeTimerError` is the interval's error, discarded by `.then`. The fault model: `GuestDisconnect` closes the pipe (`connected`); `ReaderEof` is the read returning 0 with no frame left, which ends the Framed stream and the `for_each` (`handlerDone`); `WriterFail` is `poll_complete` on a closed pipe, which ends `send_all` and drops the buffer (`senderDone`). |
| `CatchSigterm` | catch_sigterm.rs | `sigPending` (the signalfd is readable; pending signals coalesce) and `sigterms`. `CatchSigtermRun` is `run()`. |
| `ClientpipeLink` | spec.md §4.2, §5 | The abstract promise of the clientpipe: `sent`/`delivered` (events, FIFO, each exactly once) and `cmds`/`arrived` (commands, FIFO, a write may complete several), and `open`. Actions `GuestSends`, `Deliver` (may enqueue one answer), `HostSends`, `Arrive`, `Close`. `LinkSpec` has weak fairness on `Deliver` and `Arrive`. |
| `Driver` | composition | One action per reactor poll of a task (handler, sender encode, sender flush, probe loop, sigterm source), plus the environment. It holds the properties. |
| `MCDriver` | TLC instance | Small id, key and reason sets. |
| `Mkinitcpio` | setup_wizard.rs 85-137 | `autoconfigure_mkinitcpio` as a RECURSIVE scan (`ScanLines`, `ScanStep`) over lines abstracted to the tests the code makes on them (starts with `MODULES="`/`HOOKS="`, contains the kernel modules, `vfio`, `modconf`) and whether the line is UTF-8. `ReadableLines` is the `flat_map(|x| x.ok())` filter. `Autoconfigure` gives the verdict (give up, done, write) and the new file. `ModulesLoaded` and `UsesModconf` give the reference reading of the file: mkinitcpio sources it, so the last assignment counts. |
| `SetupWizard`, `MCSetupWizard` | setup_wizard.rs 23-396 | `pc` is the question asked, or the end (aborted, panicked, reboot advised). `host` is IOMMU on/off, devices already on vfio-pci, the number of GPUs, unrelated devices in the group, `DISPLAY`, and whether mkinitcpio.conf exists. `conf` is the file's content, plus `hasModconf`, `skipAsk`, `autoDone` and `vfioConf`. `ReadLine` is one iteration of `ask_anything`: end of input panics, a rejected line asks again, and an accepted one runs `Answered`. `Answered` carries `run()` on to its next question, file writes and failures included; it is split into one operator per step (`IommuCheck`, `ToStep2Or5`, `GpuSelected`, `IgnoreUnrelatedAnswered`, `EnterAutoconfigure`, `EditConfYes`, `AfterAutoconfigure`, `WriteVfioConf`). Each udev call may fail and panic: `GetPassthroughDevs` is `get_passthrough_devs` (an error, or whether devices are already on vfio-pci) and `DrmEnumerationResults` the drm enumeration that opens `udev_select_gpu`. `SudoWriteResults` is what `sudo_write_file` can answer as `run()` reads it. `Restart` is the fault model: after an abort or a panic the user runs the wizard again (`setup_wizard::run` builds a new `Wizard`). `run()`'s locals start afresh, while `conf`, `vfioConf` and the host stay (a failed write leaves `vfioConf` as it was); `restarts` counts the reruns up to `MaxRestarts`. |
| `QemuLaunch`, `MCQemuLaunch` | qemu.rs 32-139, 288-306; samba.rs | `qemu::run` step by step (`pc`): `CopyEfivars`, `CheckGaIso`, `Samba` (`SambaSetup`), `PciLoop` (one `PciStep` per device, or a panic on any vfio-ubind outcome but exit 0), `Usb` (UsbTopology's `QemuRun`), `Spawn`. `rebound` is the set of devices vfio-ubind rebound, `passed` the vfio-pci arguments in order, `usernetSmb` whether usernet has `smb=`. The configuration (`pciDevices`, `sambaCfg`, `usbDevices`) is chosen in Init, and each step's outcome is chosen nondeterministically. |
| `UsbTopology`, `MCUsbTopology` | qemu.rs 141-198 | `usbDevices` (all configurations up to a bound, chosen in Init), `controllers`, `plugged`, `phase`. `QemuRun` is the USB part of `qemu::run` as one step. |

## Runs

| Run | cfg | Checks | Shows |
|---|---|---|---|
| inbound_framing | MCInbound | InboundInOrder, InboundDelivered | Under any chunking of the stream, the dispatched events are the guest's, in order, with text decoded lossily. All of them are dispatched eventually. The guest may also write an unknown opcode. That stalls the connection for good, but every frame before it is still delivered and nothing after it is mis-decoded. |
| outbound_fifo | MCOutbound | TypeOK, OutboundInOrder, OutboundDelivered, LinkRefinement | Commands from three producers reach the guest whole and in send order across partial writes. All of them are delivered eventually. With two registrar requests, the refinement of `ClientpipeLink` is checked here too. |
| probe_stop | MCProbeStop | ProbeLoopEnds | Every live probe loop (an interval task) ends once the controller has stopped probing, whether by a timeout or by the guest's Suspending racing a tick: `take_while(ga_ping)` at `mod.rs:64` cuts it at the next tick. Timer errors and SIGTERMs are on in this run. Without `take_while` the loop would keep firing for a guest nobody probes. |
| hotkeys | MCHotkeys | HotkeysRouted | An action property over the whole path from the guest's bytes to the registrant: the step that dispatches a HotKey frame hands out exactly the id the guest wrote when it is registered by then and nothing otherwise, and no other step hands out a press. Ids `{1, 258}` differ in the second byte, so a mis-decoded id shows. |
| disconnect | MCDisconnect | OneProbeLoopWhileMonitored, LinkRefinement, LostGuestDetected | A duplicate ReportBoot never starts a second loop: while Probing or Alive, exactly one loop runs, including after a disconnect. The guest may close the pipe at any point. The byte-level pipe still implements `ClientpipeLink` (under the refinement mapping in `Driver`: `sent` is the guest's frames as the host should decode them, `delivered` is `dispatched`, `cmds` is `enqueued`, `arrived` is `ParseOut(toGuest)`, `open` is `connected`). A guest lost while Probing or Alive is eventually reported Unresponsive (or had said Suspending). |
| timer_error | MCTimerError | OneProbeLoopWhileMonitored (violation) | A timer error ends the probe loop while the controller is still Probing. |
| qemu_launch | MCQemuLaunch | TypeOK, PluggedOnOwnPort, PassedThroughOnlyRebound, StartedWithWholeConfig | Every plugged USB device is on a controller that qemu is told to create, on a valid port, and no two devices share a port. No resettable PCI device reaches qemu's arguments unless vfio-ubind exited 0 for it. A qemu that runs got every PCI device once, in order, and `smb=` exactly when samba is configured. |
| usb_lighthouse | MCUsbLighthouse | LighthousePlugged (violation) | With no device on xhci, the usb-mouse and usb-kbd are never plugged. |
| wizard_mkinitcpio | MCWizard | AutoSuccessMeansModulesLoaded, RewritePreservesOtherLines | This run covers every mkinitcpio.conf of up to 3 lines, every host, every answer sequence, and one rerun after an abort or a panic. When the wizard reports automatic success, the MODULES line in effect loads vfio. A rewrite changes only the MODULES line. Both hold in the rerun too, which starts from the files the first run wrote (after a panic at the vfio.conf write at line 217, say). |
| wizard_no_gpu | MCWizardNoGpu | EveryQuestionAnswerable (violation) | With no GPU found, the wizard asks `ask_numeric` over `0..0`, a question that no answer ends. |
| wizard_modconf | MCWizardModconf | SkipOnlyWithModconf (violation) | If an earlier HOOKS line has modconf but the last one does not, the wizard still skips confirming vfio.conf. |
| wizard_non_utf8 | MCWizardNonUtf8 | RewritePreservesOtherLines (violation) | When mkinitcpio.conf holds a line that is not UTF-8 (`AllowNonUtf8`), the rewrite drops that line. |

### Findings
- **timer_error.** `mod.rs:65` discards the probe loop's error. The controller then believes it is probing a guest that nobody pings, so a guest that hangs later is never reported. The spec says the loop stops only on Unresponsive or Suspending.
- **usb_lighthouse.** `qemu.rs:186` plugs the lighthouse devices only inside the xhci group of the device loop. `create_usb_buses` counts them for xhci in any case, so with an empty or non-xhci `usb_devices`, qemu creates the controller but plugs neither device.

- **wizard_no_gpu.** `setup_wizard.rs:36` asks for a GPU number from an empty range. Every answer is rejected until end of input, and then `ask_anything` panics (line 390).
- **wizard_modconf.** `setup_wizard.rs:114` sets `has_modconf` from any HOOKS line. mkinitcpio uses only the last one.
- **wizard_non_utf8.** `setup_wizard.rs:95` reads the file with `lines().flat_map(|x| x.ok())`. A line that is not UTF-8 (a Latin-1 comment, say) is an `Err` and is skipped, so the rewrite at line 126 writes the file back without it. Line 143 tells the user the wizard does not risk corruption unless it says so. The trace: an `other` line that is not UTF-8 and a MODULES line; after the user answers y, the file holds only the prefixed MODULES line.

### Bounds
- **Guest frames and ticks.** 2-4 guest frames and up to 3 probe ticks are enough for the interesting cases:
  - a duplicate ReportBoot;
  - a Pong before or after a tick;
  - Suspending during probing;
  - a frame split at every byte.
- **Hot-key ids.** The id set `{1, 258}` makes ids whose encodings differ in the second byte, so a byte-order or masking error shows.
- **Text.** The failure reason `<<65, 255>>` holds one byte that is not UTF-8, so decoding matters.
- **Timer errors.** `TimerMayFail` is off in the pass runs that must not see the documented timer-error finding, except probe_stop, where a timer error only ends a loop early.
- **Probe ticks.** `MaxTicks` bounds the ticks that keep probing a connected guest. The tick whose `ga_ping` ends the loop is always allowed, so the bound never keeps a loop alive.
- **Wizard.** It enumerates every host, 0-2 GPUs, and every mkinitcpio.conf of up to 3 lines over the 7 line kinds. That covers two MODULES lines in both orders and two HOOKS lines. The user's inputs are `y`, `n`, `0`, `1`, an existing path, and end of input, so each question sees an accepted answer, a rejected one and EOF. The pass runs keep every line UTF-8 (`AllowNonUtf8 = FALSE`). MCWizard allows one rerun (`MaxRestarts = 1`): a second rerun starts from the same files as the first, so it reaches no new file content. The violation runs allow none, so their traces stay short. wizard_non_utf8 adds three non-UTF-8 kinds: a plain line, a MODULES line without vfio, and a HOOKS line with modconf.
- **USB.** The USB model enumerates every configuration of up to 3 devices over four bus types with 2 usable ports each. That covers a controller count above one and rounding up.
- **qemu::run.** Up to 2 PCI devices, each resettable or not, so a failure of the second device's vfio-ubind after the first was rebound is reached. Each vfio-ubind outcome is one of exit 0, a failing status, a spawn error or a wait error. Samba is on or off, and smbd installed or not.

### Fairness and deadlock
The reactor polls any ready task. `Driver` therefore assumes weak fairness for the handler, the sender's two steps, the probe loop's tick (`ProbeLoopTick`) and the SIGTERM source. The probe loop's `Interval` fires every second for as long as the loop lives, so a live loop ticks again. A timer error (`ProbeTimerError`) gets no fairness: it may never happen. Each of these stays enabled until it runs: bytes or a frame wait, the buffer or channel is non-empty, the fd is readable.
- The guest, the registrar, the OS and the timer get no fairness. They may stop at any time.
- The probe loop's ticks are bounded by `MaxTicks` only while the guest is connected. After a disconnect the loop ticks until it stops, which takes at most two ticks (Alive to Probing to Unresponsive), so the liveness property needs no unbounded counter.
- `CHECK_DEADLOCK FALSE` is set because the reactor idles forever once nothing is ready, because `qemu::run` is one step, and because the wizard process exits when it ends. A rerun (`Restart`) is the user's choice, so it has no fairness, and after `MaxRestarts` reruns the wizard's end is final.

## Not modelled, and why
- **Controller internals beyond spec.md §4.4.** Their code is not in `src/`.
- **The argument formatting of `qemu::run`.** The gui, setup media, hugepages, memory, bridges, storage and sound arguments, and `option2args`. These steps only append strings and cannot fail. The split of `additional_qemu_cmdline` is listed as a hazard.
- **Reconnects.** A new guest connection builds a new Clientpipe outside `src/`; the model has one connection, which may close once.
- **The reactor's deregistration and fatal failures.** The only Pollable under `src/` is CatchSigterm, whose `run` always answers `PollableResult::Ok`. Its one failure, `read_signal().expect(..)`, aborts the process, which spec.md §7 makes fatal by design.
- **The release-all-keys table.** `release_all_keys.rs` is a constant list of key-up events that code outside `src/` sends. It has no state or control flow to model.
- **32-bit length arithmetic in the codec.** `len + 5` at `clientpipe_codec.rs:46` could overflow only where `usize` is 32 bits. The driver runs `qemu-system-x86_64` on a 64-bit host.

## Plan for later sittings
1. **Probing after a resume from Suspending.** Add a liveness property once the spec's resume path is clear (hazard at `mod.rs:61`).
2. **Reconnects.** Model a second Clientpipe after a disconnect, if the connection code moves under `src/`.
3. **The qemu command line as arguments.** If a property about the command line is needed (ids defined once, every `-device` naming a defined netdev or drive, no empty argument from `additional_qemu_cmdline`), model the argument list as a sequence of abstract options built by each step of `qemu::run`.
