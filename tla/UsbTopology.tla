---------------------------- MODULE UsbTopology ----------------------------
(***************************************************************************)
(* The USB part of qemu::run (qemu.rs): how many controllers of each bus   *)
(* type qemu is told to create, and on which controller and port each      *)
(* configured usb device and the two "lighthouse" devices (usb-mouse,      *)
(* usb-kbd on xhci) are plugged.  qemu::run is one call, so it is one      *)
(* action; the configurations are chosen in Init.  The argument strings    *)
(* are abstracted to the (bus, controller index, port) triples they name.  *)
(***************************************************************************)
EXTENDS Integers, Sequences, FiniteSets

CONSTANTS
    Buses,          \* the UsbBus variants
    Xhci,           \* UsbBus::Xhci
    UsablePorts,    \* util::usable_ports: ports per controller of a bus type
    MaxUsbDevices   \* bound on the configured usb devices

ASSUME
    /\ Xhci \in Buses
    /\ UsablePorts \in [Buses -> Nat \ {0}]
    /\ MaxUsbDevices \in Nat

\* A configured usb device: its bus, whether it is permanent, and what
\* controller::resolve_binding answers for its binding (Ok(Some), Ok(None),
\* Err).
UsbDevices ==
    [bus : Buses, permanent : BOOLEAN, binding : {"found", "absent", "error"}]

VARIABLES
    usbDevices,  \* cfg.machine.usb_devices
    phase,       \* "configured", then "started" or "panicked"
    controllers, \* the usb controllers passed to qemu: <<bus, index>>
    plugged      \* the usb devices passed to qemu

vars == <<usbDevices, phase, controllers, plugged>>

\* Positions, in configuration order, of the devices on bus b; sorted_by is
\* stable and group_by keeps that order inside a group.
OnBus(b) == SelectSeq([i \in DOMAIN usbDevices |-> i], LAMBDA i : usbDevices[i].bus = b)

\* Mutation: the division rounded down.
ControllerCountFloor(b) ==
    LET count == Len(OnBus(b)) + (IF b = Xhci THEN 2 ELSE 0) IN
    count \div UsablePorts[b]

\* create_usb_buses: xhci also counts the two lighthouse devices; the number
\* of controllers is count / usable_ports rounded up.
ControllerCount(b) ==
    LET count == Len(OnBus(b)) + (IF b = Xhci THEN 2 ELSE 0) IN
    (count + UsablePorts[b] - 1) \div UsablePorts[b]

\* Mutation: the port number written without the + 1.
SlotZeroBasedPort(dev, b, port) ==
    [dev |-> dev, bus |-> b, index |-> port \div UsablePorts[b],
     port |-> port % UsablePorts[b]]

\* The controller and port for the port-th device (from 0) of bus b:
\* bus={b}{port / usable}.0, port={(port % usable) + 1}.
Slot(dev, b, port) ==
    [dev |-> dev, bus |-> b, index |-> port \div UsablePorts[b],
     port |-> (port % UsablePorts[b]) + 1]

\* The group loop for bus b, run only when b has configured devices: every
\* device takes the next port, but only a permanent one whose binding
\* resolves is plugged; on xhci the mouse and keyboard follow the last one.
GroupSlots(b) ==
    LET devs == OnBus(b)
        n == Len(devs)
    IN  { Slot(<<"usb-host", devs[k]>>, b, k - 1) :
            k \in {k \in 1..n : usbDevices[devs[k]].permanent
                                /\ usbDevices[devs[k]].binding = "found"} }
        \cup (IF b = Xhci THEN {Slot(<<"usb-mouse", 0>>, b, n), Slot(<<"usb-kbd", 0>>, b, n + 1)}
              ELSE {})

\* groups only holds the bus types some configured device uses.
UsedBuses == {usbDevices[i].bus : i \in DOMAIN usbDevices}

\* resolve_binding(..).expect(..) panics on Err for a permanent device.
Panics == \E i \in DOMAIN usbDevices :
              usbDevices[i].permanent /\ usbDevices[i].binding = "error"

Init ==
    /\ usbDevices \in UNION {[1..n -> UsbDevices] : n \in 0..MaxUsbDevices}
    /\ phase = "configured"
    /\ controllers = {}
    /\ plugged = {}

\* qemu::run, USB part: the controllers, then the groups.
QemuRun ==
    /\ phase = "configured"
    /\ controllers' = UNION {{<<b, i>> : i \in 0..(ControllerCount(b) - 1)} : b \in Buses}
    /\ IF Panics
       THEN phase' = "panicked" /\ plugged' = {}
       ELSE phase' = "started" /\ plugged' = UNION {GroupSlots(b) : b \in UsedBuses}
    /\ UNCHANGED usbDevices

Next == QemuRun

Spec == Init /\ [][Next]_vars

-----------------------------------------------------------------------------

TypeOK ==
    /\ phase \in {"configured", "started", "panicked"}
    /\ controllers \subseteq Buses \X Nat
    /\ \A s \in plugged : s.bus \in Buses /\ s.port \in Nat \ {0}

\* Every device qemu is told to plug sits on a controller qemu is told to
\* create, on a port that controller has, and no two devices share a port.
PluggedOnOwnPort ==
    /\ \A s \in plugged :
          /\ <<s.bus, s.index>> \in controllers
          /\ s.port \in 1..UsablePorts[s.bus]
    /\ \A s, t \in plugged :
          s.dev # t.dev => <<s.bus, s.index, s.port>> # <<t.bus, t.index, t.port>>

\* When qemu is started, the lighthouse usb-mouse and usb-kbd are plugged
\* (the xhci controllers are sized for them in create_usb_buses).
LighthousePlugged ==
    phase = "started" =>
        {<<"usb-mouse", 0>>, <<"usb-kbd", 0>>} \subseteq {s.dev : s \in plugged}
=============================================================================
