--------------------------- MODULE MCUsbTopology ---------------------------
(***************************************************************************)
(* UsbTopology over every configuration of up to three usb devices.       *)
(***************************************************************************)
EXTENDS UsbTopology

CONSTANTS Ohci, Uhci, Ehci, XhciBus

MCBuses == {Ohci, Uhci, Ehci, XhciBus}
\* Two ports per controller so that three devices already need a second
\* controller; util::usable_ports is not under src/.
MCUsablePorts == [b \in MCBuses |-> 2]
=============================================================================
