--------------------------- MODULE MCQemuLaunch ---------------------------
(***************************************************************************)
(* qemu::run over every configuration of up to two PCI devices, samba on  *)
(* or off, and up to three usb devices, with every outcome of each fallible step.   *)
(***************************************************************************)
EXTENDS QemuLaunch, MCUsbTopology
=============================================================================
