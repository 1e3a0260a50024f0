CONSTANTS
    Ohci = Ohci
    Uhci = Uhci
    Ehci = Ehci
    XhciBus = XhciBus
    Buses <- MCBuses
    Xhci <- XhciBus
    UsablePorts <- MCUsablePorts
    MaxUsbDevices = 3

SPECIFICATION Spec

INVARIANT LighthousePlugged

CHECK_DEADLOCK FALSE
