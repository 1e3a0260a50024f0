CONSTANTS
    Ohci = Ohci
    Uhci = Uhci
    Ehci = Ehci
    XhciBus = XhciBus
    Buses <- MCBuses
    Xhci <- XhciBus
    UsablePorts <- MCUsablePorts
    MaxUsbDevices = 3
    MaxPciDevices = 2

SPECIFICATION LaunchSpec

INVARIANT TypeOK
INVARIANT PluggedOnOwnPort
INVARIANT PassedThroughOnlyRebound
INVARIANT StartedWithWholeConfig

CHECK_DEADLOCK FALSE
