CONSTANTS
    Servers = {"s1"}
    MaxMonitors = 2
    StartFaults = {"open", "update", "connect", "notify", "setmesh"}
    TelioFaults = {"open", "close", "update", "connect", "disconnect", "notify", "meshoff", "setmesh"}
    MaxReports = 1
    OvpnFaults = {"config", "exec", "mgmt", "events", "auth", "tunnel", "signal", "close"}
    KernelFaults = {"device", "setconf", "addrs", "up", "mtu", "delete"}
    LookupFaults = {"device", "byname", "setconf", "delete"}
SPECIFICATION Spec
INVARIANTS TunnelRules NoOrphanProcess DeviceOwned DisconnectAnnounced
PROPERTIES ImplementsVpn ImplementsVpnSteps
CHECK_DEADLOCK FALSE
