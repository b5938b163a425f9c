CONSTANTS
    Peers = {"p1"}
    Grantable = {"inbound", "routing"}
    Calls = {"c1", "c2"}
    Offline = {}
    Ops = {"permission", "join", "enable", "refresh"}
    Faulty = {}
SPECIFICATION FairBenchSpec
CHECK_DEADLOCK FALSE
PROPERTIES Converges WaitsEnd AutoConnects
