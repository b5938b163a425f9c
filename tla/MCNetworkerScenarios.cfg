CONSTANTS
    Links = {"eth0", "eth1"}
    Subnets = {"office", "lan"}
    Allowlists <- AllAllowlists
    LAN = {"lan"}
    Nameservers = {"nordvpn", "custom"}
    Servers = {"lt1"}
    Peers = {"peer"}
    Ops = {}
    Faulty = {}
    Concurrent = FALSE
SPECIFICATION ScenarioSpec
INVARIANTS TypeOK KillSwitchBlocks CalmVpnBlocks CalmConnectionComplete CalmAllowlistApplied
PROPERTIES ReconnectKeepsBlocking
CHECK_DEADLOCK FALSE
