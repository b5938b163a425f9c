CONSTANTS
    Links = {eth0}
    Subnets = {"office", "lan"}
    Allowlists <- OneAllowlist
    LAN = {"lan"}
    Nameservers = {"nordvpn"}
    Servers = {"lt1"}
    Peers = {}
    Ops = {"start", "disconnect", "killswitch", "mesh", "links"}
    Faulty = {}
    Concurrent = FALSE
SPECIFICATION Spec
INVARIANTS DnsLeakBlocked
