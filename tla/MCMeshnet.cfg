\* One request at a time, with everything that rebuilds the rules in between.
CONSTANTS
    Peers = {"p1"}
    Grantable = {"fileshare", "routing", "lan"}
    Calls = {c1}
    Offline = {}
    Ops = {"permission", "auto", "remove", "accept", "transfer", "nickname", "enable", "start",
           "refresh", "getPeers", "peerUpdate", "disable", "unregister", "logout", "login", "restart",
           "invitation", "connect", "machineNickname", "isEnabled", "defaults", "pq", "exit", "vpn"}
    Faulty = {"register"}
SPECIFICATION Spec
CHECK_DEADLOCK FALSE
INVARIANTS NoMoreThanGranted OnAsConfigured NoPanic
PROPERTIES DisableEndsPeer
