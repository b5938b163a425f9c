CONSTANTS
    Peers = {"p1"}
    Grantable = {"inbound"}
    Calls = {c1, c2}
    Offline = {"p1"}
    Ops = {"permission", "join", "enable", "logout", "unregister", "job", "address", "getPeers"}
    Faulty = {"api", "unauthorized", "lib"}
SYMMETRY Symmetry
SPECIFICATION Spec
CHECK_DEADLOCK FALSE
INVARIANTS
    MeshHasDevice
    LanRuleWithAllow
