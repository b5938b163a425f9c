\* The fileshare process starts while a peer has no fileshare permission.
CONSTANTS
    Peers = {"p1", "p2"}
    Grantable = {"fileshare"}
    Calls = {c1}
    Offline = {}
    Ops = {"permission", "enable", "disable", "job", "refresh"}
    Faulty = {}
SPECIFICATION Spec
CHECK_DEADLOCK FALSE
INVARIANT FileshareDenied
