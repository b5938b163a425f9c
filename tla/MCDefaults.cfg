CONSTANTS
    Clients = {"cli"}
    Interleaved = FALSE
    MaxPort = 2
    Faults = {}
    Commands = {"defaults", "killswitch", "lan"}
SPECIFICATION Spec
INVARIANT DefaultsApplied
CHECK_DEADLOCK FALSE
