CONSTANTS
    Names <- MCNames
    Bodies <- MCBodies
    MaxBatch = 2
    MaxFaults = 1
SPECIFICATION BenchSpec
INVARIANTS FirewallKept NewestRuleDecides ForwardsWhatIsPermitted  UsersFileComesBack OneProcess
    ClientsSeeTheState KillSwitchHolds
PROPERTIES NothingReopened
CHECK_DEADLOCK FALSE
