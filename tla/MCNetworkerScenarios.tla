------------------------ MODULE MCNetworkerScenarios ------------------------
(***************************************************************************)
(* Scenarios, one per behaviour: each performs the operations, and has the *)
(* interfaces, allowlists, name servers and peers, that its questions are  *)
(* about.  In the last one every VPN call may fail, and Disconnect and     *)
(* ResetRouting interleave with the other handlers.                        *)
(***************************************************************************)
EXTENDS MCNetworker

VARIABLE scenario

Interfaces == INSTANCE Networker WITH
    Allowlists <- TwoAllowlists, Nameservers <- {"nordvpn"}, Peers <- {},
    Ops <- {"start", "disconnect", "killswitch", "mesh", "links", "lan"}

Filters == INSTANCE Networker WITH
    Links <- {"eth0"}, Nameservers <- {"nordvpn"}, Peers <- {},
    Ops <- {"start", "disconnect", "killswitch", "lan", "allowlist", "links"}

Technology == INSTANCE Networker WITH
    Links <- {"eth0"}, Allowlists <- OneAllowlist,
    Ops <- {"start", "peer", "stop", "disconnect", "mesh", "setvpn", "dns", "ipv6", "links"}

Failures == INSTANCE Networker WITH
    Links <- {"eth0"}, Allowlists <- OneAllowlist, Nameservers <- {"nordvpn"}, Peers <- {},
    Ops <- {"start", "disconnect", "killswitch", "mesh", "links", "reset"},
    Faulty <- {"vpn"}, Concurrent <- TRUE

ScenarioInit ==
    \/ scenario = "interfaces" /\ Interfaces!Init
    \/ scenario = "filters" /\ Filters!Init
    \/ scenario = "technology" /\ Technology!Init
    \/ scenario = "failures" /\ Failures!Init

ScenarioNext ==
    \/ scenario = "interfaces" /\ Interfaces!Next /\ UNCHANGED scenario
    \/ scenario = "filters" /\ Filters!Next /\ UNCHANGED scenario
    \/ scenario = "technology" /\ Technology!Next /\ UNCHANGED scenario
    \/ scenario = "failures" /\ Failures!Next /\ UNCHANGED scenario

\* Without failures and with handlers that do not interleave, the properties
\* of Networker.tla about the state between two requests.
Calm == scenario # "failures"

\* VPN runs only with the rules that block other traffic (blockTraffic), and the rules
\* keep their order in the firewall (resetAllowlist, denyDNS).
CalmVpnBlocks == Calm => VpnBlocks /\ RuleOrder

\* A connection that is set is complete (start, refreshVPN, setMesh) and blocks IPv6
\* unless it is permitted; what start, setNetwork and setMesh did is undone in the end;
\* the technology is the one chosen last (switchToNextVpn).
CalmConnectionComplete ==
    /\ Calm => ConnectionComplete /\ IPv6Denied /\ NetworkRestored
    /\ TechnologyTakesEffect

\* What is saved of the allowlist is applied (setAllowlist, resetAllowlist), the exit
\* node knows whether the LAN is available (exitResetFirewall), and where meshnet is never
\* on, name servers of the LAN are denied (denyDNS).
CalmAllowlistApplied ==
    /\ Calm => AllowlistApplied /\ ExitLan
    /\ scenario = "filters" => PrivateDnsDenied

ScenarioSpec == ScenarioInit /\ [][ScenarioNext]_<<vars, scenario>>
=============================================================================
