----------------------------- MODULE CliSettings -----------------------------
(***************************************************************************)
(* What `nordvpn set ...`, `nordvpn allowlist ...` and `nordvpn settings`  *)
(* make of the daemon's answers (cli/cli_set_*.go, cli/cli_allowlist_*.go, *)
(* cli/cli_settings.go).                                                   *)
(*                                                                         *)
(* A command ends in one of four ways: "done" (green), "note" (yellow, the *)
(* exit status is 0), "error" (the exit status is 1), or "silent": the     *)
(* answer is not one the command knows, nothing is printed and the exit    *)
(* status is 0.  The wording is left out.  Every command has the ways of   *)
(* ending of its own switch statement, as a record from answers to ends.   *)
(***************************************************************************)
EXTENDS Naturals, FiniteSets, FiniteSetsExt, Sequences, SequencesExt

\* The end of a command whose switch has these cases.
Ending(cases, answer) ==
    IF answer = "rpc error" THEN "error"
    ELSE IF answer \in DOMAIN cases THEN cases[answer] ELSE "silent"

SetAnalyticsCases == [ConfigError |-> "error", NothingToDo |-> "note", Success |-> "done"]

SetFirewallCases ==
    [ConfigError |-> "error", NothingToDo |-> "note", DependencyError |-> "note", Success |-> "done"]

SetFirewallMarkCases == [ConfigError |-> "error", NothingToDo |-> "note", Success |-> "done"]

SetIpv6Cases == [ConfigError |-> "error", NothingToDo |-> "note", Success |-> "done"]

SetNotifyCases == [ConfigError |-> "error", NothingToDo |-> "note", Success |-> "done"]

SetTrayCases == [ConfigError |-> "error", NothingToDo |-> "note", Success |-> "done"]

SetVirtualLocationCases == [ConfigError |-> "error", NothingToDo |-> "note", Success |-> "done"]

SetDefaultsCases == [ConfigError |-> "error", Success |-> "done"]

SetRoutingCases ==
    [ConfigError |-> "error", NothingToDo |-> "note", DependencyError |-> "note", Success |-> "done"]

SetKillSwitchCases ==
    [ConfigError |-> "error", VPNMisconfig |-> "error", KillSwitchError |-> "error", Failure |-> "error",
     NothingToDo |-> "note", DependencyError |-> "note", Success |-> "done"]

SetObfuscateCases ==
    [ConfigError |-> "error", NothingToDo |-> "note", AutoConnectServerNotObfuscated |-> "error",
     AutoConnectServerObfuscated |-> "error", Success |-> "done"]

SetPostquantumVpnCases ==
    [ConfigError |-> "error", NothingToDo |-> "note", PqAndMeshnetSimultaneously |-> "error",
     PqWithoutNordlynx |-> "error", Success |-> "done"]

SetTechnologyCases ==
    [ConfigError |-> "error", FormatError |-> "error", DependencyError |-> "error",
     PqWithoutNordlynx |-> "error", NothingToDo |-> "note", SuccessWithoutAC |-> "done", Success |-> "done"]

SetAutoConnectCases ==
    [ConfigError |-> "error", Failure |-> "error", EmptyPayloadError |-> "error",
     AutoConnectServerNotObfuscated |-> "error", AutoConnectServerObfuscated |-> "error",
     NothingToDo |-> "note", ExpiredRenewToken |-> "login", TokenRenewError |-> "error",
     DedicatedIPRenewError |-> "error", DedicatedIPNoServer |-> "error",
     DedicatedIPServiceButNoServers |-> "error", Success |-> "done"]

\* setDNSCommonErrorCodeToError, then handleSetDNSStatus
setDNSErrors == [FAILURE |-> "error", CONFIG_ERROR |-> "error", ALREADY_SET |-> "error"]
setDNSStatus ==
    [INVALID_DNS_ADDRESS |-> "error", TOO_MANY_VALUES |-> "error",
     DNS_CONFIGURED_TPL_RESET |-> "done", DNS_CONFIGURED |-> "done"]

SetThreatProtectionLiteCases ==
    [FAILURE |-> "error", CONFIG_ERROR |-> "error", ALREADY_SET |-> "note",
     TPL_CONFIGURED |-> "done", TPL_CONFIGURED_DNS_RESET |-> "done"]

setProtocolErrors == [FAILURE |-> "error", CONFIG_ERROR |-> "error", ALREADY_SET |-> "error"]
setProtocolStatus ==
    [INVALID_TECHNOLOGY |-> "error", PROTOCOL_CONFIGURED_VPN_ON |-> "done", PROTOCOL_CONFIGURED |-> "done"]

setLANDiscoveryErrors == [FAILURE |-> "error", CONFIG_ERROR |-> "error", ALREADY_SET |-> "error"]
setLANDiscoveryStatus ==
    [DISCOVERY_CONFIGURED_ALLOWLIST_RESET |-> "done", DISCOVERY_CONFIGURED |-> "done"]

\* `set meshnet`: MeshnetResponseToError knows every answer
SetMeshCases ==
    [Empty |-> "done", NOT_LOGGED_IN |-> "error", API_FAILURE |-> "error", CONFIG_FAILURE |-> "error",
     NOT_REGISTERED |-> "error", LIB_FAILURE |-> "error", ALREADY_DISABLED |-> "error",
     ALREADY_ENABLED |-> "error", NOT_ENABLED |-> "error", TECH_FAILURE |-> "error",
     TUNNEL_CLOSED |-> "error", CONFLICT_WITH_PQ |-> "error"]

AllowlistAddPortCases ==
    [ConfigError |-> "error", Failure |-> "error", VPNMisconfig |-> "error",
     AllowlistPortOutOfRange |-> "error", AllowlistPortNoop |-> "error", Success |-> "done"]

AllowlistAddPortsCases ==
    [ConfigError |-> "error", Failure |-> "error", VPNMisconfig |-> "error",
     AllowlistPortOutOfRange |-> "error", Success |-> "done"]

AllowlistRemovePortCases == AllowlistAddPortCases

AllowlistRemovePortsCases ==
    [ConfigError |-> "error", Failure |-> "error", VPNMisconfig |-> "error",
     AllowlistPortOutOfRange |-> "error", AllowlistPortNoop |-> "error", Success |-> "done"]

AllowlistAddSubnetCases ==
    [ConfigError |-> "error", Failure |-> "error", VPNMisconfig |-> "error",
     PrivateSubnetLANDiscovery |-> "error", AllowlistInvalidSubnet |-> "error",
     AllowlistSubnetNoop |-> "error", Success |-> "done"]

AllowlistRemoveSubnetCases ==
    [ConfigError |-> "error", Failure |-> "error", VPNMisconfig |-> "error",
     AllowlistInvalidSubnet |-> "error", AllowlistSubnetNoop |-> "error", Success |-> "done"]

AllowlistRemoveAllCases ==
    [ConfigError |-> "error", Failure |-> "error", VPNMisconfig |-> "error", Success |-> "done"]

-----------------------------------------------------------------------------
(* displayAllowlist: the ranges that `nordvpn settings` prints.             *)

Protocols(udp, tcp, port) ==
    (IF port \in udp THEN {"UDP"} ELSE {}) \cup (IF port \in tcp THEN {"TCP"} ELSE {})

\* A port begins a range of its own, or makes the last range longer.
AddPort(ranges, port, protocols) ==
    IF ranges = <<>> \/ Last(ranges).protocols # protocols \/ port - Last(ranges).end > 1
    THEN Append(ranges, [start |-> port, end |-> port, protocols |-> protocols])
    ELSE [ranges EXCEPT ![Len(ranges)].end = port]

displayAllowlist(udp, tcp) ==
    FoldLeft(LAMBDA ranges, port : AddPort(ranges, port, Protocols(udp, tcp, port)),
             <<>>, SetToSortSeq(udp \cup tcp, <))
=============================================================================
