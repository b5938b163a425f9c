-------------------------------- MODULE MCVpn --------------------------------
(***************************************************************************)
(* The three VPN technologies, one of them per behaviour, each against the *)
(* interface of Vpn.tla.                                                   *)
(***************************************************************************)
EXTENDS Naturals, Sequences

CONSTANTS
    Servers, MaxMonitors, StartFaults, TelioFaults,
    MaxReports, OvpnFaults,
    KernelFaults, LookupFaults

VARIABLES
    technology,
    l, lib, mon, op, req, telioPub, last,
    ovpn, process, conn, pc, ctx, q, late, stage2, ovpnPub, crashed,
    k, device, mtu, stage, kernelPub

telioVars == <<l, lib, mon, op, req, telioPub, last>>
ovpnVars == <<ovpn, process, conn, pc, ctx, q, late, stage2, ovpnPub, crashed>>
kernelVars == <<k, device, mtu, stage, kernelPub>>
vars == <<technology, telioVars, ovpnVars, kernelVars>>

\* Libtelio when what it set up is taken down, and when nothing need work.
T == INSTANCE Libtelio WITH Faults <- StartFaults, Contexts <- {"request", "background"}, pub <- telioPub
Teardown == INSTANCE Libtelio WITH Faults <- TelioFaults, Contexts <- {"background"}, pub <- telioPub
O == INSTANCE OpenVpn WITH Faults <- OvpnFaults, pub <- ovpnPub
K == INSTANCE KernelSpace WITH Faults <- KernelFaults, pub <- kernelPub
Lookup == INSTANCE KernelSpace WITH Faults <- LookupFaults, pub <- kernelPub

Init ==
    /\ technology \in {"libtelio", "teardown", "openvpn", "kernel", "lookup"}
    /\ T!Init /\ O!Init /\ K!Init

Next ==
    \/ technology = "libtelio" /\ T!Next /\ UNCHANGED <<technology, ovpnVars, kernelVars>>
    \/ technology = "teardown" /\ Teardown!Next /\ UNCHANGED <<technology, ovpnVars, kernelVars>>
    \/ technology = "openvpn" /\ O!Next /\ UNCHANGED <<technology, telioVars, kernelVars>>
    \/ technology = "kernel" /\ K!Next /\ UNCHANGED <<technology, telioVars, ovpnVars>>
    \/ technology = "lookup" /\ Lookup!Next /\ UNCHANGED <<technology, telioVars, ovpnVars>>

Spec == Init /\ [][Next]_vars /\ T!Fairness /\ O!Fairness

\* Libtelio: the types, and the tunnel has its rules.
TunnelRules ==
    /\ T!TypeOK
    /\ IF technology = "teardown" THEN Teardown!TunnelRules ELSE T!TunnelRules

\* Libtelio: who listens has learned that VPN is off.
DisconnectAnnounced == T!DisconnectAnnounced

\* OpenVPN: the types, and no process runs that nobody will stop.
NoOrphanProcess == O!TypeOK /\ O!NoOrphanProcess

\* WireGuard in the kernel: where the lookup of a new device works, no device is
\* there that Stop would not delete.
DeviceOwned == technology = "kernel" => K!DeviceOwned

\* Every call of libtelio and of OpenVPN that has a deadline returns, unless OpenVPN
\* waits for a process that never connected or the daemon crashed; one of libtelio
\* returns also without a deadline once it is connected; libtelio does what the
\* interface of a VPN promises.
ImplementsVpn == T!ImplementsVpn /\ T!ReturnsOnceUp /\ O!CallsReturn

\* The steps of OpenVPN and of WireGuard in the kernel are steps of the interface.
ImplementsVpnSteps == [][O!VpnStep /\ K!VpnStep]_vars
=============================================================================
