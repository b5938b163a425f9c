---------------------------- MODULE KernelSpace ----------------------------
(***************************************************************************)
(* daemon/vpn/nordlynx/kernel_space.go: NordLynx over the WireGuard module *)
(* of the kernel, driven with ip and wg (the build without libtelio).      *)
(* Start sets the device up in stages; every stage can fail and then has   *)
(* to leave the host as it was.  The component's mutex is held throughout. *)
(***************************************************************************)

CONSTANT Faults   \* the stages that can fail, "device", "delete"

VARIABLES
    k,        \* active, state, tun
    device,   \* the wireguard device exists
    mtu,      \* the MTU of the device: "none" or where it came from
    stage,    \* where Start is, "idle", or "locked" for ever
    pub       \* the last event published

vars == <<k, device, mtu, stage, pub>>

\* stop: without a tunnel there is nothing to delete.
stopped == [active |-> FALSE, tun |-> FALSE, state |-> "EXITED"]

\* Mutant: the tunnel is forgotten although its device could not be deleted.
stopMutant == k' = stopped /\ device' \in {FALSE, device /\ "delete" \in Faults}

stop ==
    \/ k.tun /\ device' = FALSE /\ k' = stopped
    \/ ~k.tun /\ UNCHANGED device /\ k' = stopped
    \/ k.tun /\ "delete" \in Faults /\ UNCHANGED <<device, k>>

Start ==
    /\ stage = "idle"
    /\ IF k.active THEN UNCHANGED <<stage, pub>>
       ELSE pub' = "Connecting" /\ stage' = "show"
    /\ UNCHANGED <<k, device, mtu>>

\* The deferred publication on an error.
Fail == stage' = "idle" /\ pub' = "Disconnected" /\ UNCHANGED mtu

show ==
    /\ stage = "show"
    /\ \/ device /\ Fail
       \/ ~device /\ stage' = "add" /\ UNCHANGED <<pub, mtu>>
    /\ UNCHANGED <<k, device>>

upWGInterface ==
    /\ stage = "add"
    /\ \/ device' = TRUE /\ stage' = "byname" /\ UNCHANGED <<pub, mtu>>
       \/ "device" \in Faults /\ Fail /\ UNCHANGED device
    /\ UNCHANGED k

\* The error path calls Stop, which waits for the mutex that Start holds.
InterfaceByName ==
    /\ stage = "byname"
    /\ \/ stage' = "setconf" /\ k' = [k EXCEPT !.tun = TRUE]
       \/ "byname" \in Faults /\ stage' = "locked" /\ UNCHANGED k
    /\ UNCHANGED <<device, pub, mtu>>

StageFails(s) == stage = s /\ s \in Faults /\ Fail /\ stop

pushConfig == stage = "setconf" /\ stage' = "addrs" /\ UNCHANGED <<k, device, pub, mtu>>
AddAddrs == stage = "addrs" /\ stage' = "up" /\ UNCHANGED <<k, device, pub, mtu>>
Up == stage = "up" /\ stage' = "mtu" /\ UNCHANGED <<k, device, pub, mtu>>

\* calculateMTU: from the interface of the default route when there is one
\* that can be read, otherwise the default.
calculateMTU == {"gateway", "default"}

SetMTU ==
    /\ stage = "mtu"
    /\ mtu' \in calculateMTU
    /\ k' = [k EXCEPT !.active = TRUE, !.state = "CONNECTED"]
    /\ stage' = "idle"
    /\ pub' = "Connected"
    /\ UNCHANGED device

Stop ==
    /\ stage = "idle"
    /\ pub' = "Disconnected"
    /\ stop
    /\ UNCHANGED <<stage, mtu>>

Init ==
    /\ k = stopped /\ device = FALSE /\ mtu = "none" /\ stage = "idle" /\ pub = "none"

Setup ==
    \/ show \/ upWGInterface \/ InterfaceByName
    \/ pushConfig \/ AddAddrs \/ Up \/ SetMTU
    \/ \E s \in {"setconf", "addrs", "up", "mtu"} : StageFails(s)

Next == Start \/ Stop \/ Setup

Spec == Init /\ [][Next]_vars /\ WF_vars(Setup)

-----------------------------------------------------------------------------
\* A wireguard device is on the host only with the tunnel by which Stop deletes
\* it, whatever the stage, so that no Start fails for ever on a device of its
\* own.  Between its creation and its lookup there is no tunnel yet.  This needs
\* a lookup that does not fail: a failing one leaves the device without a
\* tunnel, and Start waiting for its own mutex.
DeviceOwned == device => k.tun \/ stage = "byname"

\* net.InterfaceByName finds the device that was just made.
LookupWorks == "byname" \notin Faults

\* The component implements the interface: a Start that fails half-way leaves
\* it inactive, and only a Start makes it active.
VpnInterface == INSTANCE Vpn WITH
    call <- IF stage = "idle" THEN "none" ELSE "Start",
    up <- k.active

VpnStep == [VpnInterface!Next]_(VpnInterface!vpnVars)
ImplementsVpnSteps == VpnInterface!Init /\ [][VpnInterface!Next]_(VpnInterface!vpnVars)
=============================================================================
