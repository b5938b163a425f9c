------------------------- MODULE KernelSpaceProofs -------------------------
(***************************************************************************)
(* What holds of KernelSpace.tla whichever of its stages can fail: the     *)
(* component is a VPN as the networker uses it and, unless the lookup of a *)
(* new device fails, no device is there that Stop would not delete.        *)
(***************************************************************************)
EXTENDS KernelSpace, TLAPS

Stages == {"idle", "show", "add", "byname", "setconf", "addrs", "up", "mtu", "locked"}
TypeOK ==
    /\ k \in [active : BOOLEAN, tun : BOOLEAN, state : {"EXITED", "CONNECTED"}]
    /\ device \in BOOLEAN
    /\ stage \in Stages

\* A device is there only for a tunnel, except between its creation and the call that
\* looks it up; once that call succeeded there is a tunnel until Start is over.  Only
\* a lookup that fails makes Start wait for itself.
IInv ==
    /\ TypeOK
    /\ stage \in {"idle", "show"} /\ device => k.tun
    /\ stage = "add" => ~device
    /\ stage \in {"setconf", "addrs", "up", "mtu"} => k.tun
    /\ LookupWorks => stage # "locked"

\* stop() forgets the tunnel and the connection.
LEMMA StoppedFacts ==
    /\ stopped \in [active : BOOLEAN, tun : BOOLEAN, state : {"EXITED", "CONNECTED"}]
    /\ stopped.active = FALSE /\ stopped.tun = FALSE
BY DEF stopped

\* Nothing is there before the first Start.
LEMMA InitIInv == Init => IInv
BY StoppedFacts, Zenon DEF Init, IInv, TypeOK, Stages

\* Whether Stop or a failed Start called it, stop() ends with a device that is known.
LEMMA StopOwned ==
    ASSUME TypeOK, stop
    PROVE  /\ k' \in [active : BOOLEAN, tun : BOOLEAN, state : {"EXITED", "CONNECTED"}]
           /\ device' \in BOOLEAN
           /\ (device => k.tun) => (device' => k'.tun)
           /\ k'.active = FALSE \/ k'.active = k.active
<1>1. CASE k' = stopped
  <2>1. k'.active = FALSE /\ k' \in [active : BOOLEAN, tun : BOOLEAN, state : {"EXITED", "CONNECTED"}]
    BY <1>1, StoppedFacts
  <2>2. CASE k.tun /\ device' = FALSE
    BY <2>1, <2>2, Zenon
  <2>3. CASE ~k.tun /\ device' = device
    BY <2>1, <2>3 DEF TypeOK
  <2>4. CASE k.tun /\ k' = k
    BY <1>1, <2>4, StoppedFacts
  <2> QED
    BY <2>2, <2>3, <2>4, Zenon DEF stop
<1>2. CASE UNCHANGED <<device, k>>
  BY <1>2 DEF TypeOK
<1> QED
  BY <1>1, <1>2, Zenon DEF stop

\* Every stage keeps the inductive invariant, the error paths included.
LEMMA NextIInv == IInv /\ [Next]_vars => IInv'
<1> SUFFICES ASSUME IInv, [Next]_vars PROVE IInv'
  OBVIOUS
<1>1. CASE Start
  BY <1>1 DEF IInv, TypeOK, Stages, Start
<1>2. CASE Stop
  <2>1. stage' = "idle" /\ (device => k.tun) /\ stop /\ TypeOK
    BY <1>2 DEF IInv, Stop
  <2>2. k' \in [active : BOOLEAN, tun : BOOLEAN, state : {"EXITED", "CONNECTED"}] /\ device' \in BOOLEAN
        /\ (device' => k'.tun)
    BY <2>1, StopOwned
  <2> QED
    BY <2>1, <2>2 DEF IInv, TypeOK, Stages
<1>3. CASE show
  BY <1>3 DEF IInv, TypeOK, Stages, show, Fail
<1>4. CASE upWGInterface
  <2>1. stage = "add" /\ k' = k
    BY <1>4 DEF upWGInterface
  <2>2. CASE device' = TRUE /\ stage' = "byname"
    BY <2>1, <2>2 DEF IInv, TypeOK, Stages
  <2>3. CASE device' = device /\ stage' = "idle"
    BY <2>1, <2>3 DEF IInv, TypeOK, Stages
  <2> QED
    BY <1>4, <2>2, <2>3, Zenon DEF upWGInterface, Fail
<1>5. CASE InterfaceByName
  BY <1>5, Zenon DEF IInv, TypeOK, Stages, InterfaceByName, LookupWorks
<1>6. CASE pushConfig \/ AddAddrs \/ Up
  BY <1>6 DEF IInv, TypeOK, Stages, pushConfig, AddAddrs, Up
<1>7. CASE SetMTU
  BY <1>7, Zenon DEF IInv, TypeOK, Stages, SetMTU
<1>8. ASSUME NEW s \in {"setconf", "addrs", "up", "mtu"}, StageFails(s) PROVE IInv'
  <2>1. stage' = "idle" /\ k.tun /\ stop /\ TypeOK
    BY <1>8 DEF IInv, StageFails, Fail
  <2>2. k' \in [active : BOOLEAN, tun : BOOLEAN, state : {"EXITED", "CONNECTED"}] /\ device' \in BOOLEAN
        /\ (device' => k'.tun)
    BY <2>1, StopOwned
  <2> QED
    BY <2>1, <2>2 DEF IInv, TypeOK, Stages
<1>9. CASE UNCHANGED vars
  BY <1>9 DEF IInv, TypeOK, Stages, vars
<1> QED
  BY <1>1, <1>2, <1>3, <1>4, <1>5, <1>6, <1>7, <1>8, <1>9 DEF Next, Setup

\* If the lookup of a device that was just made works, then at every stage, whatever
\* other command of Start fails and whether or not stop() can delete it, a device of
\* WireGuard is on the host only with the tunnel that lets Stop delete it
\* (KernelSpace.Start, KernelSpace.stop).
THEOREM DeviceIsOwned == LookupWorks => (Spec => []DeviceOwned)
<1> SUFFICES ASSUME LookupWorks PROVE Spec => []DeviceOwned
  OBVIOUS
<1>1. IInv => DeviceOwned
  BY DEF IInv, TypeOK, Stages, DeviceOwned
<1> QED
  BY InitIInv, NextIInv, <1>1, PTL DEF Spec

\* Every stage is a step of the interface or leaves it alone.
LEMMA NextVpnStep == IInv /\ [Next]_vars => VpnStep
<1> SUFFICES ASSUME IInv, [Next]_vars PROVE VpnStep
  OBVIOUS
<1> USE DEF VpnStep, VpnInterface!Next, VpnInterface!vpnVars, VpnInterface!Request, VpnInterface!Calls, VpnInterface!Starts,
            VpnInterface!StartReturns, VpnInterface!StopReturns
<1>1. CASE Start
  BY <1>1 DEF IInv, TypeOK, Start
<1>2. CASE Stop
  BY <1>2, StopOwned, Zenon DEF IInv, TypeOK, Stop
<1>3. CASE show
  BY <1>3 DEF IInv, TypeOK, show, Fail
<1>4. CASE upWGInterface
  BY <1>4 DEF IInv, TypeOK, upWGInterface, Fail
<1>5. CASE InterfaceByName
  BY <1>5 DEF IInv, TypeOK, InterfaceByName
<1>6. CASE pushConfig \/ AddAddrs \/ Up
  BY <1>6, Zenon DEF pushConfig, AddAddrs, Up
<1>7. CASE SetMTU
  BY <1>7 DEF IInv, TypeOK, SetMTU
<1>8. ASSUME NEW s \in {"setconf", "addrs", "up", "mtu"}, StageFails(s) PROVE VpnStep
  BY <1>8, StopOwned, Zenon DEF IInv, TypeOK, StageFails, Fail
<1>9. CASE UNCHANGED vars
  BY <1>9 DEF vars
<1> QED
  BY <1>1, <1>2, <1>3, <1>4, <1>5, <1>6, <1>7, <1>8, <1>9, Zenon DEF Next, Setup

\* The component is a VPN as the networker uses it: one call at a time, and of the calls only
\* a Start makes the connection active, also when it fails half-way.
THEOREM KernelSpaceImplementsVpn == Spec => ImplementsVpnSteps
<1>1. Init => VpnInterface!Init
  BY DEF Init, stopped, VpnInterface!Init
<1> QED
  BY InitIInv, NextIInv, NextVpnStep, <1>1, PTL DEF Spec, ImplementsVpnSteps, VpnStep
=============================================================================
