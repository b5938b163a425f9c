--------------------------- MODULE OpenVpnProofs ---------------------------
(***************************************************************************)
(* What holds of OpenVpn.tla whatever can fail and however many reports of *)
(* the process are waiting: no process is left behind, and the component   *)
(* is a VPN as the networker uses it.                                      *)
(***************************************************************************)
EXTENDS OpenVpn, TLAPS

Substates == {"UNKNOWN", "AUTH_FLUKE", "AUTH_BAD", "TIMEOUT_FLUKE", "TIMEOUT"}
Fields ==
    [active : BOOLEAN, manager : BOOLEAN, substate : Substates,
     publishedState : {"none", "Connected", "Connecting"}, tun : BOOLEAN]
Pcs == {"idle", "launch", "management", "stage1", "start-stop", "stop"}

\* Start marks the component active before there is a process and only stop() undoes it,
\* once the process is gone: a component that is not active has none to stop, and every
\* call in progress is one of an active component.
IInv ==
    /\ ovpn \in Fields
    /\ pc \in Pcs
    /\ pc # "idle" => ovpn.active
    /\ ~ovpn.active => process \in {"none", "gone"}

\* The handlers of reports.
Keeps(o) == o \in Fields /\ (o.active <=> ovpn.active)

\* The substate is one of five, whatever failed.
LEMMA NextSubstateType ==
    ASSUME NEW sub \in Substates, NEW kind
    PROVE  NextSubstate(sub, kind) \in Substates
BY DEF NextSubstate, Substates

\* setState tells what was published and nothing else.
LEMMA SetStateKeeps ==
    ASSUME NEW o \in Fields, NEW s
    PROVE  setState(o, s) \in Fields /\ (setState(o, s).active <=> o.active)
<1>1. CASE s = "EXITING"
  <2>1. setState(o, s) = [o EXCEPT !.publishedState = o.publishedState]
    BY <1>1 DEF setState
  <2> QED
    BY <2>1 DEF Fields
<1>2. CASE s # "EXITING"
  <2>1. setState(o, s) = [o EXCEPT !.publishedState = Announced(s)]
    BY <1>2 DEF setState
  <2>2. Announced(s) \in {"none", "Connected", "Connecting"}
    BY DEF Announced
  <2> QED
    BY <2>1, <2>2 DEF Fields
<1> QED
  BY <1>1, <1>2

\* What the handlers change besides: the substate and the tunnel.
LEMMA HandlersKeep ==
    ASSUME NEW o \in Fields, NEW sub \in Substates, NEW tun \in BOOLEAN
    PROVE  /\ [o EXCEPT !.substate = sub] \in Fields
           /\ [o EXCEPT !.substate = sub].active <=> o.active
           /\ [o EXCEPT !.tun = tun] \in Fields
           /\ [o EXCEPT !.tun = tun].active <=> o.active
BY DEF Fields

\* Stage 1 does not make the component inactive.
LEMMA Stage1Keeps ==
    ASSUME IInv, stage1Handler
    PROVE  Keeps(ovpn') /\ pc' \in {"idle", "stage1", "start-stop"} /\ pc = "stage1"
<1> DEFINE e == Head(q)
<1>1. pc = "stage1" /\ ovpn \in Fields
  BY DEF stage1Handler, IInv
<1>2. CASE e \in States
  <2> DEFINE o == setState(ovpn, e)
  <2>1. Stage1State(e)
    BY <1>2 DEF stage1Handler
  <2>2. o \in Fields /\ (o.active <=> ovpn.active) /\ o.substate \in Substates
    BY <1>1, SetStateKeeps DEF Fields
  <2>3. ovpn' = o \/ ovpn' = [o EXCEPT !.tun = TRUE] \/ ovpn' = [o EXCEPT !.substate = NextSubstate(o.substate, e)]
    BY <2>1, <2>2 DEF Stage1State, Fields
  <2>4. Keeps(ovpn')
    <3>1. NextSubstate(o.substate, e) \in Substates
      BY <2>2, NextSubstateType
    <3> HIDE DEF o
    <3> QED
      BY <2>2, <2>3, <3>1, HandlersKeep, Zenon DEF Keeps
  <2>5. pc' \in {"idle", "stage1", "start-stop"}
    BY <1>1, <2>1 DEF Stage1State
  <2> QED
    BY <1>1, <2>4, <2>5
<1>3. CASE e \notin States
  BY <1>1, <1>3 DEF stage1Handler, Keeps
<1> QED
  BY <1>2, <1>3

\* Stage 2 does not either, nor does it make it active: its reports may be of a connection
\* that has ended.
LEMMA Stage2Keeps ==
    ASSUME IInv, stage2Handler
    PROVE  Keeps(ovpn') /\ UNCHANGED <<pc, process>>
<1> DEFINE e == Head(late)
           o == IF e \in States THEN setState(ovpn, e) ELSE ovpn
<1>1. ovpn \in Fields
  BY DEF IInv
<1>2. o \in Fields /\ (o.active <=> ovpn.active) /\ o.substate \in Substates
  BY <1>1, SetStateKeeps DEF Fields
<1>3. \/ ovpn' = o \/ ovpn' = [o EXCEPT !.tun = TRUE] \/ ovpn' = [o EXCEPT !.substate = "UNKNOWN"]
      \/ ovpn' = [o EXCEPT !.substate = NextSubstate(o.substate, e)]
  BY <1>2 DEF stage2Handler, Fields
<1>4. NextSubstate(o.substate, e) \in Substates /\ "UNKNOWN" \in Substates
  BY <1>2, NextSubstateType DEF Substates
<1>5. UNCHANGED <<pc, process>>
  BY DEF stage2Handler
<1> HIDE DEF o, e
<1> QED
  BY <1>2, <1>3, <1>4, <1>5, HandlersKeep, Zenon DEF Keeps

\* Nothing runs before the first Start.
LEMMA InitIInv == Init => IInv
BY DEF Init, IInv, Fields, Substates, Pcs

\* Every step keeps the inductive invariant.
LEMMA NextIInv == IInv /\ [Next]_vars => IInv'
<1> SUFFICES ASSUME IInv, [Next]_vars PROVE IInv'
  OBVIOUS
<1>1. CASE Start
  <2>1. CASE UNCHANGED <<ovpn, pc, process>>
    BY <2>1 DEF IInv
  <2>2. CASE ovpn' = [ovpn EXCEPT !.active = TRUE] /\ process' = "none" /\ pc' = "launch"
    <3>1. ovpn' \in Fields /\ ovpn'.active
      BY <2>2, Zenon DEF IInv, Fields
    <3> QED
      BY <2>2, <3>1 DEF IInv, Pcs
  <2> QED
    BY <1>1, <2>1, <2>2 DEF Start
<1>2. CASE startOpenVPN
  BY <1>2 DEF IInv, Pcs, startOpenVPN
<1>3. CASE ManagementConnected
  <2>1. pc = "management" /\ pc' \in {"stage1", "start-stop", "idle"} /\ process' = process
    BY <1>3 DEF ManagementConnected
  <2>2. ovpn' = ovpn \/ ovpn' = [ovpn EXCEPT !.manager = TRUE]
    BY <1>3 DEF ManagementConnected
  <2>3. Keeps(ovpn')
    <3>1. ovpn \in Fields
      BY DEF IInv
    <3>2. CASE ovpn' = ovpn
      BY <3>1, <3>2 DEF Keeps
    <3>3. CASE ovpn' = [ovpn EXCEPT !.manager = TRUE]
      <4>1. ovpn' \in Fields
        BY <3>1, <3>3, Zenon DEF Fields
      <4>2. ovpn'.active <=> ovpn.active
        BY <3>1, <3>3 DEF Fields
      <4> QED
        BY <4>1, <4>2 DEF Keeps
    <3> QED
      BY <2>2, <3>2, <3>3
  <2> QED
    BY <2>1, <2>3 DEF IInv, Pcs, Keeps
<1>4. CASE stage1Handler
  <2>1. Keeps(ovpn') /\ pc' \in {"idle", "stage1", "start-stop"} /\ pc = "stage1"
    BY <1>4, Stage1Keeps
  <2>2. process' = process
    BY <1>4 DEF stage1Handler
  <2>3. pc' \in Pcs
    BY <2>1 DEF Pcs
  <2> QED
    BY <2>1, <2>2, <2>3 DEF IInv, Keeps
<1>5. CASE stage2Handler
  BY <1>5, Stage2Keeps DEF IInv, Keeps
<1>6. CASE Stop
  BY <1>6 DEF IInv, Pcs, Stop
<1>7. CASE stopSignal
  BY <1>7 DEF IInv, Pcs, stopSignal, Stopping
<1>8. CASE stop
  <2>1. CASE UNCHANGED <<ovpn, pc, process>>
    BY <2>1 DEF IInv
  <2>2. CASE /\ ovpn' = [ovpn EXCEPT !.manager = FALSE, !.tun = FALSE, !.active = FALSE]
             /\ pc' = "idle" /\ process' = process /\ process \in {"none", "gone"}
    <3>1. ovpn' \in Fields
      BY <2>2, Zenon DEF IInv, Fields
    <3> QED
      BY <2>2, <3>1 DEF IInv, Pcs
  <2>3. CASE UNCHANGED <<ovpn, process>> /\ pc' = "idle" /\ process = "gone"
    BY <2>3 DEF IInv, Pcs
  <2> QED
    BY <1>8, <2>1, <2>2, <2>3, Zenon DEF stop
<1>9. CASE ProcessExits
  BY <1>9 DEF IInv, ProcessExits
<1>10. CASE newManagementClient \/ Stage1ContextDone \/ ContextDone \/ ProcessReports \/ Stage2Ends \/ UNCHANGED vars
  BY <1>10 DEF IInv, Pcs, newManagementClient, Stage1ContextDone, ContextDone, ProcessReports, Stage2Ends, vars
<1> QED
  BY <1>1, <1>2, <1>3, <1>4, <1>5, <1>6, <1>7, <1>8, <1>9, <1>10 DEF Next

\* Whatever stage of Start or Stop fails, and whatever the process reports or when it exits, no
\* OpenVPN process is left behind once the component is not active (OpenVPN.Start,
\* OpenVPN.stop).
THEOREM NoProcessIsLeft == Spec => []NoOrphanProcess
<1>1. IInv => NoOrphanProcess
  BY DEF IInv, NoOrphanProcess
<1> QED
  BY InitIInv, NextIInv, <1>1, PTL DEF Spec

\* Every step is a step of the interface or leaves it alone.
LEMMA NextVpnStep == IInv /\ [Next]_vars => VpnStep
<1> SUFFICES ASSUME IInv, [Next]_vars PROVE VpnStep
  OBVIOUS
<1> USE DEF VpnStep, VpnInterface!Next, VpnInterface!vpnVars, VpnInterface!Request, VpnInterface!Calls, VpnInterface!Starts,
            VpnInterface!StartReturns, VpnInterface!StopReturns
<1>1. CASE Start
  <2>1. CASE UNCHANGED <<ovpn, pc>>
    BY <2>1
  <2>2. CASE pc = "idle" /\ ~ovpn.active /\ pc' = "launch"
    BY <2>2
  <2> QED
    BY <1>1, <2>1, <2>2, Zenon DEF Start
<1>2. CASE startOpenVPN \/ Stage1ContextDone
  BY <1>2, Zenon DEF startOpenVPN, Stage1ContextDone
<1>3. CASE ManagementConnected
  BY <1>3 DEF ManagementConnected
<1>4. CASE stage1Handler
  BY <1>4, Stage1Keeps
<1>5. CASE stage2Handler
  <2>1. pc' = pc /\ (ovpn'.active <=> ovpn.active)
    BY <1>5, Stage2Keeps DEF Keeps
  <2> QED
    BY <2>1, Zenon
<1>6. CASE Stop
  BY <1>6 DEF Stop
<1>7. CASE stopSignal
  BY <1>7, Zenon DEF stopSignal, Stopping
<1>8. CASE stop
  <2>1. CASE UNCHANGED <<ovpn, pc>>
    BY <2>1
  <2>2. CASE pc \in {"start-stop", "stop"} /\ pc' = "idle" /\ ovpn'.active = FALSE
    BY <2>2, Zenon
  <2>3. CASE pc \in {"start-stop", "stop"} /\ pc' = "idle" /\ ovpn' = ovpn
    BY <2>3, Zenon
  <2> QED
    BY <1>8, <2>1, <2>2, <2>3, Zenon DEF stop, Stopping, IInv, Fields
<1>9. CASE \/ ProcessExits \/ newManagementClient \/ ContextDone \/ ProcessReports \/ Stage2Ends \/ UNCHANGED vars
  BY <1>9, Zenon DEF ProcessExits, newManagementClient, ContextDone, ProcessReports, Stage2Ends, vars
<1> QED
  BY <1>1, <1>2, <1>3, <1>4, <1>5, <1>6, <1>7, <1>8, <1>9, Zenon DEF Next

\* The component is a VPN as the networker uses it: one call at a time, and only a Start makes
\* the connection active, whatever the process and the handlers of its late reports do.
THEOREM OpenVpnImplementsVpn == Spec => ImplementsVpnSteps
<1>1. Init => VpnInterface!Init
  BY DEF Init, VpnInterface!Init
<1> QED
  BY InitIInv, NextIInv, NextVpnStep, <1>1, PTL DEF Spec, ImplementsVpnSteps, VpnStep
=============================================================================
