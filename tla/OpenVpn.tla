------------------------------ MODULE OpenVpn ------------------------------
(***************************************************************************)
(* daemon/vpn/openvpn: the OpenVPN process, the management connection over *)
(* which it reports, and the handlers of its reports: stage 1 inside       *)
(* Start, stage 2 in a goroutine that outlives it.  The networker calls    *)
(* Start and Stop one at a time.                                           *)
(***************************************************************************)
EXTENDS Naturals, Sequences

CONSTANTS
    Faults,     \* "config", "exec", "mgmt", "events", "auth", "tunnel", "signal", "close"
    MaxReports  \* reports not handled yet

VARIABLES
    ovpn,     \* the fields of OpenVPN
    process,  \* "none", "running", "signalled", "gone"
    conn,     \* the goroutine that accepts the management connection
    pc,       \* where the call in progress is
    ctx,      \* the context of Start: "live", "done", or "background" (refreshVPN's, never done)
    q,        \* reports of the process for stage 1
    late,     \* reports of the process for stage 2
    stage2,   \* the stage 2 goroutine: "none", "current", "old" (of an earlier Start)
    pub,      \* the last event published
    crashed   \* the daemon panicked

vars == <<ovpn, process, conn, pc, ctx, q, late, stage2, pub, crashed>>

States == {"CONNECTING", "CONNECTED", "AUTH-FAILED", "TIMEOUT", "EXITING"}
Reports == States \cup {"FATAL", "PASSWORD"}

Fails(f) == f \in Faults

-----------------------------------------------------------------------------
(* The state of the connection and what is published of it.                *)

\* The states are reduced to those the handlers and the events tell apart;
\* RECONNECTING carries the reason.
Announced(s) == IF s = "CONNECTED" THEN "Connected" ELSE "Connecting"

\* Only a change of the published state is published, EXITING never.
publishState(s) ==
    IF s = "EXITING" \/ ovpn.publishedState = Announced(s)
    THEN UNCHANGED pub
    ELSE pub' = Announced(s)

setState(o, s) ==
    [o EXCEPT !.publishedState = IF s = "EXITING" THEN @ ELSE Announced(s)]

\* The substate counts failures of the same kind; a failure of the other kind
\* leaves it alone.
NextSubstate(sub, kind) ==
    CASE sub = "UNKNOWN" -> IF kind = "AUTH-FAILED" THEN "AUTH_FLUKE" ELSE "TIMEOUT_FLUKE"
      [] sub = "AUTH_FLUKE" -> IF kind = "AUTH-FAILED" THEN "AUTH_BAD" ELSE sub
      [] sub = "AUTH_BAD" -> IF kind = "AUTH-FAILED" THEN "UNKNOWN" ELSE sub
      [] sub = "TIMEOUT_FLUKE" -> IF kind = "TIMEOUT" THEN "TIMEOUT" ELSE sub
      [] sub = "TIMEOUT" -> IF kind = "TIMEOUT" THEN "UNKNOWN" ELSE sub

ThirdInARow(sub, kind) ==
    \/ sub = "AUTH_BAD" /\ kind = "AUTH-FAILED"
    \/ sub = "TIMEOUT" /\ kind = "TIMEOUT"

-----------------------------------------------------------------------------
(* Start.                                                                  *)

Start ==
    /\ pc = "idle" /\ ~crashed
    /\ ctx' \in {"live", "background"}
    /\ IF ovpn.active
       THEN UNCHANGED <<ovpn, conn, pc, q, process>>
       ELSE \/ /\ Fails("config")
               /\ UNCHANGED <<ovpn, conn, pc, q, process>>
            \/ /\ ovpn' = [ovpn EXCEPT !.active = TRUE]
               /\ process' = "none"
               /\ conn' = "listening"
               /\ q' = <<>>
               /\ pc' = "launch"
    /\ stage2' = IF pc' = "launch" /\ stage2 = "current" THEN "old" ELSE stage2
    /\ UNCHANGED <<late, pub, crashed>>

startOpenVPN ==
    /\ pc = "launch" /\ ~crashed
    /\ \/ process' = "running" /\ pc' = "management"
       \/ Fails("exec") /\ pc' = "start-stop" /\ UNCHANGED process
    /\ UNCHANGED <<ovpn, conn, ctx, q, late, stage2, pub, crashed>>

\* The goroutine of newManagementClient: it hands the client over to Start,
\* or finds the channel closed after Start has returned.
newManagementClient ==
    /\ conn \in {"listening", "abandoned"} /\ process = "running" /\ ~crashed
    /\ conn' = "accepted"
    /\ crashed' = (conn = "abandoned")
    /\ UNCHANGED <<ovpn, process, pc, ctx, q, late, stage2, pub>>

\* Mutant: the component is marked inactive when the process does not connect.
ManagementConnectedMutant ==
    /\ pc = "management" /\ ~crashed
    /\ \/ conn = "accepted" /\ pc' = "stage1"
          /\ ovpn' = [ovpn EXCEPT !.manager = TRUE] /\ UNCHANGED conn
       \/ conn = "listening" /\ Fails("mgmt") /\ conn' = "abandoned" /\ pc' = "idle"
          /\ ovpn' = [ovpn EXCEPT !.active = FALSE]
    /\ UNCHANGED <<process, ctx, q, late, stage2, pub, crashed>>

\* Start returns without stop() when the process does not connect in time.
ManagementConnected ==
    /\ pc = "management" /\ ~crashed
    /\ \/ /\ conn = "accepted"
          /\ ovpn' = [ovpn EXCEPT !.manager = TRUE]
          /\ \/ pc' = "stage1"
             \/ Fails("events") /\ pc' = "start-stop"
          /\ UNCHANGED conn
       \/ /\ conn = "listening" /\ Fails("mgmt")
          /\ conn' = "abandoned"
          /\ pc' = "idle"
          /\ UNCHANGED ovpn
    /\ UNCHANGED <<process, ctx, q, late, stage2, pub, crashed>>

\* stage1Handler on a state: how Start goes on.
Stage1State(s) ==
    LET o == setState(ovpn, s)
    IN  /\ publishState(s)
        /\ CASE s \in {"AUTH-FAILED", "TIMEOUT"} ->
                  /\ ovpn' = [o EXCEPT !.substate = NextSubstate(@, s)]
                  /\ pc' = IF ThirdInARow(ovpn.substate, s) THEN "start-stop" ELSE pc
                  /\ UNCHANGED <<late, stage2>>
             [] s = "CONNECTED" ->
                  \/ /\ ovpn' = [o EXCEPT !.tun = TRUE]
                     /\ pc' = "idle"
                     /\ stage2' = "current"
                     /\ late' = late \o Tail(q)
                  \/ /\ Fails("tunnel")
                     /\ ovpn' = o /\ pc' = "start-stop"
                     /\ UNCHANGED <<late, stage2>>
             [] s = "EXITING" -> ovpn' = o /\ pc' = "idle" /\ UNCHANGED <<late, stage2>>
             [] OTHER -> ovpn' = o /\ UNCHANGED <<pc, late, stage2>>

stage1Handler ==
    /\ pc = "stage1" /\ q # <<>> /\ ~crashed
    /\ LET e == Head(q)
       IN  IF e \in States THEN Stage1State(e)
           ELSE /\ \/ e = "PASSWORD" /\ pc' = pc
                   \/ e = "PASSWORD" /\ Fails("auth") /\ pc' = "start-stop"
                   \/ e = "FATAL" /\ pc' = "start-stop"
                /\ UNCHANGED <<ovpn, pub, late, stage2>>
    /\ q' = IF stage2' = "current" THEN <<>> ELSE Tail(q)
    /\ UNCHANGED <<process, conn, ctx, crashed>>

Stage1ContextDone ==
    /\ pc = "stage1" /\ ctx = "done" /\ ~crashed
    /\ pc' = "start-stop"
    /\ ctx' = "live"
    /\ UNCHANGED <<ovpn, process, conn, q, late, stage2, pub, crashed>>

\* The user cancels, or 30 seconds have passed.
ContextDone ==
    /\ pc \in {"launch", "management", "stage1"} /\ ctx = "live" /\ ~crashed
    /\ ctx' = "done"
    /\ UNCHANGED <<ovpn, process, conn, pc, q, late, stage2, pub, crashed>>

-----------------------------------------------------------------------------
(* Stop.                                                                   *)

\* publishedState is not updated.
publishDisconnected == pub' = "Disconnected"

Stop ==
    /\ pc = "idle" /\ ~crashed
    /\ publishDisconnected
    /\ pc' = IF ovpn.active THEN "stop" ELSE "idle"
    /\ ctx' = "live"
    /\ UNCHANGED <<ovpn, process, conn, q, late, stage2, crashed>>

Stopping == pc \in {"start-stop", "stop"}

\* stop(), first part: the process is told to end.
stopSignal ==
    /\ Stopping /\ ~crashed /\ ovpn.manager
    /\ \/ /\ process = "running"
          /\ process' = "signalled"
          /\ UNCHANGED pc
       \/ /\ process = "running" /\ Fails("signal")
          /\ pc' = "idle"
          /\ UNCHANGED process
    /\ UNCHANGED <<ovpn, conn, ctx, q, late, stage2, pub, crashed>>

\* stop(), second part: it waits for the end of the process; without a
\* manager nobody told the process, and Close has no manager to close.  When
\* Close fails, stop() returns with the component still active.
stop ==
    /\ Stopping /\ ~crashed /\ process \in {"none", "gone"}
    /\ \/ /\ process = "gone" /\ ~ovpn.manager
          /\ crashed' = TRUE
          /\ UNCHANGED <<ovpn, conn, pc>>
       \/ /\ process = "gone" /\ ovpn.manager /\ Fails("close")
          /\ pc' = "idle"
          /\ UNCHANGED <<ovpn, conn, crashed>>
       \/ /\ process = "gone" => ovpn.manager
          /\ ovpn' = [ovpn EXCEPT !.manager = FALSE, !.tun = FALSE, !.active = FALSE]
          /\ conn' = "none"
          /\ pc' = "idle"
          /\ UNCHANGED crashed
    /\ ctx' = "live" /\ q' = <<>>
    /\ UNCHANGED <<process, late, stage2, pub>>

-----------------------------------------------------------------------------
(* The process (external) and stage 2.                                     *)

Report(e) == IF stage2 = "current" THEN late' = Append(late, e) /\ UNCHANGED q
             ELSE q' = Append(q, e) /\ UNCHANGED late

ProcessReports ==
    /\ process = "running" /\ conn = "accepted" /\ ovpn.manager /\ ~crashed
    /\ Len(q) + Len(late) < MaxReports
    /\ \E e \in Reports \ {"EXITING"} : Report(e)
    /\ UNCHANGED <<ovpn, process, conn, pc, ctx, stage2, pub, crashed>>

\* It exits when told to, and may exit by itself.
ProcessExits ==
    /\ process \in {"running", "signalled"} /\ ~crashed
    /\ process' = "gone"
    /\ IF ovpn.manager /\ Len(q) + Len(late) < MaxReports THEN Report("EXITING")
       ELSE UNCHANGED <<q, late>>
    /\ UNCHANGED <<ovpn, conn, pc, ctx, stage2, pub, crashed>>

\* Mutant: a reconnection reported late makes the component active.
stage2HandlerMutant ==
    /\ stage2 # "none" /\ late # <<>> /\ ~crashed
    /\ ovpn' = IF Head(late) = "CONNECTED" THEN [ovpn EXCEPT !.tun = TRUE, !.active = TRUE] ELSE ovpn
    /\ late' = Tail(late)
    /\ UNCHANGED <<process, conn, pc, ctx, q, stage2, pub, crashed>>

\* The reports of a connection that has ended may still be handled when the
\* next Start is under way.
stage2Handler ==
    /\ stage2 # "none" /\ late # <<>> /\ ~crashed
    /\ LET e == Head(late)
           o == IF e \in States THEN setState(ovpn, e) ELSE ovpn
       IN  /\ IF e \in States THEN publishState(e) ELSE UNCHANGED pub
           /\ ovpn' = CASE e = "TIMEOUT" -> [o EXCEPT !.substate = NextSubstate(@, e)]
                        [] e = "CONNECTED" -> [o EXCEPT !.tun = TRUE]
                        [] e = "FATAL" -> [o EXCEPT !.substate = "UNKNOWN"]
                        [] OTHER -> o
           /\ stage2' = IF e = "FATAL" \/ (e = "TIMEOUT" /\ ThirdInARow(ovpn.substate, e))
                        THEN "none" ELSE stage2
           /\ late' = IF stage2' = "none" THEN <<>> ELSE Tail(late)
           \* Auth is called on a manager that stop() may have removed.
           /\ crashed' = (e = "PASSWORD" /\ ~ovpn.manager)
    /\ UNCHANGED <<process, conn, pc, ctx, q>>

\* The channel is closed with the management connection.
Stage2Ends ==
    /\ stage2 # "none" /\ late = <<>> /\ ~crashed
    /\ stage2 = "old" \/ process = "gone"
    /\ stage2' = "none"
    /\ UNCHANGED <<ovpn, process, conn, pc, ctx, q, late, pub, crashed>>

-----------------------------------------------------------------------------
Init ==
    /\ ovpn = [active |-> FALSE, manager |-> FALSE, substate |-> "UNKNOWN",
               publishedState |-> "none", tun |-> FALSE]
    /\ process = "none" /\ conn = "none" /\ pc = "idle" /\ ctx = "live"
    /\ q = <<>> /\ late = <<>> /\ stage2 = "none"
    /\ pub = "none" /\ crashed = FALSE

Next ==
    \/ Start \/ startOpenVPN \/ newManagementClient \/ ManagementConnected
    \/ stage1Handler \/ Stage1ContextDone \/ ContextDone
    \/ Stop \/ stopSignal \/ stop
    \/ ProcessReports \/ ProcessExits \/ stage2Handler \/ Stage2Ends

\* Goroutines go on, the deadlines of Start pass, and a process obeys SIGINT.  It
\* need not connect, report anything or end by itself.
Fairness ==
    /\ WF_vars(startOpenVPN) /\ WF_vars(ManagementConnected)
    /\ WF_vars(ContextDone) /\ SF_vars(Stage1ContextDone)
    /\ WF_vars(stopSignal) /\ WF_vars(stop)
    /\ WF_vars(process = "signalled" /\ ProcessExits)

Spec == Init /\ [][Next]_vars /\ Fairness

-----------------------------------------------------------------------------
TypeOK ==
    /\ ovpn.active \in BOOLEAN /\ ovpn.manager \in BOOLEAN /\ ovpn.tun \in BOOLEAN
    /\ ovpn.substate \in {"UNKNOWN", "AUTH_FLUKE", "AUTH_BAD", "TIMEOUT_FLUKE", "TIMEOUT"}
    /\ process \in {"none", "running", "signalled", "gone"}
    /\ conn \in {"none", "listening", "abandoned", "accepted"}
    /\ pc \in {"idle", "launch", "management", "stage1", "start-stop", "stop"}
    /\ q \in Seq(Reports) /\ late \in Seq(Reports)

\* Whatever went wrong while it was started or stopped, no OpenVPN process is
\* left behind once the component reports that it is not active.
NoOrphanProcess ==
    (pc = "idle" /\ ~ovpn.active) => process \in {"none", "gone"}

\* stop() waits for a process that was not told to end: it never connected to
\* the manager that would tell it.
Unstoppable == Stopping /\ ~ovpn.manager /\ process = "running"

\* Start and Stop do return, whether the server never answers, the process ends
\* by itself, or authentication or a stage of the start fails.  Three things keep
\* them from it: a Start without a deadline (refreshVPN) whose process reports
\* nothing, a Stop of a process that never connected, and a daemon that crashed.
CallsReturn == (pc # "idle" /\ ctx # "background") ~> (pc = "idle" \/ crashed \/ Unstoppable)

\* The component as the networker sees it: the call in progress, and IsActive
\* once it has returned.  Only Start makes the component active, whatever the
\* process and the handlers of its late reports do.
VpnInterface == INSTANCE Vpn WITH
    call <- CASE pc = "idle" -> "none" [] pc = "stop" -> "Stop" [] OTHER -> "Start",
    up <- ovpn.active /\ pc \in {"idle", "stop"}

VpnStep == [VpnInterface!Next]_(VpnInterface!vpnVars)
ImplementsVpnSteps == VpnInterface!Init /\ [][VpnInterface!Next]_(VpnInterface!vpnVars)
=============================================================================
