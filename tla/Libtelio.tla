------------------------------ MODULE Libtelio ------------------------------
(***************************************************************************)
(* daemon/vpn/nordlynx/libtelio: NordLynx and the mesh on one tunnel.  The *)
(* calls of Libtelio hold its mutex, so there is one at a time; beside it  *)
(* run the library, which reports what becomes of the link to the exit     *)
(* node, and the goroutines that monitor a connection and publish it.  A   *)
(* report finds a monitor waiting or is dropped.                           *)
(***************************************************************************)
EXTENDS Naturals, Sequences, SequencesExt

CONSTANTS
    Servers,     \* public keys of exit nodes
    Faults,      \* library and system calls that may fail
    Contexts,    \* whose context Start gets: "request", "background"
    MaxMonitors  \* monitors alive at once

VARIABLES
    l,      \* the fields of Libtelio
    lib,    \* the library: tunnel, keys, exit node, link
    mon,    \* monitorConnection goroutines, the latest last
    op,     \* the call in progress
    req,    \* the request that called Start has not ended
    pub,    \* the last event published
    last    \* how the last call returned, where it matters

vars == <<l, lib, mon, op, req, pub, last>>

NoServer == "noserver"
Idle == [name |-> "none", owner |-> "call", ctx |-> "live", opened |-> FALSE]

Outcomes(f) == IF f \in Faults THEN BOOLEAN ELSE {TRUE}

(* A step of a call works on [l, lib, mon]; it yields results [s, ok].     *)
Cur == [l |-> l, lib |-> lib, mon |-> mon]
Ok(s) == [s |-> s, ok |-> TRUE]
Err(s) == [s |-> s, ok |-> FALSE]

-----------------------------------------------------------------------------
(* The tunnel.                                                             *)

\* openTunnel: with the kernel's adapter or with BoringTun; a failure after
\* StartNamed stops the library again.
openTunnel(s, ip) ==
    IF s.l.tun # "none" THEN {Ok(s)}
    ELSE LET opened == [s EXCEPT !.l.tun = ip, !.lib.started = TRUE, !.lib.key = ip]
         IN  {Ok(opened)}
             \cup (IF "open" \in Faults THEN {Err(s)} ELSE {})

closeTunnel(s) ==
    IF s.l.tun = "none" THEN {Ok(s)}
    ELSE {IF ok THEN Ok([s EXCEPT !.l.tun = "none", !.lib.started = FALSE, !.lib.key = "none",
                                  !.lib.map = FALSE, !.lib.exit = NoServer, !.lib.link = "down"])
          ELSE Err(s) : ok \in Outcomes("close")}

\* updateTunnel: addresses first, the key last.
updateTunnel(s, ip) ==
    {IF ok THEN Ok([s EXCEPT !.l.tun = ip, !.lib.key = ip]) ELSE Err(s) : ok \in Outcomes("update")}

\* A monitor whose context is done belongs to no request any more.
Done(m) == [m EXCEPT !.ctx = "done", !.owner = "call"]
CancelMonitor(m) == [i \in DOMAIN m |-> IF m[i].cur THEN Done(m[i]) ELSE m[i]]

\* disconnect: the monitor is cancelled whether or not the library obeys.
disconnect(s) ==
    LET t == [s EXCEPT !.mon = CancelMonitor(@)]
    IN  {IF ok THEN Ok([t EXCEPT !.l.active = FALSE, !.lib.exit = NoServer, !.lib.link = "down",
                                 !.lib.bye = @ \/ t.lib.exit # NoServer])
         ELSE Err(t) : ok \in Outcomes("disconnect")}

Monitor(srv, owner) ==
    [server |-> srv, ctx |-> "live", owner |-> owner, cur |-> TRUE, at |-> "select",
     notify |-> "disconnected"]

\* isConnected: the new monitor waits before the library is asked.
isConnected(s, owner) ==
    [s EXCEPT !.mon = Append([i \in DOMAIN @ |-> [@[i] EXCEPT !.cur = FALSE]],
                             Monitor(s.l.server, owner))]

\* connect up to the select that waits for the connection.
connect(s, owner) ==
    UNION {IF ok THEN {Ok([isConnected(s, owner) EXCEPT !.lib.exit = s.l.server, !.lib.link = "down"])}
           ELSE LET t == [isConnected(s, owner) EXCEPT !.mon = CancelMonitor(@)]
                IN  IF s.l.mesh THEN {Err(t)} ELSE {Err(r.s) : r \in closeTunnel(t)}
           : ok \in Outcomes("connect")}

\* disable: without VPN the tunnel is closed; with VPN it stays as it is.
disable(s) ==
    UNION {IF ~ok THEN {Err(s)}
           ELSE LET t == [s EXCEPT !.l.mesh = FALSE, !.lib.map = FALSE]
                IN  IF t.l.active THEN {Ok(t)} ELSE closeTunnel(t)
           : ok \in Outcomes("meshoff")}

-----------------------------------------------------------------------------
(* The calls.                                                              *)

\* Of the calls that returned, these matter: a Start or NetworkChanged that
\* failed, a Stop or Disable that did not.
Return(name, r) ==
    /\ l' = r.s.l /\ lib' = r.s.lib
    /\ mon' = [i \in DOMAIN r.s.mon |->
                  [r.s.mon[i] EXCEPT !.cur = @ /\ r.s.mon[i].ctx = "live"]]
    /\ op' = Idle
    /\ last' = IF \/ r.ok /\ name \in {"Stop", "Disable"}
                  \/ ~r.ok /\ name \in {"Start", "NetworkChanged"} THEN name ELSE "other"

Await(name, owner, s) ==
    /\ l' = s.l /\ lib' = s.lib /\ mon' = s.mon
    /\ op' = [Idle EXCEPT !.name = name, !.owner = owner]
    /\ UNCHANGED last

\* The networker ends what a failed Start or NetworkChanged left with Stop, or
\* with Disable, before it lets go of its mutex.
Free == op.name = "none" /\ last \notin {"Start", "NetworkChanged"}

CanConnect == Free /\ Len(mon) < MaxMonitors

\* The networker starts a connection only when none is active.
Start(srv, owner) ==
    /\ CanConnect /\ ~l.active
    /\ owner = "request" => ~req
    /\ \E r \in openTunnel(Cur, "vpn") :
           IF ~r.ok THEN Return("Start", r)
           ELSE \E c \in connect([r.s EXCEPT !.l.server = srv], owner) :
                    IF c.ok THEN Await("Start", owner, c.s) ELSE Return("Start", c)
    /\ req' = (req \/ owner = "request")
    /\ UNCHANGED pub

\* Mutant: the mesh loses its tunnel.
StopMutant ==
    /\ op.name = "none"
    /\ \E d \in disconnect(Cur) :
           IF ~d.ok THEN Return("Stop", d)
           ELSE \E c \in closeTunnel(d.s) : Return("Stop", c)
    /\ UNCHANGED <<req, pub>>

Stop ==
    /\ op.name = "none"
    /\ \E d \in disconnect(Cur) :
           IF ~d.ok \/ d.s.l.mesh THEN Return("Stop", d)
           ELSE \E c \in closeTunnel(d.s) : Return("Stop", c)
    /\ UNCHANGED <<req, pub>>

EnableFails(s) == \E d \in disable(s) : Return("Enable", Err(d.s))

\* The networker enables and disables a mesh that is not, or is, set.
Enable ==
    /\ CanConnect /\ ~l.mesh
    /\ \E r \in openTunnel(Cur, "mesh") :
           IF ~r.ok THEN EnableFails(r.s)
           ELSE IF ~r.s.l.active THEN Return("Enable", Ok([r.s EXCEPT !.l.mesh = TRUE]))
           ELSE \E d \in disconnect(r.s) :
                    IF ~d.ok THEN EnableFails(d.s)
                    ELSE \E u \in updateTunnel(d.s, "mesh") :
                             IF ~u.ok THEN EnableFails(u.s)
                             ELSE \E c \in connect(u.s, "call") :
                                      IF c.ok THEN Await("Enable", "call", c.s) ELSE EnableFails(c.s)
    /\ UNCHANGED <<req, pub>>

Disable ==
    /\ op.name = "none" /\ l.mesh
    /\ \E d \in disable(Cur) : Return("Disable", d)
    /\ UNCHANGED <<req, pub>>

\* The mesh map is set anew after the library could not adapt by itself.
resetMeshnet(s) ==
    IF ~s.l.mesh THEN {Ok(s)}
    ELSE {IF ok THEN Ok(s) ELSE Err([s EXCEPT !.lib.map = FALSE]) : ok \in Outcomes("setmesh")}

NetworkChanged ==
    /\ CanConnect
    /\ \/ Return("NetworkChanged", Ok(Cur))
       \/ /\ "notify" \in Faults
          /\ IF ~l.active THEN \E r \in resetMeshnet(Cur) : Return("NetworkChanged", r)
             ELSE \E d \in disconnect(Cur) :
                      IF ~d.ok THEN Return("NetworkChanged", d)
                      ELSE \E c \in connect(d.s, "call") :
                               IF c.ok THEN Await("NetworkChanged", "call", c.s)
                               ELSE Return("NetworkChanged", c)
    /\ UNCHANGED <<req, pub>>

\* Refresh: without a tunnel the map is silently not set.
Refresh ==
    /\ Free
    /\ IF l.tun = "none" THEN Return("Refresh", Ok(Cur))
       ELSE \E ok \in Outcomes("setmesh") :
                Return("Refresh", IF ok THEN Ok([Cur EXCEPT !.lib.map = TRUE]) ELSE Err(Cur))
    /\ UNCHANGED <<req, pub>>

\* "defer cancel()" of Enable and NetworkChanged ends the context their
\* monitor lives in.
DeferredCancel(s) == IF op.name = "Start" THEN s ELSE [s EXCEPT !.mon = CancelMonitor(@)]

\* The end of connect when isConnectedC was closed.
Connected ==
    /\ op.name # "none" /\ op.opened
    /\ LET s == [Cur EXCEPT !.l.active = TRUE]
       IN  \/ op.name = "Start" /\ Return("Start", Ok(s))
           \/ op.name = "Enable" /\ Return("Enable", Ok(DeferredCancel([s EXCEPT !.l.mesh = TRUE])))
           \/ /\ op.name = "NetworkChanged"
              /\ \E r \in resetMeshnet(s) :
                     Return("NetworkChanged", [r EXCEPT !.s = DeferredCancel(r.s)])
    /\ UNCHANGED <<req, pub>>

\* The end of connect when its context is done; Go's select may take this
\* case although the connection is there, too.
GivesUp ==
    /\ op.name # "none" /\ op.ctx = "done"
    /\ \E d \in disconnect(Cur) :
           IF op.name = "Enable" THEN EnableFails(d.s) ELSE Return(op.name, Err(d.s))
    /\ UNCHANGED <<req, pub>>

-----------------------------------------------------------------------------
(* The contexts: cancelled by the user, at the deadline of 30 seconds, and *)
(* when the request that created them ends ("defer cancel()" of            *)
(* TryExecuteWith).  The context of a network change has none of these.    *)

Waiting == op.name # "none"

\* Mutant: Enable and NetworkChanged wait without a deadline.
ContextDoneMutant ==
    /\ Waiting /\ op.ctx = "live" /\ op.owner = "request"
    /\ op' = [op EXCEPT !.ctx = "done"]
    /\ mon' = CancelMonitor(mon)
    /\ UNCHANGED <<l, lib, req, pub, last>>

ContextDone ==
    /\ Waiting /\ op.ctx = "live" /\ op.owner # "background"
    /\ op' = [op EXCEPT !.ctx = "done"]
    /\ mon' = CancelMonitor(mon)
    /\ UNCHANGED <<l, lib, req, pub, last>>

TryExecuteWith ==
    /\ req
    /\ op.owner # "request"
    /\ req' = FALSE
    /\ mon' = [i \in DOMAIN mon |-> IF mon[i].owner = "request" THEN Done(mon[i]) ELSE mon[i]]
    /\ UNCHANGED <<l, lib, op, pub, last>>

-----------------------------------------------------------------------------
(* The library's reports and the monitors.                                 *)

\* monitorConnection on a report: what it notes, and what it publishes.
Noted(m, node, link) ==
    CASE link = "connecting" -> "connecting"
      [] link = "up" -> IF node = m.server THEN "connected" ELSE m.notify
      [] link = "down" -> "disconnected"

monitorConnection(i, node, link) ==
    LET m == mon[i]
        n == Noted(m, node, link)
    IN  /\ mon' = [mon EXCEPT ![i] = [@ EXCEPT !.notify = n,
                                               !.at = IF n = m.notify THEN "select" ELSE "publish"]]
        /\ op' = IF m.cur /\ Waiting /\ link = "up" /\ node = m.server
                 THEN [op EXCEPT !.opened = TRUE] ELSE op

\* eventCallback: "drop if nobody is listening".
eventCallback(node, link) ==
    IF \A i \in DOMAIN mon : mon[i].at # "select" THEN UNCHANGED <<mon, op>>
    ELSE \E i \in DOMAIN mon : mon[i].at = "select" /\ monitorConnection(i, node, link)

Links == {<<"down", "connecting">>, <<"connecting", "up">>, <<"up", "connecting">>,
          <<"connecting", "down">>}

LinkChanges ==
    /\ lib.exit # NoServer
    /\ \E p \in Links :
           /\ lib.link = p[1]
           /\ lib' = [lib EXCEPT !.link = p[2]]
           /\ eventCallback(lib.exit, p[2])
    /\ UNCHANGED <<l, req, pub, last>>

\* The report of a disconnection that was asked for.
LinkGone ==
    /\ lib.bye
    /\ lib' = [lib EXCEPT !.bye = FALSE]
    /\ eventCallback(NoServer, "down")
    /\ UNCHANGED <<l, req, pub, last>>

MonitorPublishes(i) ==
    /\ mon[i].at = "publish"
    /\ pub' = mon[i].notify
    /\ mon' = [mon EXCEPT ![i].at = "select"]
    /\ UNCHANGED <<l, lib, op, req, last>>

\* Mutant: a monitor that is cancelled publishes nothing.
MonitorEndsMutant(i) ==
    /\ mon[i].at = "select" /\ mon[i].ctx = "done"
    /\ mon' = RemoveAt(mon, i)
    /\ UNCHANGED <<l, lib, op, req, pub, last>>

\* ctx.Done of the monitor.
MonitorEnds(i) ==
    /\ mon[i].at = "select" /\ mon[i].ctx = "done"
    /\ pub' = IF mon[i].notify # "disconnected" THEN "disconnected" ELSE pub
    /\ mon' = RemoveAt(mon, i)
    /\ UNCHANGED <<l, lib, op, req, last>>

-----------------------------------------------------------------------------
Init ==
    /\ l = [active |-> FALSE, mesh |-> FALSE, tun |-> "none", server |-> NoServer]
    /\ lib = [started |-> FALSE, key |-> "none", exit |-> NoServer, link |-> "down", bye |-> FALSE,
              map |-> FALSE]
    /\ mon = <<>>
    /\ op = Idle
    /\ req = FALSE
    /\ pub = "disconnected"
    /\ last = "other"

Monitors == \E i \in DOMAIN mon : MonitorPublishes(i) \/ MonitorEnds(i)

Next ==
    \/ \E srv \in Servers, owner \in Contexts : Start(srv, owner)
    \/ Stop \/ Enable \/ Disable \/ NetworkChanged \/ Refresh
    \/ Connected \/ GivesUp \/ ContextDone \/ TryExecuteWith
    \/ LinkChanges \/ LinkGone \/ Monitors

\* A call that can go on goes on, and its deadline passes.  Nothing is asked of the
\* library, nor of the monitors.
Fairness == WF_vars(Connected) /\ WF_vars(GivesUp) /\ WF_vars(ContextDone)

Spec == Init /\ [][Next]_vars /\ Fairness

-----------------------------------------------------------------------------
Returned(name) == op = Idle /\ last = name

TypeOK ==
    /\ l \in [active : BOOLEAN, mesh : BOOLEAN, tun : {"none", "vpn", "mesh"},
               server : Servers \cup {NoServer}]
    /\ lib \in [started : BOOLEAN, key : {"none", "vpn", "mesh"}, exit : Servers \cup {NoServer},
                 link : {"down", "connecting", "up"}, bye : BOOLEAN, map : BOOLEAN]
    /\ \A i \in DOMAIN mon :
           mon[i] \in [server : Servers, ctx : {"live", "done"},
                       owner : Contexts \cup {"call"}, cur : BOOLEAN, at : {"select", "publish"},
                       notify : {"disconnected", "connecting", "connected"}]
    /\ Len(mon) <= MaxMonitors
    /\ op.name \in {"none", "Start", "Enable", "NetworkChanged"}
    /\ req \in BOOLEAN
    /\ pub \in {"disconnected", "connecting", "connected"}

\* What was set up is taken down when asked: the library obeys a disconnection,
\* the end of the mesh and the end of the tunnel.
TearsDown == Faults \cap {"disconnect", "meshoff", "close"} = {}

\* The rules 2 to 6 and 8 of the comment on Libtelio (libtelio.go:93): a Stop that
\* works destroys the tunnel unless the mesh uses it, a Disable that works unless
\* VPN uses it, and the mesh that is enabled has a tunnel, with its own key unless
\* an earlier tunnel could not be taken down (openTunnel then keeps that one).
\* Rule 7 (libtelio.go:105), that Disable gives the tunnel of a VPN that is up the
\* values of Start back, is not what disable() does: the key of the mesh stays.
TunnelRules ==
    op = Idle =>
        /\ Returned("Stop") => (l.tun # "none" <=> l.mesh)
        /\ Returned("Disable") => (l.tun # "none" <=> l.active)
        /\ l.mesh => l.tun # "none" /\ (TearsDown => l.tun = "mesh" /\ lib.key = "mesh")
        /\ l.active => lib.started /\ lib.exit = l.server
        /\ TearsDown /\ Returned("Disable") /\ l.active => lib.key = "mesh"

\* No goroutine has anything left to publish and no report is under way.
Quiet ==
    /\ op = Idle /\ ~req /\ ~lib.bye
    /\ \A i \in DOMAIN mon : mon[i].at = "select" /\ mon[i].ctx = "live"

\* When VPN is off the subscribers have learned it, whatever reports of this
\* or of earlier connections were dropped and whichever monitor went last.
DisconnectAnnounced == Quiet /\ ~l.active => pub = "disconnected"

\* Libtelio is a VPN as the networker uses it: every call returns, but for a
\* Start without a deadline that finds no server; Stop and the calls of the
\* mesh never make a connection.
VpnInterface ==
    INSTANCE Vpn WITH
        call <- CASE op.name = "none" -> "none"
                  [] op.name = "Start" -> IF op.owner = "background" THEN "Background" ELSE "Start"
                  [] OTHER -> "Other",
        up <- l.active \/ op.name \in {"Enable", "NetworkChanged"}
ImplementsVpn == VpnInterface!Spec

\* A call that sees the connection come up returns, with or without a deadline.
ReturnsOnceUp == op.opened ~> ~Waiting
=============================================================================
