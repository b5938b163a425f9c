------------------------------ MODULE Norduser ------------------------------
(* norduserd, the process that the daemon runs for every member of the      *)
(* nordvpn group who is logged in, and the file sharing process that it     *)
(* runs in turn for the user who enabled meshnet.  The monitor watches the  *)
(* group and the logins; a process is told to stop or to restart by a       *)
(* signal, and stops what it started before it ends.  In a snap the user    *)
(* starts the process, and it watches the logins itself.                    *)
EXTENDS Naturals, Sequences, FiniteSets, SequencesExt

CONSTANTS
    Users,
    Fids,         \* identities of file sharing processes
    Snap,         \* whether the daemon runs in a snap
    Faults        \* what may happen: "ps", "start", "kill", "lookup", "utmp", "env", "mesh", "lib", "restart", "cli",
                  \* and "fast": things change before the last change was dealt with

VARIABLES
    host,         \* the members of the group, and who is logged in and how
    events,       \* the files of which the monitor has yet to see a change
    monitor,      \* the monitor: whether it runs, and the state it has of every member
    proc,         \* the norduserd processes of every user
    mesh,         \* who enabled meshnet
    call,         \* what the daemon has yet to tell their process
    fs,           \* the file sharing processes
    socket,       \* the one that is reached at the path of its socket
    address       \* the one that has the address

vars == <<host, events, monitor, proc, mesh, call, fs, socket, address>>

None == "none"
May(fault) == fault \in Faults

NoProc == [pc |-> "starting", restart |-> FALSE, tray |-> "waiting", loop |-> None, child |-> None, chan |-> <<>>]
NoFs == [pc |-> "off", uid |-> None, code |-> None]

Init ==
    /\ \E m \in SUBSET Users : host = [members |-> m, login |-> [u \in Users |-> None]]
    /\ events = {}
    /\ monitor = [pc |-> "start", known |-> <<>>]
    /\ proc = [u \in Users |-> <<>>]
    /\ mesh = None /\ call = None
    /\ fs = [f \in Fids |-> NoFs]
    /\ socket = None /\ address = None

\* Nothing is under way.
Settled ==
    /\ events = {} /\ monitor.pc = "idle" /\ call = None
    /\ \A u \in Users : \A i \in DOMAIN proc[u] :
          proc[u][i].pc = "up" /\ proc[u][i].loop \in {"idle", "retry"} /\ proc[u][i].chan = <<>>
             /\ ~(proc[u][i].tray = "waiting" /\ host.login[u] = "gui")
             /\ ~(Snap /\ host.login[u] = None)
    /\ \A f \in Fids : fs[f].pc \in {"off", "serving"}
CanChange == Settled \/ May("fast")

-----------------------------------------------------------------------------
(* The service: processes are found with ps, and get signals.               *)

\* A process is started whether or not there is one.
EnableMutant(ps) == {[ok |-> TRUE, ps |-> Append(ps, NoProc)]}

\* Enable: what comes of it, whatever state the process that is found is in
Enable(ps) ==
    (IF May("ps") \/ (May("start") /\ ps = <<>>) THEN {[ok |-> FALSE, ps |-> ps]} ELSE {})
    \cup {[ok |-> TRUE, ps |-> IF ps = <<>> /\ ~Snap THEN <<NoProc>> ELSE ps]}

\* A process has no handler for signals until it waits for its end, and reads one.
Signalled(ps, signal) ==
    CASE ps = <<>> -> ps
      [] ps[1].pc = "starting" -> Tail(ps)
      [] ps[1].pc = "up" -> [ps EXCEPT ![1].pc = "stopping", ![1].restart = signal = "HUP"]
      [] OTHER -> ps
Kill(ps, signal) ==
    (IF May("ps") \/ (May("kill") /\ ps # <<>>) THEN {[ok |-> FALSE, ps |-> ps]} ELSE {})
    \cup {[ok |-> TRUE, ps |-> Signalled(ps, signal)]}

\* A snap's process gets a request instead, which it serves while it is up.
StopRequest(ps) ==
    IF ps # <<>> /\ ps[1].pc = "up" THEN {[ok |-> TRUE, ps |-> [ps EXCEPT ![1].pc = "stopping"]]}
    ELSE {[ok |-> FALSE, ps |-> ps]}
Stop(ps) == IF Snap THEN StopRequest(ps) ELSE Kill(ps, "TERM")
Restart(ps) == Kill(ps, "HUP")

-----------------------------------------------------------------------------
(* The monitor.                                                             *)

getNordVPNGroupMembers == host.members

\* What a call of the service makes of the state; it needs the user's ID.
Then(calls, s, new, ps) ==
    (IF May("lookup") THEN {[state |-> s, ps |-> ps]} ELSE {})
    \cup {[state |-> IF c.ok THEN new ELSE s, ps |-> c.ps] : c \in calls}

\* A process is not restarted when the graphical session ends.
changeStateMutant(s, new, ps) ==
    CASE s = "notActive" /\ new = "gui" -> Then(Enable(ps), s, "runningGUI", ps)
      [] s = "notActive" /\ new = "text" -> Then(Enable(ps), s, "runningText", ps)
      [] s # "notActive" /\ new = None -> Then(Stop(ps), s, "notActive", ps)
      [] OTHER -> {[state |-> s, ps |-> ps]}

changeState(s, new, ps) ==
    CASE s = "notActive" /\ new = "gui" -> Then(Enable(ps), s, "runningGUI", ps)
      [] s = "notActive" /\ new = "text" -> Then(Enable(ps), s, "runningText", ps)
      [] s # "notActive" /\ new = None -> Then(Stop(ps), s, "notActive", ps)
      [] s = "runningGUI" /\ new = "text" -> Then(Restart(ps), s, "runningText", ps)
      [] s = "runningText" /\ new = "gui" -> {[state |-> "runningGUI", ps |-> ps]}
      [] OTHER -> {[state |-> s, ps |-> ps]}

\* getActiveUsers: a session of which the environment cannot be read is none.
getActiveUsers(u) == {host.login[u]} \cup (IF May("env") THEN {None} ELSE {})

\* Every user's outcome, of those that are possible for them.
PerUser(outcomes(_)) ==
    {o \in [Users -> UNION {outcomes(u) : u \in Users}] : \A u \in Users : o[u] \in outcomes(u)}
Known(u) == u \in DOMAIN monitor.known
Apply(o) ==
    /\ monitor' = [pc |-> "idle", known |-> [u \in {v \in Users : o[v].state # "gone"} |-> o[u].state]]
    /\ proc' = [u \in Users |-> o[u].ps]

\* A member who was removed is forgotten and nothing else.
handleGroupFileUpdateMutant(u) ==
    IF u \in getNordVPNGroupMembers
    THEN IF Known(u) THEN {[state |-> monitor.known[u], ps |-> proc[u]]}
         ELSE UNION {changeState("notActive", a, proc[u]) : a \in getActiveUsers(u)}
    ELSE {[state |-> "gone", ps |-> proc[u]]}

\* handleGroupFileUpdate: a new member's process is started; the process of one
\* who is no member any more is stopped, and they are forgotten if it is not.
handleGroupFileUpdate(u) ==
    IF u \in getNordVPNGroupMembers
    THEN IF Known(u) THEN {[state |-> monitor.known[u], ps |-> proc[u]]}
         ELSE UNION {changeState("notActive", a, proc[u]) : a \in getActiveUsers(u)}
    ELSE IF Known(u) THEN {[state |-> "gone", ps |-> c.ps] : c \in changeState(monitor.known[u], None, proc[u])}
         ELSE {[state |-> "gone", ps |-> proc[u]]}

handleUTMPFileUpdate(u) ==
    IF Known(u) THEN UNION {changeState(monitor.known[u], a, proc[u]) : a \in getActiveUsers(u)}
    ELSE {[state |-> "gone", ps |-> proc[u]]}

\* stopForDeletedGroupMembers, of a snap: one that was not stopped is kept, and
\* none is added to those of the start.
stopForDeletedGroupMembers(u) ==
    CASE ~Known(u) -> {[state |-> "gone", ps |-> proc[u]]}
      [] u \in getNordVPNGroupMembers -> {[state |-> "member", ps |-> proc[u]]}
      [] OTHER -> Then(Stop(proc[u]), "member", "gone", proc[u])
OfGroup(u) == IF Snap THEN stopForDeletedGroupMembers(u) ELSE handleGroupFileUpdate(u)

\* Start, and what it does with every event; without the file nothing is done.
StartMonitor ==
    /\ monitor.pc = "start"
    /\ \/ ~Snap /\ \E o \in PerUser(handleGroupFileUpdate) : Apply(o)
       \/ Snap /\ monitor' = [pc |-> "idle", known |-> [u \in getNordVPNGroupMembers |-> "member"]] /\ UNCHANGED proc
       \/ May("utmp") /\ monitor' = [monitor EXCEPT !.pc = "failed"] /\ UNCHANGED proc
    /\ UNCHANGED <<host, events, mesh, call, fs, socket, address>>

FileUpdate ==
    /\ monitor.pc = "idle"
    /\ \E e \in events :
         /\ events' = events \ {e}
         /\ \/ e = "group" /\ \E o \in PerUser(OfGroup) : Apply(o)
            \/ e = "utmp" /\ ~Snap /\ \E o \in PerUser(handleUTMPFileUpdate) : Apply(o)
            \/ (May("utmp") \/ (Snap /\ e = "utmp")) /\ UNCHANGED <<monitor, proc>>
    /\ UNCHANGED <<host, mesh, call, fs, socket, address>>

\* The middleware enables the process of whoever calls the daemon.
CliCall(u) ==
    /\ May("cli") /\ ~Snap /\ monitor.pc # "off"
    /\ u \in host.members /\ host.login[u] # None
    /\ \E c \in Enable(proc[u]) : proc' = [proc EXCEPT ![u] = c.ps]
    /\ UNCHANGED <<host, events, monitor, mesh, call, fs, socket, address>>

\* The daemon dies and its processes do not, or it stops them all first.
StopAll ==
    /\ May("restart") /\ monitor.pc # "off" /\ CanChange
    /\ monitor' = [pc |-> "off", known |-> <<>>]
    /\ \/ UNCHANGED proc
       \/ proc' = [u \in Users |-> IF Snap THEN (CHOOSE c \in StopRequest(proc[u]) : TRUE).ps ELSE Signalled(proc[u], "TERM")]
    /\ call' = None
    /\ UNCHANGED <<host, events, mesh, fs, socket, address>>
DaemonStarts ==
    /\ monitor.pc = "off"
    /\ \A u \in Users : \A i \in DOMAIN proc[u] : proc[u][i].pc = "up" \/ May("fast")
    /\ monitor' = [monitor EXCEPT !.pc = "start"]
    /\ events' = {}
    /\ call' = IF mesh = None THEN None ELSE "Start"
    /\ UNCHANGED <<host, proc, mesh, fs, socket, address>>

-----------------------------------------------------------------------------
(* A norduserd process.                                                     *)

Set(u, p) == proc' = [proc EXCEPT ![u][1] = p]

\* A file sharing process is started; Fids bounds how many there are at a time.
Free(f) == fs[f].pc = "off" /\ \A u \in Users : \A i \in DOMAIN proc[u] : proc[u][i].child # f
StartProcess(u, p) ==
    /\ \E f \in Fids : Free(f)
    /\ LET f == CHOOSE g \in Fids : Free(g)
       IN /\ fs' = [fs EXCEPT ![f] = [NoFs EXCEPT !.pc = "check", !.uid = u]]
          /\ Set(u, [p EXCEPT !.loop = "starting", !.child = f])

\* start: file sharing is started for the user who enabled meshnet, if the daemon
\* can be asked
shouldEnableFileshare(u) == mesh = u /\ monitor.pc # "off"
start(u) ==
    /\ proc[u] # <<>> /\ proc[u][1].pc = "starting"
    /\ LET p == [proc[u][1] EXCEPT !.pc = "up", !.loop = "idle"]
       IN \/ shouldEnableFileshare(u) /\ StartProcess(u, p)
          \/ (~shouldEnableFileshare(u) \/ May("mesh")) /\ Set(u, p) /\ UNCHANGED fs
    /\ UNCHANGED <<host, events, monitor, mesh, call, socket, address>>

\* startSnap, by a member in their session
StartSnap(u) ==
    /\ Snap /\ CanChange
    /\ u \in host.members /\ host.login[u] # None /\ proc[u] = <<>>
    /\ proc' = [proc EXCEPT ![u] = <<NoProc>>]
    /\ UNCHANGED <<host, events, monitor, mesh, call, fs, socket, address>>

\* WaitForLogout
isUserLoggedIn(u) == host.login[u] # None
WaitForLogout(u) ==
    /\ Snap /\ proc[u] # <<>> /\ proc[u][1].pc = "up" /\ ~isUserLoggedIn(u)
    /\ Set(u, [proc[u][1] EXCEPT !.pc = "stopping"])
    /\ UNCHANGED <<host, events, monitor, mesh, call, fs, socket, address>>

\* startTray: the tray appears once there is a desktop to show it
startTray(u) ==
    /\ proc[u] # <<>> /\ proc[u][1].pc = "up" /\ proc[u][1].tray = "waiting" /\ host.login[u] = "gui"
    /\ Set(u, [proc[u][1] EXCEPT !.tray = "shown"])
    /\ UNCHANGED <<host, events, monitor, mesh, call, fs, socket, address>>

\* waitForShutdown: the calls that are under way end, the loop is told and ends,
\* and half a second later the process ends or begins anew: what it stopped has
\* ended by then, unless things are "fast".
GracefulStop(u) ==
    /\ proc[u] # <<>> /\ proc[u][1].pc = "stopping" /\ proc[u][1].chan = <<>>
    /\ Set(u, [proc[u][1] EXCEPT !.pc = "shutdown", !.chan = <<"Shutdown">>])
    /\ UNCHANGED <<host, events, monitor, mesh, call, fs, socket, address>>
waitForShutdown(u) ==
    /\ proc[u] # <<>> /\ proc[u][1].pc = "shutdown" /\ proc[u][1].loop = "closed"
    /\ May("fast") \/ \A f \in Fids : fs[f].pc \notin {"stopping", "disable"}
    /\ proc' = [proc EXCEPT ![u] = IF proc[u][1].restart THEN <<NoProc>> ELSE Tail(@)]
    /\ UNCHANGED <<host, events, monitor, mesh, call, fs, socket, address>>

-----------------------------------------------------------------------------
(* The loop that manages file sharing.                                      *)

\* The end is told without what was started being stopped.
fileshareManagementLoopMutant(u) ==
    /\ proc[u] # <<>> /\ proc[u][1].loop = "idle" /\ proc[u][1].chan # <<>>
    /\ LET p == [proc[u][1] EXCEPT !.chan = Tail(@)]
       IN CASE Head(proc[u][1].chan) = "Start" -> StartProcess(u, p)
            [] Head(proc[u][1].chan) = "Stop" -> Set(u, [p EXCEPT !.loop = "stop"]) /\ UNCHANGED fs
            [] OTHER -> Set(u, [p EXCEPT !.loop = "closed"]) /\ UNCHANGED fs
    /\ UNCHANGED <<host, events, monitor, mesh, call, socket, address>>

\* A message, when the loop waits for one
fileshareManagementLoop(u) ==
    /\ proc[u] # <<>> /\ proc[u][1].loop = "idle" /\ proc[u][1].chan # <<>>
    /\ LET p == [proc[u][1] EXCEPT !.chan = Tail(@)]
       IN CASE Head(proc[u][1].chan) = "Start" -> StartProcess(u, p)
            [] Head(proc[u][1].chan) = "Stop" -> Set(u, [p EXCEPT !.loop = "stop"]) /\ UNCHANGED fs
            [] OTHER -> Set(u, [p EXCEPT !.loop = "shutdown"]) /\ UNCHANGED fs
    /\ UNCHANGED <<host, events, monitor, mesh, call, socket, address>>

\* The end of Shutdown is forgotten.
fileshareStartupLoopMutant(u) ==
    /\ proc[u] # <<>> /\ proc[u][1].loop = "retry"
    /\ \/ /\ proc[u][1].chan # <<>>
          /\ Set(u, [proc[u][1] EXCEPT !.chan = Tail(@), !.loop = IF Head(proc[u][1].chan) = "Start" THEN "retry" ELSE "idle"])
          /\ UNCHANGED fs
       \/ proc[u][1].chan = <<>> /\ StartProcess(u, proc[u][1])
    /\ UNCHANGED <<host, events, monitor, mesh, call, socket, address>>

\* and when the last attempt to start failed: a message, or in
\* ten seconds the next attempt
fileshareStartupLoop(u) ==
    /\ proc[u] # <<>> /\ proc[u][1].loop = "retry"
    /\ \/ /\ proc[u][1].chan # <<>>
          /\ Set(u, [proc[u][1] EXCEPT !.chan = Tail(@),
                       !.loop = CASE Head(proc[u][1].chan) = "Start" -> "retry" [] Head(proc[u][1].chan) = "Stop" -> "idle" [] OTHER -> "closed"])
          /\ UNCHANGED fs
       \/ proc[u][1].chan = <<>> /\ StartProcess(u, proc[u][1])
    /\ UNCHANGED <<host, events, monitor, mesh, call, socket, address>>

\* Whether the process at the socket answers the user, once it serves.
Reaches(u) == socket # None /\ fs[socket].pc = "serving" /\ fs[socket].uid = u
Serves == socket # None => fs[socket].pc = "serving"

\* startFileshare, once the process ended or one answers at the socket: an
\* address in use and a process that runs already are as good as started.
startFileshareEnds(u) ==
    /\ proc[u] # <<>> /\ proc[u][1].loop = "starting"
    /\ LET child == fs[proc[u][1].child]
       IN \/ /\ child.pc = "off"
             /\ Set(u, [proc[u][1] EXCEPT !.child = None,
                          !.loop = IF child.code \in {"in use", "other user", "socket", "running"} THEN "idle" ELSE "retry"])
          \/ /\ socket # None /\ Serves
             /\ Set(u, [proc[u][1] EXCEPT !.child = None, !.loop = IF Reaches(u) THEN "idle" ELSE "retry"])
    /\ UNCHANGED <<host, events, monitor, mesh, call, fs, socket, address>>

\* StopProcess: the process takes the call to its end; that it cannot be reached
\* does not matter.
StopProcess(u) ==
    /\ proc[u] # <<>> /\ proc[u][1].loop \in {"stop", "shutdown"} /\ Serves
    /\ fs' = IF Reaches(u) THEN [fs EXCEPT ![socket].pc = "stopping"] ELSE fs
    /\ Set(u, [proc[u][1] EXCEPT !.loop = IF @ = "stop" THEN "idle" ELSE "closed"])
    /\ UNCHANGED <<host, events, monitor, mesh, call, socket, address>>

-----------------------------------------------------------------------------
(* The file sharing process.                                                *)

Exit(f, code) ==
    /\ fs' = [fs EXCEPT ![f] = [NoFs EXCEPT !.code = code, !.uid = fs[f].uid]]
    /\ socket' = IF socket = f THEN None ELSE socket
To(f, pc) == fs' = [fs EXCEPT ![f].pc = pc] /\ UNCHANGED socket

\* ProcessStatus
ProcessStatus(f) ==
    /\ fs[f].pc = "check" /\ Serves
    /\ IF socket = None THEN To(f, "listen")
       ELSE Exit(f, IF fs[socket].uid = fs[f].uid THEN "running" ELSE "other user")
    /\ UNCHANGED <<host, events, monitor, proc, mesh, call, address>>

\* The old socket is removed, whosever it is.
Listen(f) ==
    /\ fs[f].pc = "listen"
    /\ \/ fs' = [fs EXCEPT ![f].pc = "mesh"] /\ socket' = f
       \/ May("lib") /\ Exit(f, "socket")
    /\ UNCHANGED <<host, events, monitor, proc, mesh, call, address>>

IsEnabled(f) ==
    /\ fs[f].pc = "mesh"
    /\ \/ mesh # None /\ monitor.pc # "off" /\ To(f, "enable")
       \/ (mesh = None \/ monitor.pc = "off" \/ May("mesh")) /\ Exit(f, "mesh")
    /\ UNCHANGED <<host, events, monitor, proc, mesh, call, address>>

\* Enable of libdrop, after what can fail before it
EnableFileshare(f) ==
    /\ fs[f].pc = "enable"
    /\ \/ address # None /\ Exit(f, "in use") /\ UNCHANGED address
       \/ address = None /\ address' = f /\ To(f, "startup")
       \/ May("lib") /\ Exit(f, "failed") /\ UNCHANGED address
    /\ UNCHANGED <<host, events, monitor, proc, mesh, call>>

Startup(f) ==
    /\ fs[f].pc = "startup"
    /\ To(f, "serving")
    /\ UNCHANGED <<host, events, monitor, proc, mesh, call, address>>

\* Shutdown: the server stops, and the path of its socket goes, whosever it is by
\* now; then libdrop
Shutdown(f) ==
    /\ fs[f].pc = "stopping"
    /\ fs' = [fs EXCEPT ![f].pc = "disable"] /\ socket' = None
    /\ UNCHANGED <<host, events, monitor, proc, mesh, call, address>>
Disable(f) ==
    /\ fs[f].pc = "disable"
    /\ Exit(f, None)
    /\ address' = None
    /\ UNCHANGED <<host, events, monitor, proc, mesh, call>>

-----------------------------------------------------------------------------
(* The host, and the daemon's meshnet.                                      *)

LoginChanges(u) ==
    /\ CanChange
    /\ \E l \in {None, "text", "gui"} \ {host.login[u]} :
         /\ host' = [host EXCEPT !.login[u] = l]
         /\ proc' = IF proc[u] # <<>> /\ proc[u][1].tray = "shown" THEN [proc EXCEPT ![u][1].tray = "lost"] ELSE proc
    /\ events' = events \cup {"utmp"}
    /\ UNCHANGED <<monitor, mesh, call, fs, socket, address>>

GroupChanges(u) ==
    /\ CanChange
    /\ host' = [host EXCEPT !.members = IF u \in @ THEN @ \ {u} ELSE @ \cup {u}]
    /\ events' = events \cup {"group"}
    /\ UNCHANGED <<monitor, proc, mesh, call, fs, socket, address>>

\* EnableMeshnet: the setting first, then the process of the user is told
EnableMeshnet(u) ==
    /\ CanChange /\ mesh = None /\ call = None /\ monitor.pc # "off" /\ u \in host.members
    /\ mesh' = u /\ call' = "Start"
    /\ UNCHANGED <<host, events, monitor, proc, fs, socket, address>>

\* DisableMeshnet: the setting once the loop of the process took the message
DisableMeshnet ==
    /\ CanChange /\ mesh # None /\ call = None /\ monitor.pc # "off"
    /\ call' = "Stop"
    /\ UNCHANGED <<host, events, monitor, proc, mesh, fs, socket, address>>
MeshnetDisabled ==
    /\ call = "told" /\ \A i \in DOMAIN proc[mesh] : ~Contains(proc[mesh][i].chan, "Stop")
    /\ mesh' = None /\ call' = None
    /\ UNCHANGED <<host, events, monitor, proc, fs, socket, address>>

\* StartFileshare and StopFileshare of the daemon's client: a process that is not
\* up cannot be told.
Tell ==
    /\ call \in {"Start", "Stop"}
    /\ proc' = IF proc[mesh] # <<>> /\ proc[mesh][1].pc = "up" THEN [proc EXCEPT ![mesh][1].chan = Append(@, call)] ELSE proc
    /\ call' = IF call = "Stop" THEN "told" ELSE None
    /\ UNCHANGED <<host, events, monitor, mesh, fs, socket, address>>

-----------------------------------------------------------------------------
OfMain(u) == start(u) \/ WaitForLogout(u) \/ GracefulStop(u) \/ waitForShutdown(u)
OfLoop(u) ==
    \/ fileshareManagementLoop(u) \/ fileshareStartupLoop(u) \/ startFileshareEnds(u) \/ StopProcess(u)
OfFileshare(f) ==
    ProcessStatus(f) \/ Listen(f) \/ IsEnabled(f) \/ EnableFileshare(f) \/ Startup(f) \/ Shutdown(f) \/ Disable(f)
Next ==
    \/ StartMonitor \/ FileUpdate \/ StopAll \/ DaemonStarts \/ DisableMeshnet \/ MeshnetDisabled \/ Tell
    \/ \E u \in Users : OfMain(u) \/ OfLoop(u) \/ startTray(u) \/ StartSnap(u) \/ CliCall(u) \/ LoginChanges(u) \/ GroupChanges(u) \/ EnableMeshnet(u)
    \/ \E f \in Fids : OfFileshare(f)

Spec == Init /\ [][Next]_vars

\* The goroutines of a process that can go on do; the daemon and users need not.
Fairness ==
    /\ \A u \in Users : WF_vars(OfMain(u)) /\ WF_vars(OfLoop(u))
    /\ \A f \in Fids : WF_vars(OfFileshare(f))
FairSpec == Spec /\ Fairness

-----------------------------------------------------------------------------
NorduserTypeOK ==
    /\ host.members \subseteq Users /\ DOMAIN monitor.known \subseteq Users
    /\ socket \in Fids \cup {None} /\ address \in Fids \cup {None}

\* Enable: a user has one process at most, however often and by whomever it is
\* enabled while processes start, stop and restart.
OneProcess == \A u \in Users : Len(proc[u]) <= 1

\* changeState: when every change was dealt with, the members who are logged in
\* are those who have a process.  For changes that come one after the other: a
\* login while the process of the last session is ending makes Enable find that
\* process and start none (fork.go), and a process that is restarting misses Stop.
RunsWhenLoggedIn ==
    Settled /\ ~Snap => \A u \in Users : (proc[u] # <<>>) <=> (u \in host.members /\ host.login[u] # None)

\* changeState: a tray that was lost with its desktop is back when the user is.
TrayComesBack ==
    Settled /\ ~Snap => \A u \in Users : \A i \in DOMAIN proc[u] : host.login[u] = "gui" => proc[u][i].tray = "shown"

\* The file sharing process runs, and can be reached, exactly when the user who
\* enabled meshnet has a process.
FileshareFollowsMesh ==
    Settled => \A u \in Users : Reaches(u) <=> (mesh = u /\ proc[u] # <<>>)

\* A process that was told to stop does, whatever its loop is doing.
StopsEnd == \A u \in Users : []<>(proc[u] = <<>> \/ proc[u][1].pc \notin {"stopping", "shutdown"})
=============================================================================
