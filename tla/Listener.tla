------------------------------ MODULE Listener ------------------------------
(***************************************************************************)
(* The socket of the daemon (internal/filesystem.go, internal/socket.go):   *)
(* a process that starts looks for the pid file of another, removes what a  *)
(* dead one left, listens and writes its own, and removes both when it      *)
(* closes.  It may die at any point.  Clients are told apart by the user    *)
(* that the kernel reports.                                                 *)
(*                                                                         *)
(* One process at a time starts or closes, as the service manager sees to;  *)
(* one may be started while another serves.                                 *)
(***************************************************************************)
EXTENDS Naturals, FiniteSets

CONSTANTS
    Pids,
    Clients,        \* the processes that connect: user, groups, and whether these can be looked up
    Owner,          \* the user of a FileshareAuthenticator, or Anyone
    MaxUid,         \* the greatest user that StringToUcred parses
    Faults          \* "crash", "fs" (a file cannot be removed, made or written), "reuse" (of a pid)

VARIABLES
    pidfile,        \* the pid in the file, None, or Garbage
    socket,         \* the process whose socket has the path, or None
    proc,           \* what every process does, and the others that ran when it was refused
    dead,           \* processes that have died
    conns           \* for every client the process that serves it, and the user it is taken for

vars == <<pidfile, socket, proc, dead, conns>>

None == 0
Garbage == 99
Anyone == 99
May(fault) == fault \in Faults
Gone == [pc |-> "gone", others |-> {}]
NoConn == [with |-> None, as |-> 0]

Init ==
    /\ pidfile \in {None, Garbage} /\ socket = None
    /\ proc = [p \in Pids |-> Gone]
    /\ dead = {}
    /\ conns = [c \in Clients |-> NoConn]

At(p, pc) == proc[p].pc = pc
Goes(p, pc) == proc' = [proc EXCEPT ![p].pc = pc]
Running == {p \in Pids : ~At(p, "gone")}
Apart(p) == \A q \in Pids \ {p} : proc[q].pc \in {"gone", "serving"}

Start(p) ==
    /\ At(p, "gone") /\ (p \notin dead \/ May("reuse")) /\ Apart(p)
    /\ Goes(p, "check")
    /\ UNCHANGED <<pidfile, socket, dead, conns>>

\* checkPidFile: a file that names a process that runs stays, another is removed.
checkPidFileMutant(p) ==
    /\ At(p, "check")
    /\ IF pidfile \in Pids
       THEN proc' = [proc EXCEPT ![p] = [pc |-> "refused", others |-> Running \ {p}]] /\ UNCHANGED pidfile
       ELSE pidfile' = None /\ Goes(p, "clean")
    /\ UNCHANGED <<socket, dead, conns>>

checkPidFile(p) ==
    /\ At(p, "check")
    /\ \/ /\ pidfile \in Running
          /\ proc' = [proc EXCEPT ![p] = [pc |-> "refused", others |-> Running \ {p}]]
          /\ UNCHANGED pidfile
       \/ /\ May("fs") /\ pidfile # None  \* it cannot be read
          /\ Goes(p, "failed") /\ UNCHANGED pidfile
       \/ /\ pidfile \notin Running
          /\ pidfile' \in {None} \cup (IF May("fs") THEN {pidfile} ELSE {})
          /\ Goes(p, "clean")
    /\ UNCHANGED <<socket, dead, conns>>

\* ManualListenerIfNotInUse, which goes on when the socket cannot be removed
CleanSocketMutant(p) ==
    /\ At(p, "clean") /\ Goes(p, "listen")
    /\ UNCHANGED <<pidfile, socket, dead, conns>>
CleanSocket(p) ==
    /\ At(p, "clean")
    /\ socket' \in {None} \cup (IF May("fs") THEN {socket} ELSE {})
    /\ Goes(p, "listen")
    /\ UNCHANGED <<pidfile, dead, conns>>

\* net.Listen makes the file, which may not be there; its permissions are changed after.
Listen(p) ==
    /\ At(p, "listen")
    /\ \/ socket = None /\ socket' = p /\ Goes(p, "write")
       \/ (socket # None \/ May("fs")) /\ UNCHANGED socket /\ Goes(p, "failed")
       \/ socket = None /\ May("fs") /\ socket' = p /\ Goes(p, "failed")
    /\ UNCHANGED <<pidfile, dead, conns>>

\* Once the pid is written, the process serves.
WritePid(p) ==
    /\ At(p, "write")
    /\ \/ pidfile' = p /\ Goes(p, "serving")
       \/ May("fs") /\ pidfile' \in {pidfile, Garbage} /\ Goes(p, "failed")
    /\ UNCHANGED <<socket, dead, conns>>

\* A process that was refused or failed exits (log.Fatalf).
Exit(p) ==
    /\ proc[p].pc \in {"refused", "failed", "closed"}
    /\ proc' = [proc EXCEPT ![p] = Gone]
    /\ dead' = dead \cup {p}
    /\ UNCHANGED <<pidfile, socket, conns>>

\* Close removes the path of the socket, which the listener has removed already, and whatever
\* pid file there is.
Close(p) ==
    /\ At(p, "serving") /\ Apart(p)
    /\ socket' = None /\ Goes(p, "cleanPid")
    /\ conns' = [c \in Clients |-> IF conns[c].with = p THEN NoConn ELSE conns[c]]
    /\ UNCHANGED <<pidfile, dead>>
cleanPidFile(p) ==
    /\ At(p, "cleanPid")
    /\ pidfile' \in {None} \cup (IF May("fs") THEN {pidfile} ELSE {})
    /\ Goes(p, "removeSocket")
    /\ UNCHANGED <<socket, dead, conns>>
RemoveSocket(p) ==
    /\ At(p, "removeSocket")
    /\ socket' = None /\ Goes(p, "closed")
    /\ UNCHANGED <<pidfile, dead, conns>>

\* The process is killed: its files stay.
Crash(p) ==
    /\ May("crash") /\ p \in Running
    /\ proc' = [proc EXCEPT ![p] = Gone]
    /\ dead' = dead \cup {p}
    /\ conns' = [c \in Clients |-> IF conns[c].with = p THEN NoConn ELSE conns[c]]
    /\ UNCHANGED <<pidfile, socket>>

\* isInAllowedGroup: the groups of the user that can be looked up
isInAllowedGroup(c) == c.known /\ "nordvpn" \in c.groups
Authenticate(c) ==
    /\ c.uid = 0 \/ isInAllowedGroup(c)
    /\ Owner = Anyone \/ c.uid \in {Owner, 0}

\* StringToUcred of AuthType: a user it does not parse is the zero value.
StringToUcred(uid) == IF uid <= MaxUid THEN uid ELSE 0

\* getUnixCreds: the user the kernel reports, if allowed
getUnixCreds(c) == IF Authenticate(c) THEN {c.uid} ELSE {}

\* ServerHandshake: the process at the path takes the client for that user.
ServerHandshakeMutant(c) ==
    /\ conns[c] = NoConn /\ socket # None /\ At(socket, "serving")
    /\ conns' = [conns EXCEPT ![c] = [with |-> socket, as |-> StringToUcred(c.uid)]]
    /\ UNCHANGED <<pidfile, socket, proc, dead>>
ServerHandshake(c) ==
    /\ conns[c] = NoConn /\ socket # None /\ At(socket, "serving")
    /\ \E uid \in getUnixCreds(c) : conns' = [conns EXCEPT ![c] = [with |-> socket, as |-> StringToUcred(uid)]]
    /\ UNCHANGED <<pidfile, socket, proc, dead>>
Disconnects(c) ==
    /\ conns[c] # NoConn
    /\ conns' = [conns EXCEPT ![c] = NoConn]
    /\ UNCHANGED <<pidfile, socket, proc, dead>>

Next ==
    \/ \E p \in Pids :
         \/ Start(p) \/ checkPidFile(p) \/ CleanSocket(p) \/ Listen(p) \/ WritePid(p) \/ Exit(p)
         \/ Close(p) \/ cleanPidFile(p) \/ RemoveSocket(p) \/ Crash(p)
    \/ \E c \in Clients : ServerHandshake(c) \/ Disconnects(c)

Spec == Init /\ [][Next]_vars

-----------------------------------------------------------------------------
ListenerTypeOK ==
    /\ pidfile \in Pids \cup {None, Garbage} /\ socket \in Pids \cup {None} /\ dead \subseteq Pids
    /\ \A p \in Pids : proc[p].pc \in {"gone", "check", "clean", "listen", "write", "serving", "refused", "failed",
                                       "cleanPid", "removeSocket", "closed"}
    /\ \A c \in Clients : conns[c].with \in Pids \cup {None}

\* ManualListenerIfNotInUse: the process that serves has the socket and the pid file, so there
\* is one, which clients reach and which the next to start finds.
ServingIsReached == \A p \in Pids : At(p, "serving") => socket = p /\ pidfile = p

\* checkPidFile: "daemon is already running" is said only when another is.
RefusedForAnother == \A p \in Pids : At(p, "refused") => proc[p].others # {}

\* checkPidFile and ManualListenerIfNotInUse: whatever a process that died has left, the next
\* one starts.
DeadDoNotBlock == ~May("fs") => \A p \in Pids : ~At(p, "failed")

\* Authenticate: who is served is allowed to be, by a process that runs, and is taken for who
\* they are when their number can be parsed.
ServedAsThemselves ==
    \A c \in Clients : conns[c] # NoConn =>
        /\ At(conns[c].with, "serving")
        /\ c.uid = 0 \/ (c.known /\ "nordvpn" \in c.groups /\ Owner \in {Anyone, c.uid})
        /\ c.uid <= MaxUid => conns[c].as = c.uid
=============================================================================
