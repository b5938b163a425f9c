--------------------------- MODULE ListenerProofs ---------------------------
(***************************************************************************)
(* One daemon serves, whatever processes died before it and whatever fails: *)
(* theorems about Listener.tla for any set of processes and clients.        *)
(***************************************************************************)
EXTENDS Listener, TLAPS

\* No process has the pid that stands for an empty or an unreadable pid file.
PidsAreReal == None \notin Pids /\ Garbage \notin Pids

Pcs == {"gone", "check", "clean", "listen", "write", "serving", "refused", "failed", "cleanPid", "removeSocket", "closed"}

\* The functions and records, which the type invariant says only the fields of
Typed ==
    /\ pidfile \in Pids \cup {None, Garbage} /\ socket \in Pids \cup {None} /\ dead \subseteq Pids
    /\ proc \in [Pids -> [pc : Pcs, others : SUBSET Pids]]
    /\ DOMAIN conns = Clients
    /\ \A c \in Clients : conns[c] = NoConn \/ conns[c].with \in Pids

\* One process starts or closes, and none that has passed the check does while another serves.
Resting == {"gone", "serving"}
Bystanders == {"gone", "check", "refused", "failed"}
OneMoves == \A p, q \in Pids : proc[p].pc \notin Resting /\ proc[q].pc \notin Resting => p = q
NoneServes == \A p, q \in Pids : At(p, "serving") /\ ~At(q, "serving") => proc[q].pc \in Bystanders

\* A path that a process is about to listen on is free when it could be removed, and then its own.
PathIsFree ==
    /\ ~May("fs") => \A p \in Pids : At(p, "listen") => socket = None
    /\ \A p \in Pids : At(p, "write") => socket = p

IInv == Typed /\ OneMoves /\ NoneServes /\ ServingIsReached /\ PathIsFree /\ DeadDoNotBlock /\ ServedAsThemselves

\* A process that runs has not died before, and the pid file names one that died or that got
\* as far as to serve: the strengthening for who is refused.
DeadAreGone == \A p \in dead : At(p, "gone")
FileNames ==
    pidfile \in Pids => pidfile \in dead \/ proc[pidfile].pc \in {"serving", "cleanPid", "removeSocket", "closed"}
RInv == DeadAreGone /\ FileNames /\ RefusedForAnother

-----------------------------------------------------------------------------
\* What an assignment to the pc of one process does to the others
LEMMA GoesFacts ==
    ASSUME Typed, NEW p \in Pids, NEW pc \in Pcs, Goes(p, pc)
    PROVE  /\ proc' \in [Pids -> [pc : Pcs, others : SUBSET Pids]]
           /\ proc'[p].pc = pc /\ proc'[p].others = proc[p].others
           /\ \A q \in Pids \ {p} : proc'[q] = proc[q]
BY DEF Typed, Goes

\* The same for a process that ends or is refused
LEMMA SetFacts ==
    ASSUME Typed, NEW p \in Pids, NEW r \in [pc : Pcs, others : SUBSET Pids], proc' = [proc EXCEPT ![p] = r]
    PROVE  /\ proc' \in [Pids -> [pc : Pcs, others : SUBSET Pids]]
           /\ proc'[p] = r
           /\ \A q \in Pids \ {p} : proc'[q] = proc[q]
BY DEF Typed

\* The clients of a process that ends are disconnected.
LEMMA DropFacts ==
    ASSUME Typed, NEW p \in Pids, conns' = [c \in Clients |-> IF conns[c].with = p THEN NoConn ELSE conns[c]]
    PROVE  /\ DOMAIN conns' = Clients
           /\ \A c \in Clients : conns'[c] = NoConn \/ (conns'[c] = conns[c] /\ conns[c].with # p)
BY DEF Typed

\* Processes that end drop their clients, and others keep theirs while they serve.
LEMMA ClientsStay ==
    ASSUME ServedAsThemselves,
           \A c \in Clients : conns'[c] = NoConn \/ (conns'[c] = conns[c] /\ (At(conns[c].with, "serving") => At(conns[c].with, "serving")'))
    PROVE  ServedAsThemselves'
BY DEF ServedAsThemselves

\* Start: a process starts while the others rest.
LEMMA StartKeeps ==
    ASSUME PidsAreReal, IInv, NEW p \in Pids, Start(p)
    PROVE  IInv'
<1> USE DEF At, May, Resting, Bystanders, Pcs
<1>0. Typed /\ OneMoves /\ NoneServes /\ ServingIsReached /\ PathIsFree /\ DeadDoNotBlock /\ ServedAsThemselves
  BY DEF IInv
<1>1. proc[p].pc = "gone" /\ (\A q \in Pids \ {p} : proc[q].pc \in Resting) /\ UNCHANGED <<pidfile, socket, dead, conns>>
  BY DEF Start, Apart
<1>2. /\ proc' \in [Pids -> [pc : Pcs, others : SUBSET Pids]]
      /\ proc'[p].pc = "check" /\ \A q \in Pids \ {p} : proc'[q] = proc[q]
  BY <1>0, GoesFacts DEF Start
<1>3. Typed'
  BY <1>0, <1>1, <1>2 DEF Typed
<1>4. OneMoves' /\ NoneServes'
  BY <1>0, <1>1, <1>2 DEF OneMoves, NoneServes
<1>5. ServingIsReached' /\ PathIsFree' /\ DeadDoNotBlock'
  BY <1>0, <1>1, <1>2 DEF ServingIsReached, PathIsFree, DeadDoNotBlock
<1>6. ServedAsThemselves'
  BY <1>0, <1>1, <1>2, ClientsStay DEF Typed, ServedAsThemselves
<1> QED
  BY <1>3, <1>4, <1>5, <1>6 DEF IInv

\* checkPidFile: it goes on only when the pid file names none that runs, so none serves.
LEMMA CheckKeeps ==
    ASSUME PidsAreReal, IInv, NEW p \in Pids, checkPidFile(p)
    PROVE  IInv'
<1> USE DEF At, May, Resting, Bystanders, Pcs
<1>0. Typed /\ OneMoves /\ NoneServes /\ ServingIsReached /\ PathIsFree /\ DeadDoNotBlock /\ ServedAsThemselves
  BY DEF IInv
<1>1. proc[p].pc = "check" /\ UNCHANGED <<socket, dead, conns>>
  BY DEF checkPidFile
<1>2. /\ proc' \in [Pids -> [pc : Pcs, others : SUBSET Pids]]
      /\ \A q \in Pids \ {p} : proc'[q] = proc[q]
      /\ \/ proc'[p].pc = "refused" /\ UNCHANGED pidfile
         \/ May("fs") /\ proc'[p].pc = "failed" /\ UNCHANGED pidfile
         \/ proc'[p].pc = "clean" /\ pidfile \notin Running /\ pidfile' \in {None, pidfile}
  <2>1. CASE proc' = [proc EXCEPT ![p] = [pc |-> "refused", others |-> Running \ {p}]] /\ UNCHANGED pidfile
    <3>1. [pc |-> "refused", others |-> Running \ {p}] \in [pc : Pcs, others : SUBSET Pids]
      BY DEF Running
    <3> QED
      BY <1>0, <2>1, <3>1, SetFacts, Zenon
  <2>2. CASE May("fs") /\ Goes(p, "failed") /\ UNCHANGED pidfile
    BY <1>0, <2>2, GoesFacts
  <2>3. CASE pidfile \notin Running /\ pidfile' \in {None, pidfile} /\ Goes(p, "clean")
    BY <1>0, <2>3, GoesFacts
  <2> QED
    BY <2>1, <2>2, <2>3 DEF checkPidFile
<1>3. Typed'
  BY <1>0, <1>1, <1>2 DEF Typed
<1>4. OneMoves' /\ NoneServes'
  BY <1>0, <1>1, <1>2 DEF OneMoves, NoneServes, ServingIsReached, Running
<1>5. ServingIsReached'
  BY <1>0, <1>1, <1>2 DEF ServingIsReached, Running
<1>7. PathIsFree' /\ DeadDoNotBlock'
  BY <1>0, <1>1, <1>2 DEF PathIsFree, DeadDoNotBlock
<1>6. ServedAsThemselves'
  BY <1>0, <1>1, <1>2, ClientsStay DEF Typed, ServedAsThemselves
<1> QED
  BY <1>3, <1>4, <1>5, <1>6, <1>7 DEF IInv

\* CleanSocket: the path is free unless it cannot be removed.
LEMMA CleanSocketKeeps ==
    ASSUME PidsAreReal, IInv, NEW p \in Pids, CleanSocket(p)
    PROVE  IInv'
<1> USE DEF At, May, Resting, Bystanders, Pcs
<1>0. Typed /\ OneMoves /\ NoneServes /\ ServingIsReached /\ PathIsFree /\ DeadDoNotBlock /\ ServedAsThemselves
  BY DEF IInv
<1>1. proc[p].pc = "clean" /\ socket' \in {None, socket} /\ (~May("fs") => socket' = None) /\ UNCHANGED <<pidfile, dead, conns>>
  BY <1>0 DEF CleanSocket
<1>2. /\ proc' \in [Pids -> [pc : Pcs, others : SUBSET Pids]]
      /\ proc'[p].pc \in {"listen"} /\ \A q \in Pids \ {p} : proc'[q] = proc[q]
  BY <1>0, GoesFacts DEF CleanSocket
<1>3. Typed'
  BY <1>0, <1>1, <1>2 DEF Typed
<1>4. OneMoves' /\ NoneServes'
  BY <1>0, <1>1, <1>2 DEF OneMoves, NoneServes, ServingIsReached
<1>5. ServingIsReached' /\ PathIsFree' /\ DeadDoNotBlock'
  BY <1>0, <1>1, <1>2, PidsAreReal DEF ServingIsReached, PathIsFree, DeadDoNotBlock, NoneServes, OneMoves, Typed, PidsAreReal
<1>6. ServedAsThemselves'
  BY <1>0, <1>1, <1>2, ClientsStay, Zenon DEF Typed, ServedAsThemselves
<1> QED
  BY <1>3, <1>4, <1>5, <1>6 DEF IInv

\* Listen: it fails only with the file system.
LEMMA ListenKeeps ==
    ASSUME PidsAreReal, IInv, NEW p \in Pids, Listen(p)
    PROVE  IInv'
<1> USE DEF At, May, Resting, Bystanders, Pcs
<1>0. Typed /\ OneMoves /\ NoneServes /\ ServingIsReached /\ PathIsFree /\ DeadDoNotBlock /\ ServedAsThemselves
  BY DEF IInv
<1>1. /\ proc[p].pc = "listen" /\ UNCHANGED <<pidfile, dead, conns>>
      /\ socket' \in {socket, p}
  BY <1>0 DEF Listen
<1>2. /\ proc' \in [Pids -> [pc : Pcs, others : SUBSET Pids]]
      /\ proc'[p].pc \in {"write", "failed"} /\ (~May("fs") => proc'[p].pc = "write") /\ (proc'[p].pc = "write" => socket' = p) /\ \A q \in Pids \ {p} : proc'[q] = proc[q]
  BY <1>0, GoesFacts DEF Listen, PathIsFree
<1>3. Typed'
  BY <1>0, <1>1, <1>2 DEF Typed
<1>4. OneMoves' /\ NoneServes'
  BY <1>0, <1>1, <1>2 DEF OneMoves, NoneServes, ServingIsReached
<1>5. ServingIsReached' /\ PathIsFree' /\ DeadDoNotBlock'
  BY <1>0, <1>1, <1>2, PidsAreReal DEF ServingIsReached, PathIsFree, DeadDoNotBlock, NoneServes, OneMoves, Typed, PidsAreReal
<1>6. ServedAsThemselves'
  BY <1>0, <1>1, <1>2, ClientsStay DEF Typed, ServedAsThemselves
<1> QED
  BY <1>3, <1>4, <1>5, <1>6 DEF IInv

\* WritePid: the one that serves from now on has the socket it made.
LEMMA WritePidKeeps ==
    ASSUME PidsAreReal, IInv, NEW p \in Pids, WritePid(p)
    PROVE  IInv'
<1> USE DEF At, May, Resting, Bystanders, Pcs
<1>0. Typed /\ OneMoves /\ NoneServes /\ ServingIsReached /\ PathIsFree /\ DeadDoNotBlock /\ ServedAsThemselves
  BY DEF IInv
<1>1. proc[p].pc = "write" /\ pidfile' \in {pidfile, Garbage, p} /\ UNCHANGED <<socket, dead, conns>>
  BY <1>0 DEF WritePid
<1>2. /\ proc' \in [Pids -> [pc : Pcs, others : SUBSET Pids]]
      /\ proc'[p].pc \in {"serving", "failed"} /\ (~May("fs") => proc'[p].pc = "serving") /\ (proc'[p].pc = "serving" => pidfile' = p) /\ \A q \in Pids \ {p} : proc'[q] = proc[q]
  BY <1>0, GoesFacts DEF WritePid
<1>3. Typed'
  BY <1>0, <1>1, <1>2 DEF Typed
<1>4. OneMoves' /\ NoneServes'
  BY <1>0, <1>1, <1>2 DEF OneMoves, NoneServes, ServingIsReached
<1>5. ServingIsReached' /\ PathIsFree' /\ DeadDoNotBlock'
  BY <1>0, <1>1, <1>2, PidsAreReal DEF ServingIsReached, PathIsFree, DeadDoNotBlock, NoneServes, OneMoves, Typed, PidsAreReal
<1>6. ServedAsThemselves'
  BY <1>0, <1>1, <1>2, ClientsStay DEF Typed, ServedAsThemselves
<1> QED
  BY <1>3, <1>4, <1>5, <1>6 DEF IInv

\* Exit: one that was refused, failed or closed leaves nothing more.
LEMMA ExitKeeps ==
    ASSUME PidsAreReal, IInv, NEW p \in Pids, Exit(p)
    PROVE  IInv'
<1> USE DEF At, May, Resting, Bystanders, Pcs
<1>0. Typed /\ OneMoves /\ NoneServes /\ ServingIsReached /\ PathIsFree /\ DeadDoNotBlock /\ ServedAsThemselves
  BY DEF IInv
<1>1. proc[p].pc \in {"refused", "failed", "closed"} /\ dead' = dead \cup {p} /\ UNCHANGED <<pidfile, socket, conns>>
  BY <1>0 DEF Exit
<1>2. /\ proc' \in [Pids -> [pc : Pcs, others : SUBSET Pids]]
      /\ proc'[p].pc = "gone" /\ \A q \in Pids \ {p} : proc'[q] = proc[q]
  BY <1>0, SetFacts, Zenon DEF Exit, Gone
<1>3. Typed'
  BY <1>0, <1>1, <1>2 DEF Typed
<1>4. OneMoves' /\ NoneServes'
  BY <1>0, <1>1, <1>2 DEF OneMoves, NoneServes, ServingIsReached
<1>5. ServingIsReached' /\ PathIsFree' /\ DeadDoNotBlock'
  BY <1>0, <1>1, <1>2, PidsAreReal DEF ServingIsReached, PathIsFree, DeadDoNotBlock, NoneServes, OneMoves, Typed, PidsAreReal
<1>6. ServedAsThemselves'
  BY <1>0, <1>1, <1>2, ClientsStay DEF Typed, ServedAsThemselves
<1> QED
  BY <1>3, <1>4, <1>5, <1>6 DEF IInv

\* Close: nothing serves from now on, and its clients are gone.
LEMMA CloseKeeps ==
    ASSUME PidsAreReal, IInv, NEW p \in Pids, Close(p)
    PROVE  IInv'
<1> USE DEF At, May, Resting, Bystanders, Pcs
<1>0. Typed /\ OneMoves /\ NoneServes /\ ServingIsReached /\ PathIsFree /\ DeadDoNotBlock /\ ServedAsThemselves
  BY DEF IInv
<1>1. /\ proc[p].pc = "serving" /\ socket' = None /\ UNCHANGED <<pidfile, dead>>
      /\ \A q \in Pids \ {p} : proc[q].pc \in Resting
  BY <1>0 DEF Close, Apart
<1>2. /\ proc' \in [Pids -> [pc : Pcs, others : SUBSET Pids]]
      /\ proc'[p].pc \in {"cleanPid"} /\ \A q \in Pids \ {p} : proc'[q] = proc[q]
  BY <1>0, GoesFacts DEF Close
<1>7. /\ DOMAIN conns' = Clients
      /\ \A c \in Clients : conns'[c] = NoConn \/ (conns'[c] = conns[c] /\ conns[c].with # p)
  BY <1>0, DropFacts DEF Close
<1>3. Typed'
  BY <1>0, <1>1, <1>2, <1>7 DEF Typed
<1>4. OneMoves' /\ NoneServes'
  BY <1>0, <1>1, <1>2 DEF OneMoves, NoneServes, ServingIsReached
<1>5. ServingIsReached' /\ PathIsFree' /\ DeadDoNotBlock'
  BY <1>0, <1>1, <1>2, PidsAreReal DEF ServingIsReached, PathIsFree, DeadDoNotBlock, NoneServes, OneMoves, Typed, PidsAreReal
<1>6. ServedAsThemselves'
  BY <1>0, <1>1, <1>2, <1>7, ClientsStay DEF Typed, ServedAsThemselves
<1> QED
  BY <1>3, <1>4, <1>5, <1>6 DEF IInv

\* cleanPidFile: no process serves that the file could be of.
LEMMA CleanPidKeeps ==
    ASSUME PidsAreReal, IInv, NEW p \in Pids, cleanPidFile(p)
    PROVE  IInv'
<1> USE DEF At, May, Resting, Bystanders, Pcs
<1>0. Typed /\ OneMoves /\ NoneServes /\ ServingIsReached /\ PathIsFree /\ DeadDoNotBlock /\ ServedAsThemselves
  BY DEF IInv
<1>1. proc[p].pc = "cleanPid" /\ pidfile' \in {None, pidfile} /\ UNCHANGED <<socket, dead, conns>>
  BY <1>0 DEF cleanPidFile
<1>2. /\ proc' \in [Pids -> [pc : Pcs, others : SUBSET Pids]]
      /\ proc'[p].pc \in {"removeSocket"} /\ \A q \in Pids \ {p} : proc'[q] = proc[q]
  BY <1>0, GoesFacts DEF cleanPidFile
<1>3. Typed'
  BY <1>0, <1>1, <1>2 DEF Typed
<1>4. OneMoves' /\ NoneServes'
  BY <1>0, <1>1, <1>2 DEF OneMoves, NoneServes, ServingIsReached
<1>5. ServingIsReached' /\ PathIsFree' /\ DeadDoNotBlock'
  BY <1>0, <1>1, <1>2, PidsAreReal DEF ServingIsReached, PathIsFree, DeadDoNotBlock, NoneServes, OneMoves, Typed, PidsAreReal
<1>6. ServedAsThemselves'
  BY <1>0, <1>1, <1>2, ClientsStay DEF Typed, ServedAsThemselves
<1> QED
  BY <1>3, <1>4, <1>5, <1>6 DEF IInv

\* RemoveSocket: no process serves that the path could be of.
LEMMA RemoveSocketKeeps ==
    ASSUME PidsAreReal, IInv, NEW p \in Pids, RemoveSocket(p)
    PROVE  IInv'
<1> USE DEF At, May, Resting, Bystanders, Pcs
<1>0. Typed /\ OneMoves /\ NoneServes /\ ServingIsReached /\ PathIsFree /\ DeadDoNotBlock /\ ServedAsThemselves
  BY DEF IInv
<1>1. proc[p].pc = "removeSocket" /\ socket' = None /\ UNCHANGED <<pidfile, dead, conns>>
  BY <1>0 DEF RemoveSocket
<1>2. /\ proc' \in [Pids -> [pc : Pcs, others : SUBSET Pids]]
      /\ proc'[p].pc \in {"closed"} /\ \A q \in Pids \ {p} : proc'[q] = proc[q]
  BY <1>0, GoesFacts DEF RemoveSocket
<1>3. Typed'
  BY <1>0, <1>1, <1>2 DEF Typed
<1>4. OneMoves' /\ NoneServes'
  BY <1>0, <1>1, <1>2 DEF OneMoves, NoneServes, ServingIsReached
<1>5. ServingIsReached' /\ PathIsFree' /\ DeadDoNotBlock'
  BY <1>0, <1>1, <1>2, PidsAreReal DEF ServingIsReached, PathIsFree, DeadDoNotBlock, NoneServes, OneMoves, Typed, PidsAreReal
<1>6. ServedAsThemselves'
  BY <1>0, <1>1, <1>2, ClientsStay, Zenon DEF Typed, ServedAsThemselves
<1> QED
  BY <1>3, <1>4, <1>5, <1>6 DEF IInv

\* Crash: a process may die at any point, and its files stay.
LEMMA CrashKeeps ==
    ASSUME PidsAreReal, IInv, NEW p \in Pids, Crash(p)
    PROVE  IInv'
<1> USE DEF At, May, Resting, Bystanders, Pcs
<1>0. Typed /\ OneMoves /\ NoneServes /\ ServingIsReached /\ PathIsFree /\ DeadDoNotBlock /\ ServedAsThemselves
  BY DEF IInv
<1>1. dead' = dead \cup {p} /\ UNCHANGED <<pidfile, socket>>
  BY <1>0 DEF Crash
<1>2. /\ proc' \in [Pids -> [pc : Pcs, others : SUBSET Pids]]
      /\ proc'[p].pc = "gone" /\ \A q \in Pids \ {p} : proc'[q] = proc[q]
  BY <1>0, SetFacts, Zenon DEF Crash, Gone
<1>7. /\ DOMAIN conns' = Clients
      /\ \A c \in Clients : conns'[c] = NoConn \/ (conns'[c] = conns[c] /\ conns[c].with # p)
  BY <1>0, DropFacts DEF Crash
<1>3. Typed'
  BY <1>0, <1>1, <1>2, <1>7 DEF Typed
<1>4. OneMoves' /\ NoneServes'
  BY <1>0, <1>1, <1>2 DEF OneMoves, NoneServes, ServingIsReached
<1>5. ServingIsReached' /\ PathIsFree' /\ DeadDoNotBlock'
  BY <1>0, <1>1, <1>2, PidsAreReal DEF ServingIsReached, PathIsFree, DeadDoNotBlock, NoneServes, OneMoves, Typed, PidsAreReal
<1>6. ServedAsThemselves'
  BY <1>0, <1>1, <1>2, <1>7, ClientsStay DEF Typed, ServedAsThemselves
<1> QED
  BY <1>3, <1>4, <1>5, <1>6 DEF IInv

\* ServerHandshake and Disconnects: who is served has been allowed, by the one at the path.
LEMMA ClientKeeps ==
    ASSUME PidsAreReal, IInv, NEW c \in Clients, ServerHandshake(c) \/ Disconnects(c)
    PROVE  IInv'
<1> USE DEF At, May, Resting, Bystanders, Pcs
<1>0. Typed /\ OneMoves /\ NoneServes /\ ServingIsReached /\ PathIsFree /\ DeadDoNotBlock /\ ServedAsThemselves
  BY DEF IInv
<1>1. UNCHANGED <<pidfile, socket, proc, dead>>
  BY DEF ServerHandshake, Disconnects
<1>2. /\ DOMAIN conns' = Clients /\ \A d \in Clients \ {c} : conns'[d] = conns[d]
      /\ \/ conns'[c] = NoConn
         \/ /\ socket # None /\ proc[socket].pc = "serving" /\ Authenticate(c)
            /\ conns'[c] = [with |-> socket, as |-> StringToUcred(c.uid)]
  <2>1. CASE ServerHandshake(c)
    BY <1>0, <2>1 DEF ServerHandshake, getUnixCreds, Typed
  <2>2. CASE Disconnects(c)
    BY <1>0, <2>2 DEF Disconnects, Typed
  <2> QED
    BY <2>1, <2>2
<1>3. Typed'
  BY <1>0, <1>1, <1>2 DEF Typed
<1>4. OneMoves' /\ NoneServes' /\ ServingIsReached' /\ PathIsFree' /\ DeadDoNotBlock'
  BY <1>0, <1>1 DEF OneMoves, NoneServes, ServingIsReached, PathIsFree, DeadDoNotBlock
<1>5. ASSUME NEW d \in Clients, conns'[d] # NoConn
      PROVE  /\ proc'[conns'[d].with].pc = "serving"
             /\ d.uid = 0 \/ (d.known /\ "nordvpn" \in d.groups /\ Owner \in {Anyone, d.uid})
             /\ d.uid <= MaxUid => conns'[d].as = d.uid
  <2>1. CASE d # c
    BY <1>0, <1>1, <1>2, <1>5, <2>1 DEF ServedAsThemselves
  <2>2. CASE d = c
    BY <1>1, <1>2, <1>5, <2>2 DEF Authenticate, isInAllowedGroup, StringToUcred
  <2> QED
    BY <2>1, <2>2
<1>6. ServedAsThemselves'
  BY <1>5 DEF ServedAsThemselves
<1> QED
  BY <1>3, <1>4, <1>6 DEF IInv

\* Every step, and none, keeps the invariant.
LEMMA NextKeeps ==
    ASSUME PidsAreReal, IInv, [Next]_vars
    PROVE  IInv'
<1>1. CASE UNCHANGED vars
  BY <1>1 DEF vars, IInv, Typed, OneMoves, NoneServes, ServingIsReached, PathIsFree, DeadDoNotBlock, ServedAsThemselves, At
<1>2. ASSUME NEW p \in Pids,
             Start(p) \/ checkPidFile(p) \/ CleanSocket(p) \/ Listen(p) \/ WritePid(p) \/ Exit(p)
             \/ Close(p) \/ cleanPidFile(p) \/ RemoveSocket(p) \/ Crash(p)
      PROVE  IInv'
  BY <1>2, StartKeeps, CheckKeeps, CleanSocketKeeps, ListenKeeps, WritePidKeeps, ExitKeeps, CloseKeeps, CleanPidKeeps,
     RemoveSocketKeeps, CrashKeeps
<1>3. ASSUME NEW c \in Clients, ServerHandshake(c) \/ Disconnects(c)
      PROVE  IInv'
  BY <1>3, ClientKeeps
<1> QED
  BY <1>1, <1>2, <1>3 DEF Next

\* It holds at first.
LEMMA InitHolds ==
    ASSUME PidsAreReal, Init
    PROVE  IInv
BY DEF Init, IInv, Typed, OneMoves, NoneServes, ServingIsReached, PathIsFree, DeadDoNotBlock, ServedAsThemselves, At, Gone,
   NoConn, Pcs, Resting, Bystanders, May, PidsAreReal

\* And so always.
LEMMA Invariant ==
    ASSUME PidsAreReal
    PROVE  Spec => []IInv
<1>1. Init => IInv
  BY InitHolds
<1>2. IInv /\ [Next]_vars => IInv'
  BY NextKeeps
<1> QED
  BY <1>1, <1>2, PTL DEF Spec

\* ManualListenerIfNotInUse, checkPidFile and Authenticate: one process serves at a time, which
\* has the socket and the pid file; what dead processes left stops no start when files can be
\* removed; and who is served is allowed to be and taken for who they are.  Whatever processes
\* die, and whatever pids are used again.
THEOREM OneDaemonServes ==
    ASSUME PidsAreReal
    PROVE  Spec => [](ListenerTypeOK /\ ServingIsReached /\ DeadDoNotBlock /\ ServedAsThemselves)
<1>1. IInv => ListenerTypeOK /\ ServingIsReached /\ DeadDoNotBlock /\ ServedAsThemselves
  BY DEF IInv, ListenerTypeOK, Typed, Pcs, NoConn
<1> QED
  BY <1>1, Invariant, PTL

-----------------------------------------------------------------------------
\* Of the steps of processes that are not reused, each keeps who has died and who is named.
LEMMA RefusalKeeps ==
    ASSUME PidsAreReal, "reuse" \notin Faults, IInv, RInv, Next
    PROVE  RInv'
<1> USE DEF At, May, Resting, Pcs
<1>0. Typed /\ OneMoves /\ DeadAreGone /\ FileNames /\ RefusedForAnother /\ ServingIsReached
  BY DEF IInv, RInv
<1>a. ASSUME NEW p \in Pids, proc[p].pc \notin {"gone", "serving", "cleanPid", "removeSocket", "closed"}
      PROVE  p # pidfile /\ p \notin dead
  BY <1>0, <1>a DEF DeadAreGone, FileNames
<1>1. ASSUME NEW p \in Pids, Start(p)
      PROVE  RInv'
  <2>1. proc[p].pc = "gone" /\ p \notin dead /\ UNCHANGED <<pidfile, socket, dead, conns>>
    BY <1>1 DEF Start
  <2>2. proc'[p].pc = "check" /\ \A q \in Pids \ {p} : proc'[q] = proc[q]
    BY <1>0, <1>1, GoesFacts DEF Start
  <2> QED
    BY <1>0, <2>1, <2>2 DEF RInv, DeadAreGone, FileNames, RefusedForAnother, Typed
<1>2. ASSUME NEW p \in Pids, checkPidFile(p)
      PROVE  RInv'
  <2>1. proc[p].pc = "check" /\ UNCHANGED dead
    BY <1>2 DEF checkPidFile
  <2>2. CASE pidfile \in Running /\ proc' = [proc EXCEPT ![p] = [pc |-> "refused", others |-> Running \ {p}]] /\ UNCHANGED pidfile
    <3>1. [pc |-> "refused", others |-> Running \ {p}] \in [pc : Pcs, others : SUBSET Pids]
      BY DEF Running
    <3>2. proc'[p] = [pc |-> "refused", others |-> Running \ {p}] /\ \A q \in Pids \ {p} : proc'[q] = proc[q]
      BY <1>0, <2>2, <3>1, SetFacts, Zenon
    <3>3. pidfile \in Running \ {p}
      BY <1>a, <2>1, <2>2
    <3> QED
      BY <1>0, <1>a, <2>1, <2>2, <3>2, <3>3 DEF RInv, DeadAreGone, FileNames, RefusedForAnother, Typed
  <2>3. CASE (Goes(p, "failed") \/ Goes(p, "clean")) /\ pidfile' \in {None, pidfile}
    <3>1. proc'[p].pc \in {"failed", "clean"} /\ \A q \in Pids \ {p} : proc'[q] = proc[q]
      BY <1>0, <2>3, GoesFacts
    <3> QED
      BY <1>0, <1>a, <2>1, <2>3, <3>1 DEF RInv, DeadAreGone, FileNames, RefusedForAnother, Typed, PidsAreReal
  <2> QED
    BY <1>2, <2>2, <2>3 DEF checkPidFile
<1>3. ASSUME NEW p \in Pids, CleanSocket(p) \/ Listen(p) \/ WritePid(p)
      PROVE  RInv'
  <2>1. /\ proc[p].pc \in {"clean", "listen", "write"} /\ UNCHANGED dead
        /\ \E pc \in {"listen", "write", "failed", "serving"} : Goes(p, pc) /\ (pidfile' \in {pidfile, Garbage} \/ (pidfile' = p /\ pc = "serving"))
    BY <1>3 DEF CleanSocket, Listen, WritePid
  <2>2. PICK pc \in {"listen", "write", "failed", "serving"} : Goes(p, pc) /\ (pidfile' \in {pidfile, Garbage} \/ (pidfile' = p /\ pc = "serving"))
    BY <2>1
  <2>3. proc'[p].pc = pc /\ \A q \in Pids \ {p} : proc'[q] = proc[q]
    BY <1>0, <2>2, GoesFacts
  <2> QED
    BY <1>0, <1>a, <2>1, <2>2, <2>3 DEF RInv, DeadAreGone, FileNames, RefusedForAnother, Typed, PidsAreReal
<1>4. ASSUME NEW p \in Pids, Close(p) \/ cleanPidFile(p) \/ RemoveSocket(p)
      PROVE  RInv'
  <2>1. /\ proc[p].pc \in {"serving", "cleanPid", "removeSocket"} /\ UNCHANGED dead /\ pidfile' \in {None, pidfile}
        /\ \E pc \in {"cleanPid", "removeSocket", "closed"} : Goes(p, pc)
    BY <1>4 DEF Close, cleanPidFile, RemoveSocket
  <2>2. proc'[p].pc \in {"cleanPid", "removeSocket", "closed"} /\ \A q \in Pids \ {p} : proc'[q] = proc[q]
    BY <1>0, <2>1, GoesFacts
  <2> QED
    BY <1>0, <2>1, <2>2 DEF RInv, DeadAreGone, FileNames, RefusedForAnother, Typed, PidsAreReal
<1>5. ASSUME NEW p \in Pids, Exit(p) \/ Crash(p)
      PROVE  RInv'
  <2>1. dead' = dead \cup {p} /\ UNCHANGED pidfile /\ proc' = [proc EXCEPT ![p] = Gone]
    BY <1>5 DEF Exit, Crash
  <2>2. proc'[p].pc = "gone" /\ \A q \in Pids \ {p} : proc'[q] = proc[q]
    BY <1>0, <2>1, SetFacts, Zenon DEF Gone
  <2> QED
    BY <1>0, <2>1, <2>2 DEF RInv, DeadAreGone, FileNames, RefusedForAnother, Typed
<1>6. ASSUME NEW c \in Clients, ServerHandshake(c) \/ Disconnects(c)
      PROVE  RInv'
  <2>1. UNCHANGED <<pidfile, proc, dead>>
    BY <1>6 DEF ServerHandshake, Disconnects
  <2> QED
    BY <1>0, <2>1 DEF RInv, DeadAreGone, FileNames, RefusedForAnother
<1> QED
  BY <1>1, <1>2, <1>3, <1>4, <1>5, <1>6 DEF Next

\* checkPidFile: a process says that the daemon is already running only when another was, as
\* long as no pid is used again.
THEOREM RefusedWhileAnotherRuns ==
    ASSUME PidsAreReal, "reuse" \notin Faults
    PROVE  Spec => []RefusedForAnother
<1>1. Init => RInv
  BY DEF Init, RInv, DeadAreGone, FileNames, RefusedForAnother, At, Gone, PidsAreReal
<1>2. IInv /\ RInv /\ [Next]_vars => RInv'
  <2>1. ASSUME RInv, UNCHANGED vars PROVE RInv'
    BY <2>1 DEF vars, RInv, DeadAreGone, FileNames, RefusedForAnother, At
  <2> QED
    BY <2>1, RefusalKeeps
<1>3. RInv => RefusedForAnother
  BY DEF RInv
<1> QED
  BY <1>1, <1>2, <1>3, Invariant, PTL DEF Spec
=============================================================================
