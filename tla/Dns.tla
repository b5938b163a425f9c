-------------------------------- MODULE Dns --------------------------------
(***************************************************************************)
(* The host's name resolution (daemon/dns): DefaultSetter tries four       *)
(* methods in order (systemd-resolved over D-Bus, resolvectl, resolvconf,  *)
(* /etc/resolv.conf itself) both to set and to unset, and forgets which of *)
(* them did the work.  The last one keeps a backup of the user's file and  *)
(* makes its own immutable.  HostsFileSetter keeps the meshnet names in    *)
(* /etc/hosts.                                                             *)
(*                                                                         *)
(* The networker calls these under its lock, so a call is one step; what   *)
(* it does to the host is a sequence of effects, and the daemon may die    *)
(* after any of them (left).  A write is two effects, the truncation and   *)
(* the text.  A command in fail does not run.                              *)
(***************************************************************************)
EXTENDS Sequences, SequencesExt, FiniteSets, Integers

CONSTANTS Nameservers,  \* lists of nameservers the daemon may set
          Texts,        \* what the user may have in resolv.conf
          Peers,        \* meshnet names
          Services,     \* installed: "resolved", "resolvectl", "resolvconf", "chattr"
          Symlink,      \* /etc/resolv.conf is a symbolic link
          Faults,       \* "command", "crash", "edit" (resolv.conf edited while set)
          MaxFaults     \* bound: commands that fail and crashes

VARIABLES host,   \* [file, backup, link, others, conf, hosts]: the machine
          user,   \* what the user last wrote: [text]
          set,    \* the nameservers the networker has set, or "none"
          told,   \* the meshnet names it has set
          alive,  \* the daemon runs
          ret,    \* the last call: [op, err]
          faults  \* how many faults there have been

vars == <<host, user, set, told, alive, ret, faults>>

Enough == 30   \* more effects than any call has
OwnLine == "localhost"

\* os calls and commands on a copy of the host, until the daemon dies.
Effect(st, F(_)) == IF st.left = 0 THEN st ELSE F([st EXCEPT !.left = @ - 1])
Fails(st, cmd) == cmd \in st.fail
Begin(left, fail) == [h |-> host, left |-> left, fail |-> fail, err |-> FALSE]
Call(st, service, cmd, F(_)) ==
    IF st.err THEN st
    ELSE IF service \notin Services \/ Fails(st, cmd) THEN [st EXCEPT !.err = TRUE]
    ELSE Effect(st, F)
\* A command whose error is only logged.
Try(st, service, cmd, F(_)) == [Call(st, service, cmd, F) EXCEPT !.err = st.err]

----------------------------------------------------------------------------
\* systemd-resolved, over busctl
NoLink == [dns |-> "none", domain |-> FALSE, route |-> FALSE]

setDNSWithSystemdResolve(st, ns) ==
    LET c1 == Call(st, "resolved", "SetLinkDNS", LAMBDA s : [s EXCEPT !.h.link.dns = ns])
        c2 == Call(c1, "resolved", "SetLinkDomains", LAMBDA s : [s EXCEPT !.h.link.domain = TRUE])
        c3 == Call(c2, "resolved", "SetLinkDefaultRoute", LAMBDA s : [s EXCEPT !.h.link.route = TRUE])
        c4 == Call(c3, "resolved", "SetLinkDNSSEC", LAMBDA s : s)
        c5 == Call(c4, "resolved", "other links", LAMBDA s : [s EXCEPT !.h.others = FALSE])
    IN  Call(c5, "resolved", "FlushCaches", LAMBDA s : s)

unsetDNSWithSystemdResolve(st) ==
    LET c1 == Call(st, "resolved", "RevertLink", LAMBDA s : [s EXCEPT !.h.link = NoLink])
    IN  Call(c1, "resolved", "FlushCaches", LAMBDA s : s)

\* The resolvectl command: only its first call is checked.
setDNSWithResolvectl(st, ns) ==
    LET c1 == Call(st, "resolvectl", "resolvectl dns", LAMBDA s : [s EXCEPT !.h.link.dns = ns])
    IN  IF c1.err THEN c1
        ELSE Try(Try(c1, "resolvectl", "resolvectl domain", LAMBDA s : [s EXCEPT !.h.link.domain = TRUE]),
                 "resolvectl", "resolvectl route", LAMBDA s : [s EXCEPT !.h.link.route = TRUE])

unsetDNSWithResolvectl(st) ==
    LET c1 == Call(st, "resolvectl", "resolvectl dns", LAMBDA s : [s EXCEPT !.h.link.dns = "none"])
    IN  IF c1.err THEN c1
        ELSE Try(Try(c1, "resolvectl", "resolvectl domain", LAMBDA s : [s EXCEPT !.h.link.domain = FALSE]),
                 "resolvectl", "resolvectl route", LAMBDA s : [s EXCEPT !.h.link.route = FALSE])

\* The resolvconf command: a record per interface.
setDNSWithResolvconf(st, ns) == Call(st, "resolvconf", "resolvconf -a", LAMBDA s : [s EXCEPT !.h.conf = ns])
unsetDNSWithResolvconf(st) == Call(st, "resolvconf", "resolvconf -d", LAMBDA s : [s EXCEPT !.h.conf = "none"])

----------------------------------------------------------------------------
\* /etc/resolv.conf
Marked(text) == text \in Nameservers
FileExists(st) == st.h.file.text # "gone"

FileLock(st) == Try(st, "chattr", "chattr +i", LAMBDA s : IF FileExists(s) THEN [s EXCEPT !.h.file.locked = TRUE] ELSE s)
FileUnlock(st) == Try(st, "chattr", "chattr -i", LAMBDA s : [s EXCEPT !.h.file.locked = FALSE])

\* An immutable file cannot be opened for writing.
FileWrite(st, text) ==
    IF st.err THEN st
    ELSE IF st.h.file.locked THEN [st EXCEPT !.err = TRUE]
    ELSE Effect(Effect(st, LAMBDA s : [s EXCEPT !.h.file.text = "empty"]), LAMBDA s : [s EXCEPT !.h.file.text = text])

\* Mutant: the backup is made anew by every call.
backupDNSMutant(st) ==
    IF ~FileExists(st) THEN [st EXCEPT !.err = TRUE]
    ELSE LET text == st.h.file.text
         IN  Effect(Effect(st, LAMBDA s : [s EXCEPT !.h.backup = "empty"]), LAMBDA s : [s EXCEPT !.h.backup = text])

backupDNS(st) ==
    IF st.h.backup # "none" THEN st
    ELSE IF ~FileExists(st) THEN [st EXCEPT !.err = TRUE]
    ELSE LET text == st.h.file.text
         IN  Effect(Effect(st, LAMBDA s : [s EXCEPT !.h.backup = "empty"]), LAMBDA s : [s EXCEPT !.h.backup = text])

resetDNSinResolvconfFile(st, ns) ==
    LET written == FileWrite(FileUnlock(st), ns)
    IN  [FileLock([written EXCEPT !.err = FALSE]) EXCEPT !.err = written.err]

\* A file the user has made immutable or read-only is respected.
Respected(file) == file.text # "gone" /\ ((~Marked(file.text) /\ file.locked) \/ ~file.writable)

setDNSinResolvconfFile(st, ns) ==
    IF Respected(st.h.file) THEN st
    ELSE LET saved == backupDNS(st)
         IN  IF saved.err THEN saved ELSE resetDNSinResolvconfFile(saved, ns)

restoreFromBackup(st) ==
    LET backup == st.h.backup
        deleted == Effect(st, LAMBDA s : [s EXCEPT !.h.backup = "none"])
    IN  IF backup = "none" THEN [st EXCEPT !.err = TRUE]
        ELSE IF Marked(backup) THEN [deleted EXCEPT !.err = TRUE]
        ELSE FileWrite(deleted, backup)

\* A resolver on 127.0.0.53, the gateway, or 1.1.1.1; an error is only logged.
restoreWithSimpleSettings(st) == [FileWrite(st, "simple") EXCEPT !.err = FALSE]

restoreDNS(st) ==
    LET restored == restoreFromBackup(st)
    IN  IF restored.err THEN restoreWithSimpleSettings([restored EXCEPT !.err = FALSE]) ELSE restored

unsetDNSinResolvconfFile(st) ==
    IF ~FileExists(st) THEN [st EXCEPT !.err = TRUE]
    ELSE IF Marked(st.h.file.text) THEN restoreDNS(FileUnlock(st))
    ELSE st

tryToRestoreDNS(st) ==
    IF Symlink \/ ~FileExists(st) \/ ~Marked(st.h.file.text) THEN st
    ELSE restoreDNS(FileUnlock(st))

----------------------------------------------------------------------------
\* DefaultSetter
Methods == <<"resolved", "resolvectl", "resolvconf", "file">>

MethodSet(st, ns, method) ==
    CASE method = "resolved" -> setDNSWithSystemdResolve(st, ns)
      [] method = "resolvectl" -> setDNSWithResolvectl(st, ns)
      [] method = "resolvconf" -> setDNSWithResolvconf(st, ns)
      [] OTHER -> setDNSinResolvconfFile(st, ns)

MethodUnset(st, method) ==
    CASE method = "resolved" -> unsetDNSWithSystemdResolve(st)
      [] method = "resolvectl" -> unsetDNSWithResolvectl(st)
      [] method = "resolvconf" -> unsetDNSWithResolvconf(st)
      [] OTHER -> unsetDNSinResolvconfFile(st)

\* The first method that returns no error; what the others did before they
\* failed stays.
FirstThat(st, Run(_, _)) ==
    FoldLeft(LAMBDA s, method : IF ~s.err THEN s ELSE Run([s EXCEPT !.err = FALSE], method),
             [st EXCEPT !.err = TRUE], Methods)

SetWith(st, ns) == FirstThat(st, LAMBDA s, method : MethodSet(s, ns, method))
UnsetWith(st) == [FirstThat(st, MethodUnset) EXCEPT !.err = FALSE]

----------------------------------------------------------------------------
\* /etc/hosts, a sequence of lines
Ours(line) == line \in Peers
removeHostLinesFrom(lines) == SelectSeq(lines, LAMBDA line : ~Ours(line))
setHostLines(lines, names) == removeHostLinesFrom(lines) \o SetToSeq(names)

\* openReadAndTruncateFile, then the write.
RewriteHosts(st, lines) ==
    Effect(Effect(st, LAMBDA s : [s EXCEPT !.h.hosts = <<>>]), LAMBDA s : [s EXCEPT !.h.hosts = lines])

----------------------------------------------------------------------------
\* Steps

Commands == {"SetLinkDNS", "SetLinkDomains", "other links", "FlushCaches", "RevertLink", "resolvectl dns",
             "resolvectl domain", "resolvconf -a", "resolvconf -d", "chattr +i", "chattr -i"}
Failing == IF "command" \in Faults /\ faults < MaxFaults THEN {{}} \cup {{cmd} : cmd \in Commands} ELSE {{}}
Lasts(st) == IF "crash" \in Faults /\ faults < MaxFaults THEN 0..(Enough - st.left) ELSE {}

\* The call runs to its end, or the daemon dies after some of its effects.
Perform(op, Run(_)) ==
    \/ \E fail \in Failing :
          LET st == Run(Begin(Enough, fail))
          IN  /\ host' = st.h /\ ret' = [op |-> op, err |-> st.err]
              /\ faults' = faults + Cardinality(fail) /\ alive' = alive
    \/ \E k \in Lasts(Run(Begin(Enough, {}))) :
          /\ host' = Run(Begin(k, {})).h /\ ret' = [op |-> "crash", err |-> TRUE]
          /\ faults' = faults + 1 /\ alive' = FALSE

Set(ns) ==
    /\ alive
    /\ Perform("Set", LAMBDA st : SetWith(st, ns))
    /\ set' = IF ret'.err THEN set ELSE ns
    /\ UNCHANGED <<user, told>>

\* Without a tunnel interface nothing is unset.
Unset ==
    /\ alive /\ (set # "none" \/ ret.op = "Set")
    /\ Perform("Unset", UnsetWith)
    /\ set' = "none"
    /\ UNCHANGED <<user, told>>

SetHosts(names) ==
    /\ alive
    /\ Perform("SetHosts", LAMBDA st : RewriteHosts(st, setHostLines(st.h.hosts, names)))
    /\ told' = IF alive' THEN names ELSE told
    /\ UNCHANGED <<user, set>>

UnsetHosts ==
    /\ alive
    /\ Perform("SetHosts", LAMBDA st : RewriteHosts(st, removeHostLinesFrom(st.h.hosts)))
    /\ told' = IF alive' THEN {} ELSE told
    /\ UNCHANGED <<user, set>>

\* RestoreResolvConfFile is called when the daemon starts; the tunnel's link
\* may have gone with the process.
Start ==
    /\ ~alive
    /\ \E st \in {tryToRestoreDNS(Begin(Enough, {}))}, kept \in BOOLEAN :
          host' = IF kept THEN st.h ELSE [st.h EXCEPT !.link = NoLink]
    /\ alive' = TRUE /\ set' = "none" /\ ret' = [op |-> "Start", err |-> FALSE]
    /\ UNCHANGED <<user, told, faults>>

\* The user, or another program, writes resolv.conf: a file the daemon has
\* made immutable only after unlocking it.
UserWrites(text, locked, writable) ==
    /\ \/ set = "none" /\ alive /\ ~Marked(host.file.text)
       \/ "edit" \in Faults /\ faults < MaxFaults
    /\ faults' = IF set = "none" /\ alive THEN faults ELSE faults + 1
    /\ (text = "gone") => (writable /\ ~locked)
    /\ host' = [host EXCEPT !.file = [text |-> text, locked |-> locked, writable |-> writable]]
    /\ user' = [user EXCEPT !.text = text]
    /\ UNCHANGED <<set, told, alive, ret>>

Init ==
    /\ \E text \in Texts :
          /\ host = [file |-> [text |-> text, locked |-> FALSE, writable |-> TRUE], backup |-> "none",
                     link |-> NoLink, others |-> TRUE, conf |-> "none", hosts |-> <<OwnLine>>]
          /\ user = [text |-> text]
    /\ set = "none" /\ told = {} /\ alive = TRUE /\ faults = 0
    /\ ret = [op |-> "Start", err |-> FALSE]

Next ==
    \/ \E ns \in Nameservers : Set(ns)
    \/ Unset
    \/ \E names \in SUBSET Peers : SetHosts(names)
    \/ UnsetHosts
    \/ Start
    \/ \E text \in Texts, locked, writable \in BOOLEAN : UserWrites(text, locked, writable)

Spec == Init /\ [][Next]_vars

----------------------------------------------------------------------------
Contents == Texts \cup Nameservers \cup {"simple", "empty"}

\* The types of the variables.
DnsTypeOK ==
    /\ host.file \in [text : Contents, locked : BOOLEAN, writable : BOOLEAN]
    /\ host.backup \in Contents \cup {"none"}
    /\ host.link \in [dns : Nameservers \cup {"none"}, domain : BOOLEAN, route : BOOLEAN]
    /\ host.others \in BOOLEAN /\ host.conf \in Nameservers \cup {"none"}
    /\ host.hosts \in Seq(Peers \cup {OwnLine})
    /\ user.text \in Texts /\ set \in Nameservers \cup {"none"} /\ told \subseteq Peers
    /\ alive \in BOOLEAN /\ faults \in 0..MaxFaults

\* Once the DNS is unset, resolv.conf is what the user last had there, however
\* often the nameservers were changed in between ("Backup is not overridden, so
\* its safe to call this function multiple times in a row").  For a daemon that
\* has not died, a file nobody else edits while it is set and commands that do
\* not fail: after one failing 'resolvconf -a' Set falls back to the file, and
\* Unset, whose 'resolvconf -d' succeeds, leaves it with the daemon's text,
\* although its comment says that it restores the backup.
UsersFileComesBack ==
    (set = "none" /\ faults = 0) => host.file.text = user.text /\ host.backup = "none"

\* When Set returns no error, some method answers with the nameservers asked
\* for, or the user's own file is one the daemon must not touch
\* (DefaultSetter.Set falls back from method to method).
SetMeansSet ==
    (ret = [op |-> "Set", err |-> FALSE]) =>
        \/ host.link = [dns |-> set, domain |-> TRUE, route |-> TRUE] \/ host.conf = set
        \/ host.link.dns = set /\ "resolvectl" \in Services
        \/ host.file.text = set \/ Respected(host.file)

\* Wherever the daemon died, once it runs again resolv.conf is not its own
\* file: tryToRestoreDNS puts the backup or simple settings there.
NotOursAfterStart ==
    (alive /\ set = "none" /\ ret.op = "Start") => ~Marked(host.file.text)

\* After a call that returned, /etc/hosts has the names it was given once each
\* and, unless the daemon died in a rewrite, the user's lines as they were.
HostsAsTold ==
    /\ (alive /\ ret.op = "SetHosts") =>
           /\ SelectSeq(host.hosts, Ours) = SetToSeq(told)
           /\ faults = 0 => removeHostLinesFrom(host.hosts) = <<OwnLine>>
=============================================================================
