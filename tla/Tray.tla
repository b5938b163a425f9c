-------------------------------- MODULE Tray --------------------------------
(* The tray icon: a monitor that polls the daemon, the menu that is drawn    *)
(* again when something changed, and the items of the menu, each with a      *)
(* goroutine that waits for a click.                                         *)
EXTENDS Naturals, Sequences, SequencesExt, FiniteSets

CONSTANTS
    Accounts, Hosts,   \* of the users and the servers
    Stored,            \* what the settings may be at first
    Clicks,            \* the items that are clicked
    MaxCalls,          \* how many of them call at a time
    Faults             \* what may happen: "cli", "settings", "daemon", "update", "race", "config", "api", "slow", "call",
                       \* "exit"

VARIABLES
    daemon,    \* what the daemon would answer
    ti,        \* the state of the tray
    cache,     \* the account info of the last 24 hours
    poll,      \* the monitor: where it is, whether this is a full update, whether the daemon changed since it began
    menu,      \* the goroutine that draws, what it has drawn, and whether it missed a wake-up since
    item,      \* the items of the menu
    calls,     \* the items whose goroutine makes a call, or tells the monitor of one
    notes      \* the notifications of the last step

vars == <<daemon, ti, cache, poll, menu, item, calls, notes>>

None == "none"
May(fault) == fault \in Faults
Items == {"Disconnect", "Quick Connect", "Log out", "Log in", "Notifications", "Tray icon", "Quit"}
NoPayload == [type |-> None, name |-> None]
NoCache == [kept |-> FALSE, payload |-> NoPayload]
NoAnswer == [status |-> None, host |-> None]
NoSettings == [drawn |-> "no", notifications |-> None, tray |-> None]
Flag(b) == IF b THEN "enabled" ELSE "disabled"

\* The sections of a menu drawn now, each with the item that can be clicked
addVpnSection(t) ==
    CASE ~(t.available /\ t.loggedIn) -> [status |-> None, host |-> None, item |-> None]
      [] t.status = "Connected" -> [status |-> t.status, host |-> t.host, item |-> "Disconnect"]
      [] OTHER -> [status |-> t.status, host |-> None, item |-> "Quick Connect"]
addAccountSection(t) ==
    CASE ~t.available -> [name |-> None, item |-> None]
      [] t.loggedIn -> [name |-> t.account, item |-> "Log out"]
      [] OTHER -> [name |-> None, item |-> "Log in"]
addDaemonErrorSection(t) == t.error
View(t) == [error |-> addDaemonErrorSection(t), vpn |-> addVpnSection(t), account |-> addAccountSection(t)]

Init ==
    /\ daemon \in [up : {TRUE}, user : {None} \cup Accounts, host : {None}, notify : Stored, tray : Stored, newer : {FALSE}]
    /\ ti = [available |-> FALSE, error |-> None, loggedIn |-> FALSE, active |-> FALSE, account |-> None, notifications |-> "invalid",
             trayStatus |-> "invalid", status |-> "Disconnected", host |-> None, running |-> FALSE, icon |-> None, bus |-> FALSE]
    /\ cache = NoCache
    /\ poll = [pc |-> "ping", full |-> TRUE, clean |-> TRUE, told |-> FALSE, changed |-> FALSE, answer |-> NoAnswer]
    /\ menu = [pc |-> "off", shows |-> View(ti), settings |-> NoSettings, missed |-> FALSE]
    /\ item = [i \in Items |-> "closed"]
    /\ calls = [i \in Items |-> None]
    /\ notes = <<>>

-----------------------------------------------------------------------------
(* Notifications.                                                            *)

NotifierStarts ==
    /\ ~ti.bus
    /\ ti' = [ti EXCEPT !.bus = TRUE]
    /\ notes' = <<>>
    /\ UNCHANGED <<daemon, cache, poll, menu, item, calls>>

Note(kind, about) == [kind |-> kind, about |-> about, force |-> FALSE]
\* sendNotification, for what notify and notifyForce are given, in the state t
Sent(t, ns) == SelectSeq(ns, LAMBDA n : t.bus /\ (n.force \/ t.notifications = "enabled"))

-----------------------------------------------------------------------------
(* What the monitor makes of an answer: the new state, whether it changed and *)
(* what is notified.                                                          *)

Result(t, changed, ns) == [ti |-> t, changed |-> changed, notes |-> ns]

updateDaemonConnectionStatus(t, error) ==
    LET available == error \in {None, "update"}
        u == [t EXCEPT !.available = available, !.error = error]
    IN Result(u, u # t, IF t.available = available THEN <<>> ELSE <<Note(IF available THEN "reconnected" ELSE "no daemon", None)>>)

\* The name is taken before the new server is stored.
setVpnStatusMutant(t, status, host) ==
    LET u == [t EXCEPT !.status = status, !.host = host,
                       !.icon = IF t.status # status /\ t.running THEN (IF status = "Connected" THEN "blue" ELSE "white") ELSE @]
        ns == (IF t.status = status THEN <<>> ELSE <<Note(IF status = "Connected" THEN "connected" ELSE "disconnected", t.host)>>)
              \o (IF t.host # host /\ None \notin {t.host, host} THEN <<Note("connected", t.host)>> ELSE <<>>)
    IN Result(u, t.status # status \/ t.host # host, ns)

\* The name of a disconnection is taken before, that of a connection after
setVpnStatus(t, status, host) ==
    LET u == [t EXCEPT !.status = status, !.host = host,
                       !.icon = IF t.status # status /\ t.running THEN (IF status = "Connected" THEN "blue" ELSE "white") ELSE @]
        ns == (IF t.status = status THEN <<>> ELSE <<IF status = "Connected" THEN Note("connected", host) ELSE Note("disconnected", t.host)>>)
              \o (IF t.host # host /\ None \notin {t.host, host} THEN <<Note("connected", host)>> ELSE <<>>)
    IN Result(u, t.status # status \/ t.host # host, ns)

\* The connection of before is left in the state.
LoginStatusMutant(t, loggedIn) ==
    CASE ~t.loggedIn /\ loggedIn -> Result([t EXCEPT !.loggedIn = TRUE], TRUE, <<Note("logged in", None)>>)
      [] t.loggedIn /\ ~loggedIn -> Result([t EXCEPT !.loggedIn = FALSE, !.account = None], TRUE, <<Note("logged out", None)>>)
      [] OTHER -> Result(t, FALSE, <<>>)

LoginStatus(t, loggedIn) ==
    CASE ~t.loggedIn /\ loggedIn -> Result([t EXCEPT !.loggedIn = TRUE], TRUE, <<Note("logged in", None)>>)
      [] t.loggedIn /\ ~loggedIn ->
            LET v == IF t.status = "Connected" THEN setVpnStatus(t, "Disconnected", None) ELSE Result(t, FALSE, <<>>)
            IN Result([v.ti EXCEPT !.loggedIn = FALSE, !.account = None], TRUE, v.notes \o <<Note("logged out", None)>>)
      [] OTHER -> Result(t, FALSE, <<>>)

\* A change of the notifications alone does not draw the menu again.
SettingsResultMutant(t, notify, tray) ==
    LET u == [t EXCEPT !.notifications = notify, !.trayStatus = tray]
    IN Result(u, t.trayStatus # tray,
              IF t.notifications \in {"invalid", notify} THEN <<>> ELSE <<[kind |-> "notifications", about |-> notify, force |-> TRUE]>>)

SettingsResult(t, notify, tray) ==
    LET u == [t EXCEPT !.notifications = notify, !.trayStatus = tray]
    IN Result(u, u # t,
              IF t.notifications \in {"invalid", notify} THEN <<>> ELSE <<[kind |-> "notifications", about |-> notify, force |-> TRUE]>>)

\* The name of the account, and whether it may use the VPN, when that is known
AccountResult(t, payload) ==
    LET u == [t EXCEPT !.account = payload.name,
                       !.active = payload.type = "success" \/ (@ /\ payload.type # "no service")]
    IN Result(u, u # t, <<>>)

-----------------------------------------------------------------------------
(* The monitor.                                                              *)

\* redraw: nobody who waits for it, no redraw; a menu that is about to be drawn needs none
redraw(changed) ==
    menu' = CASE changed /\ menu.pc = "waiting" -> [menu EXCEPT !.pc = "reset"]
              [] changed /\ menu.pc = "drawn" -> [menu EXCEPT !.missed = TRUE]
              [] OTHER -> menu

\* Drawing takes less time than a call of the daemon, unless it is "slow".
Drawn == May("slow") \/ menu.pc \notin {"reset", "drawn"}

\* One call of the monitor and what becomes of its answer, then the next place
Step(r, next) ==
    /\ ti' = r.ti
    /\ notes' = Sent(r.ti, r.notes)
    /\ poll' = [poll EXCEPT !.pc = next, !.changed = FALSE]
    /\ redraw(r.changed)
    /\ UNCHANGED <<item, calls>>

\* Ping of the daemon, and what an error of the call is told as
PingAnswer == IF daemon.newer THEN "update" ELSE None
messageForDaemonError == IF daemon.up THEN None ELSE "refused"

ping ==
    /\ poll.pc = "ping" /\ Drawn
    /\ LET r == updateDaemonConnectionStatus(ti, IF daemon.up THEN PingAnswer ELSE messageForDaemonError)
       IN Step(r, IF r.ti.available THEN "login" ELSE "initial")
    /\ UNCHANGED <<daemon, cache>>

updateLoginStatus ==
    /\ poll.pc = "login" /\ Drawn
    /\ IF daemon.up THEN Step(LoginStatus(ti, daemon.user # None), "settings") ELSE Step(updateDaemonConnectionStatus(ti, messageForDaemonError), "settings")
    /\ cache' = IF daemon.up /\ daemon.user = None /\ ti.loggedIn THEN NoCache ELSE cache
    /\ UNCHANGED daemon

\* The status of the VPN is read by a full update only.
NextAfterSettingsMutant == IF ~ti.loggedIn \/ ~poll.full THEN "initial" ELSE "account"

NextAfterSettings == IF ~ti.loggedIn THEN "initial" ELSE IF poll.full THEN "account" ELSE "vpn"
updateSettings ==
    /\ poll.pc = "settings" /\ Drawn
    /\ \/ daemon.up /\ Step(SettingsResult(ti, Flag(daemon.notify), Flag(daemon.tray)), NextAfterSettings)
       \/ (~daemon.up \/ May("config")) /\ Step(Result(ti, FALSE, <<>>), NextAfterSettings)
    /\ UNCHANGED <<daemon, cache>>

\* updateAccountInfo, from the cache of a day or else from the daemon, whose answer may be
\* that the service has expired or that the API failed; every failure of the call redraws.
\* That the user is not logged in is no error, and clears the one shown.
Account ==
    CASE cache.kept -> {[result |-> AccountResult(ti, cache.payload), cache |-> cache]}
      [] ~cache.kept /\ ~daemon.up -> {[result |-> Result(ti, TRUE, <<>>), cache |-> cache]}
      [] ~cache.kept /\ daemon.up /\ daemon.user = None ->
            LET r == updateDaemonConnectionStatus(ti, None) IN {[result |-> Result(r.ti, TRUE, r.notes), cache |-> cache]}
      [] ~cache.kept /\ daemon.up /\ daemon.user # None ->
            {[result |-> AccountResult(ti, payload), cache |-> [kept |-> TRUE, payload |-> payload]] :
                payload \in {[type |-> "success", name |-> daemon.user]}
                           \cup (IF May("api") THEN {[type |-> "no service", name |-> daemon.user], NoPayload} ELSE {})}

updateAccountInfo ==
    /\ poll.pc = "account" /\ Drawn
    /\ \E a \in Account : cache' = a.cache /\ Step(a.result, "vpn")
    /\ UNCHANGED daemon

\* Status of the daemon, which may find that the connection ended while it looked
StatusAnswer(answer) ==
    \/ answer = [status |-> IF daemon.host = None THEN "Disconnected" ELSE "Connected", host |-> daemon.host] /\ UNCHANGED daemon
    \/ /\ May("race") /\ daemon.host # None
       /\ answer = [status |-> "Connecting", host |-> None] /\ daemon' = [daemon EXCEPT !.host = None]

\* updateVpnStatus, in steps
Status(answer) ==
    /\ poll.pc = "vpn" /\ Drawn
    /\ daemon.up
    /\ StatusAnswer(answer)
    /\ poll' = [poll EXCEPT !.pc = IF <<ti.status, ti.host>> = <<answer.status, answer.host>> THEN "vpn set" ELSE "vpn account",
                            !.answer = answer, !.changed = FALSE, !.clean = @ /\ daemon' = daemon]
    /\ notes' = <<>>
    /\ UNCHANGED <<ti, cache, menu, item, calls>>
StatusFails ==
    /\ poll.pc = "vpn" /\ Drawn
    /\ ~daemon.up
    /\ Step(updateDaemonConnectionStatus(ti, messageForDaemonError), "initial")
    /\ UNCHANGED <<daemon, cache>>

\* ... what changed is announced with the latest account and settings
Then(r, next) ==
    /\ ti' = r.ti
    /\ notes' = Sent(r.ti, r.notes)
    /\ poll' = [poll EXCEPT !.pc = next, !.changed = @ \/ r.changed]
    /\ UNCHANGED <<daemon, menu, item, calls>>
VpnAccount == poll.pc = "vpn account" /\ \E a \in Account : cache' = a.cache /\ Then(a.result, "vpn settings")
VpnSettings ==
    /\ poll.pc = "vpn settings"
    /\ \/ daemon.up /\ Then(SettingsResult(ti, Flag(daemon.notify), Flag(daemon.tray)), "vpn set")
       \/ (~daemon.up \/ May("config")) /\ Then(Result(ti, FALSE, <<>>), "vpn set")
    /\ UNCHANGED cache
VpnSet ==
    /\ poll.pc = "vpn set" /\ Drawn
    /\ LET r == setVpnStatus(ti, poll.answer.status, poll.answer.host)
       IN Step([r EXCEPT !.changed = @ \/ poll.changed], "initial")
    /\ UNCHANGED <<daemon, cache>>

updateVpnStatus == (\E s \in {"Connected", "Connecting", "Disconnected"}, h \in Hosts \cup {None} : Status([status |-> s, host |-> h]))
    \/ StatusFails \/ VpnAccount \/ VpnSettings \/ VpnSet

\* The first settings let the tray start.
pollingMonitor ==
    /\ poll.pc = "initial"
    /\ poll' = [poll EXCEPT !.pc = "wait", !.told = @ \/ ti.trayStatus # "invalid", !.answer = NoAnswer]
    /\ notes' = <<>>
    /\ UNCHANGED <<daemon, ti, cache, menu, item, calls>>

\* ... until an item tells of a call, the menu is opened, or time has passed
Begin(full) == poll.pc = "wait" /\ poll' = [poll EXCEPT !.pc = "ping", !.full = full, !.clean = TRUE]
Ticks ==
    /\ \E full \in BOOLEAN : Begin(full)
    /\ notes' = <<>>
    /\ UNCHANGED <<daemon, ti, cache, menu, item, calls>>
DayPasses ==
    /\ cache.kept /\ cache' = NoCache
    /\ notes' = <<>>
    /\ UNCHANGED <<daemon, ti, poll, menu, item, calls>>

-----------------------------------------------------------------------------
(* The menu.                                                                 *)

\* The icon is white until the status changes.
OnReadyMutant ==
    /\ menu.pc = "off" /\ poll.told /\ ti.trayStatus = "enabled"
    /\ ti' = [ti EXCEPT !.running = TRUE, !.icon = "white"]
    /\ menu' = [menu EXCEPT !.pc = "reset"]
    /\ notes' = <<>>
    /\ UNCHANGED <<daemon, cache, poll, item, calls>>

OnReady ==
    /\ menu.pc = "off" /\ poll.told /\ ti.trayStatus = "enabled"
    /\ ti' = [ti EXCEPT !.running = TRUE, !.icon = IF ti.status = "Disconnected" THEN "white" ELSE "blue"]
    /\ menu' = [menu EXCEPT !.pc = "reset"]
    /\ notes' = <<>>
    /\ UNCHANGED <<daemon, cache, poll, item, calls>>

\* ResetMenu closes the items, the state is read under the lock
Draw ==
    /\ menu.pc = "reset"
    /\ IF ti.running
       THEN /\ menu' = [pc |-> "drawn", shows |-> View(ti), missed |-> FALSE,
                         settings |-> [NoSettings EXCEPT !.drawn = IF ti.available THEN "soon" ELSE "no"]]
            /\ item' = [i \in Items |-> IF i \in {View(ti).vpn.item, View(ti).account.item, "Quit"} THEN "listens" ELSE "closed"]
       ELSE menu' = [menu EXCEPT !.pc = "gone"] /\ UNCHANGED item
    /\ notes' = <<>>
    /\ UNCHANGED <<daemon, ti, cache, poll, calls>>
Refresh ==
    /\ menu.pc = "drawn"
    /\ menu' = [menu EXCEPT !.pc = "waiting"]
    /\ notes' = <<>>
    /\ UNCHANGED <<daemon, ti, cache, poll, item, calls>>

\* 100 ms later
addSettingsSubitems ==
    /\ menu.settings.drawn = "soon" /\ menu.pc \in {"drawn", "waiting"}
    /\ menu' = [menu EXCEPT !.settings = [drawn |-> "yes", notifications |-> ti.notifications, tray |-> ti.trayStatus]]
    /\ item' = [item EXCEPT !["Notifications"] = "listens", !["Tray icon"] = "listens"]
    /\ notes' = <<>>
    /\ UNCHANGED <<daemon, ti, cache, poll, calls>>

\* The desktop ends the tray.
OnExit ==
    /\ May("exit") /\ ti.running
    /\ ti' = [ti EXCEPT !.running = FALSE]
    /\ notes' = <<>>
    /\ UNCHANGED <<daemon, cache, poll, menu, item, calls>>

-----------------------------------------------------------------------------
(* Clicks.                                                                   *)

Click(i) ==
    /\ item[i] = "listens" /\ i \in Clicks /\ calls[i] = None
    /\ Cardinality({j \in Items : calls[j] # None}) < MaxCalls
    /\ item' = [item EXCEPT ![i] = "busy"]
    /\ calls' = [calls EXCEPT ![i] = "call"]
    /\ notes' = <<>>
    /\ UNCHANGED <<daemon, ti, cache, poll, menu>>

\* What a call that succeeds may do to the daemon
login == {[daemon EXCEPT !.user = u] : u \in IF daemon.user = None THEN Accounts ELSE {daemon.user}}
logout == {[daemon EXCEPT !.user = None, !.host = None]}
connect == IF daemon.user = None THEN {} ELSE {[daemon EXCEPT !.host = h] : h \in Hosts}
disconnect == {[daemon EXCEPT !.host = None]}
setNotify == {[daemon EXCEPT !.notify = menu.settings.notifications # "enabled"]}
setTray == {[daemon EXCEPT !.tray = menu.settings.tray # "enabled"]}
Effect(i) ==
    CASE i = "Log in" -> login
      [] i = "Log out" -> logout
      [] i = "Quick Connect" -> connect
      [] i = "Disconnect" -> disconnect
      [] i = "Notifications" -> setNotify
      [] i = "Tray icon" -> setTray
      [] OTHER -> {}

Reopened(i) == [item EXCEPT ![i] = IF @ = "busy" THEN "listens" ELSE @]

\* An item is clicked once for good, whether its call succeeds or fails.
CallFailsMutant(i) ==
    /\ calls[i] = "call" /\ i # "Quit"
    /\ May("call") \/ ~daemon.up \/ Effect(i) = {}
    /\ calls' = [calls EXCEPT ![i] = None]
    /\ notes' = Sent(ti, <<Note("error", i)>>)
    /\ UNCHANGED <<daemon, ti, cache, poll, menu, item>>

\* A call that fails: the goroutine waits for the next click
CallFails(i) ==
    /\ calls[i] = "call" /\ i # "Quit"
    /\ May("call") \/ ~daemon.up \/ Effect(i) = {}
    /\ calls' = [calls EXCEPT ![i] = None]
    /\ item' = Reopened(i)
    /\ notes' = Sent(ti, <<Note("error", i)>>)
    /\ UNCHANGED <<daemon, ti, cache, poll, menu>>

CallEnds(i) ==
    /\ calls[i] = "call" /\ daemon.up
    /\ i \in {"Notifications", "Tray icon"} => menu.settings.drawn = "yes"
    /\ \E d \in Effect(i) :
          /\ daemon' = d
          /\ poll' = [poll EXCEPT !.clean = @ /\ d = daemon]
    /\ menu' = CASE i = "Notifications" /\ item[i] = "busy" -> [menu EXCEPT !.settings.notifications = Flag(daemon'.notify)]
                 [] i = "Tray icon" /\ item[i] = "busy" -> [menu EXCEPT !.settings.tray = Flag(daemon'.tray)]
                 [] OTHER -> menu
    /\ IF i = "Log in" THEN item' = Reopened(i) /\ calls' = [calls EXCEPT ![i] = None]
       ELSE calls' = [calls EXCEPT ![i] = "update"] /\ UNCHANGED item
    /\ notes' = <<>>
    /\ UNCHANGED <<ti, cache>>

Quit ==
    /\ calls["Quit"] = "call"
    /\ calls' = [calls EXCEPT !["Quit"] = None]
    /\ notes' = Sent(ti, <<[kind |-> "quit", about |-> None, force |-> TRUE]>>)
    /\ UNCHANGED <<daemon, ti, cache, poll, menu, item>>

\* updateChan <- true
TellMonitor(i) ==
    /\ calls[i] = "update"
    /\ Begin(TRUE)
    /\ calls' = [calls EXCEPT ![i] = None]
    /\ notes' = <<>>
    /\ UNCHANGED <<daemon, ti, cache, menu, item>>

\* Others use the daemon, too; it stops and starts.
DaemonChanges ==
    /\ \/ May("cli") /\ daemon.up /\ \E u \in {None} \cup Accounts, h \in {None} \cup Hosts :
             (u = None => h = None) /\ daemon' = [daemon EXCEPT !.user = u, !.host = h]
       \/ May("settings") /\ daemon.up /\ (daemon' = [daemon EXCEPT !.notify = ~@] \/ daemon' = [daemon EXCEPT !.tray = ~@])
       \/ May("daemon") /\ daemon' = [daemon EXCEPT !.up = ~@, !.host = None]
       \/ May("update") /\ daemon' = [daemon EXCEPT !.newer = TRUE]
    /\ daemon' # daemon
    /\ poll' = [poll EXCEPT !.clean = FALSE]
    /\ notes' = <<>>
    /\ UNCHANGED <<ti, cache, menu, item, calls>>

Next ==
    \/ NotifierStarts \/ ping \/ updateLoginStatus \/ updateSettings \/ updateAccountInfo \/ updateVpnStatus \/ pollingMonitor \/ Ticks \/ DayPasses
    \/ OnReady \/ Draw \/ Refresh \/ addSettingsSubitems \/ OnExit \/ Quit \/ DaemonChanges
    \/ \E i \in Items : Click(i) \/ CallFails(i) \/ CallEnds(i) \/ TellMonitor(i)

Spec == Init /\ [][Next]_vars

-----------------------------------------------------------------------------
TrayTypeOK ==
    /\ ti.status \in {"Connected", "Connecting", "Disconnected"} /\ ti.host \in Hosts \cup {None}
    /\ ti.notifications \in {"invalid", "enabled", "disabled"} /\ ti.trayStatus \in {"invalid", "enabled", "disabled"}
    /\ menu.pc \in {"off", "reset", "drawn", "waiting", "gone"}
    /\ item \in [Items -> {"closed", "listens", "busy"}] /\ calls \in [Items -> {None, "call", "update"}]
    /\ Len(notes) <= 2

\* pollingMonitor: a round during which the daemon did not change leaves the tray with
\* what the daemon says, whatever came before.
RoundAgrees ==
    poll.pc = "wait" /\ poll.clean =>
       /\ ti.available = daemon.up
       /\ daemon.up => /\ ti.loggedIn = (daemon.user # None)
                       /\ ~May("config") => ti.notifications = Flag(daemon.notify) /\ ti.trayStatus = Flag(daemon.tray)
                       /\ ti.loggedIn => ti.host = daemon.host /\ (ti.status = "Connected") = (daemon.host # None)

\* redraw: every update tells of what it changed, so the menu shows the state of the
\* tray whenever both the monitor and the drawing wait; a box that was ticked by a click,
\* once the monitor has been told.  A change between the drawing and its wait wakes nobody
\* and is shown with the next one (redraw sends without waiting).
MenuIsCurrent ==
    ti.running /\ menu.pc = "waiting" /\ ~menu.missed /\ poll.pc = "wait" =>
       /\ menu.shows = View(ti)
       /\ menu.settings.drawn = "yes" /\ (\A i \in Items : calls[i] = None) => menu.settings.notifications = ti.notifications /\ menu.settings.tray = ti.trayStatus

\* updateLoginStatus: nothing of a user's session is left when they are logged out,
\* neither in the state nor in the cache.
LoggedOutForgets == ~ti.loggedIn => ti.account = None /\ ~cache.kept /\ ti.status # "Connected"

\* setVpnStatus: one step announces one thing of the VPN at most, and a connection is
\* announced with the server that it is to.
AnnouncedRight ==
    LET ns == SelectSeq(notes, LAMBDA n : n.kind \in {"connected", "disconnected"})
    IN Len(ns) <= 1 /\ \A n \in ToSet(ns) : n.kind = "connected" => n.about = ti.host /\ n.about # None

\* OnReady and setVpnStatus: the icon is blue when connected and not when disconnected, also
\* of a connection made before the tray was ready.  In between, when the connection ended
\* while the daemon was asked, it is blue if OnReady chose it and white if setVpnStatus did.
IconIsRight ==
    ti.running => /\ ti.status = "Connected" => ti.icon = "blue"
                  /\ ti.status = "Disconnected" => ti.icon # "blue"

\* addVpnSection, addAccountSection, addSettingsSubitems: an item whose call is over
\* and told can be clicked again, in the same menu or in the one drawn after it.  Where
\* another client undoes the call before the monitor looks, or the wake-up is missed, no
\* menu is drawn and the item is dead until one is.
ItemsListen ==
    poll.pc = "wait" /\ menu.pc = "waiting" /\ ~menu.missed /\ ti.running /\ (\A i \in Items : calls[i] = None) =>
       \A i \in Items \ {"Quit"} : item[i] # "busy"
=============================================================================
