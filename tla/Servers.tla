------------------------------- MODULE Servers -------------------------------
(* The servers: the lists that the data manager keeps in memory and on disk  *)
(* and that jobs renew, and how the server of a connection is selected, from *)
(* what the API recommends or, when that fails, from the local list.         *)
EXTENDS Naturals, FiniteSets, FiniteSetsExt

CONSTANTS
    Server,       \* every server: country, city, groups, technologies, virtual
    Fleets,       \* the sets of servers that there may be
    Tags,         \* what a user asks for
    GroupFlags,   \* the groups given with the flag, or None
    Settings,     \* technology, protocol, obfuscate, virtual locations
    Services,     \* the dedicated IP services the user may have: sets of servers, or NoServer for one not chosen
    Versions,     \* the versions of the application, numbers
    Faults        \* what may happen: "api", "disk", "crash", "vpn"

VARIABLES
    fleet,        \* the servers there are
    memory,       \* what the data manager holds
    disk,         \* its files
    release,      \* the version that runs and the newest in the repository
    vpn,          \* whether the traffic goes through the VPN, and whether the insights job has been let through
    pick          \* the selection just made

vars == <<fleet, memory, disk, release, vpn, pick>>

None == "none"
NoServer == "no server"
May(fault) == fault \in Faults
Ids == DOMAIN Server

-----------------------------------------------------------------------------
(* The data manager.                                                         *)

Empty == [servers |-> {}, age |-> "never"]
NoData == [servers |-> Empty, countries |-> Empty, insights |-> None, version |-> 0, newer |-> FALSE, loaded |-> FALSE]
Files == {"countries", "insights", "servers", "version"}
NoPick == [tag |-> None, flag |-> None, settings |-> None, services |-> {}, result |-> None]

Init ==
    /\ fleet \in Fleets
    /\ memory = NoData
    /\ disk = [file \in Files |-> [state |-> "missing", data |-> NoData[file]]]
    /\ vpn = [active |-> FALSE, job |-> FALSE]
    /\ release = [runs |-> 1, newest |-> 1]
    /\ pick = NoPick

Torn(file) == [state |-> "torn", data |-> NoData[file]]

\* FileWrite truncates, then writes: a write that fails or a crash in it leaves a
\* file that cannot be decoded.
Written(file, data) ==
    {[disk EXCEPT ![file] = [state |-> "written", data |-> data]]}
    \cup (IF May("disk") THEN {disk, [disk EXCEPT ![file] = Torn(file)]} ELSE {})

\* SetServersData, SetCountryData, SetInsightsData: memory first, then the file
SetData(file, data) ==
    /\ memory' = [memory EXCEPT ![file] = data]
    /\ disk' \in Written(file, data)

\* SetVersionData; the flag is not in the file
SetVersionData(v, newer) ==
    /\ memory' = [memory EXCEPT !.version = v, !.newer = newer]
    /\ disk' \in Written("version", v)

\* The daemon dies, possibly while it saves a file.
Crash ==
    /\ May("crash")
    /\ memory' = NoData
    /\ \/ UNCHANGED disk
       \/ \E file \in Files : disk' = [disk EXCEPT ![file] = Torn(file)]
    /\ release' \in {release, [release EXCEPT !.runs = release.newest]}
    /\ vpn' = [active |-> FALSE, job |-> FALSE]
    /\ pick' = NoPick
    /\ UNCHANGED fleet

exists(file) == disk[file].state # "missing"
Decodes(file) == disk[file].state = "written"

\* LoadData, in a goroutine of its own while the jobs already run: file by file,
\* until one cannot be read
LoadData ==
    /\ ~memory.loaded
    /\ LET countries == Decodes("countries")
           insights == countries /\ Decodes("insights")
           servers == insights /\ Decodes("servers")
           version == servers /\ Decodes("version")
       IN memory' = [memory EXCEPT !.countries = IF countries THEN disk.countries.data ELSE @,
                                   !.insights = IF insights THEN disk.insights.data ELSE @,
                                   !.servers = IF servers THEN disk.servers.data ELSE @,
                                   !.version = IF version THEN disk.version.data ELSE @,
                                   !.loaded = TRUE]
    /\ pick' = NoPick /\ UNCHANGED <<fleet, disk, release, vpn>>

isValid(data) == data.age = "fresh"

\* An empty answer is stored like any other.
JobServersMutant ==
    /\ ~(exists("servers") /\ isValid(memory.servers))
    /\ \E ids \in {fleet, {}} : SetData("servers", [servers |-> ids, age |-> "fresh"])
    /\ pick' = NoPick /\ UNCHANGED <<fleet, release, vpn>>

JobServers ==
    /\ ~(exists("servers") /\ isValid(memory.servers))
    /\ fleet # {}
    /\ SetData("servers", [servers |-> fleet, age |-> "fresh"])
    /\ pick' = NoPick /\ UNCHANGED <<fleet, release, vpn>>

Countries(ids) == {Server[i].country : i \in ids}
JobCountries ==
    /\ ~(exists("countries") /\ isValid(memory.countries))
    /\ fleet # {}
    /\ SetData("countries", [servers |-> Countries(fleet), age |-> "fresh"])
    /\ pick' = NoPick /\ UNCHANGED <<fleet, release, vpn>>

\* JobInsights: the VPN is looked at first
JobInsights ==
    /\ May("vpn") /\ ~vpn.job /\ ~vpn.active
    /\ vpn' = [vpn EXCEPT !.job = TRUE]
    /\ pick' = NoPick /\ UNCHANGED <<fleet, memory, disk, release>>

\* The answer is stored as it is.
InsightsAnswerMutant ==
    /\ vpn.job
    /\ vpn' = [vpn EXCEPT !.job = FALSE]
    /\ SetData("insights", IF vpn.active THEN "exit" ELSE "home")
    /\ pick' = NoPick /\ UNCHANGED <<fleet, release>>

\* ... then the API is asked, which tells where the request came from: it may come
\* from a server when a connection was made meanwhile
InsightsAnswer ==
    /\ vpn.job
    /\ vpn' = [vpn EXCEPT !.job = FALSE]
    /\ \/ (May("api") \/ vpn.active) /\ UNCHANGED <<memory, disk>>
       \/ ~vpn.active /\ SetData("insights", "home")
    /\ pick' = NoPick /\ UNCHANGED <<fleet, release>>

VpnChanges ==
    /\ May("vpn")
    /\ vpn' = [vpn EXCEPT !.active = ~@]
    /\ pick' = NoPick /\ UNCHANGED <<fleet, memory, disk, release>>

\* The flag is set whatever version was found.
JobVersionCheckMutant ==
    /\ ~memory.newer
    /\ SetVersionData(release.newest, TRUE)
    /\ pick' = NoPick /\ UNCHANGED <<fleet, release, vpn>>

\* JobVersionCheck: the flag is the one of before, whatever the stored version said
JobVersionCheck ==
    LET known == release.runs < memory.version
    IN /\ \/ memory.newer /\ known /\ SetVersionData(memory.version, TRUE)
          \/ ~memory.newer /\ May("api") /\ SetVersionData(memory.version, FALSE)
          \/ ~memory.newer /\ release.runs < release.newest /\ SetVersionData(release.newest, TRUE)
       /\ pick' = NoPick /\ UNCHANGED <<fleet, release, vpn>>

\* Hours pass: what was stored is old, servers come and go, versions appear.
TimePasses ==
    /\ memory' = [memory EXCEPT !.servers.age = IF @ = "fresh" THEN "old" ELSE @, !.countries.age = IF @ = "fresh" THEN "old" ELSE @]
    /\ disk' = [disk EXCEPT !.servers.data.age = IF @ = "fresh" THEN "old" ELSE @, !.countries.data.age = IF @ = "fresh" THEN "old" ELSE @]
    /\ fleet' \in Fleets
    /\ \E v \in Versions : v >= release.newest /\ release' = [release EXCEPT !.newest = v]
    /\ pick' = NoPick /\ UNCHANGED vpn

-----------------------------------------------------------------------------
(* What servers can be used.                                                 *)

techToServerTech(s) ==
    CASE s.technology = "nordlynx" -> "wg"
      [] s.protocol = "tcp" -> IF s.obfuscate THEN "tcp xor" ELSE "tcp"
      [] OTHER -> IF s.obfuscate THEN "udp xor" ELSE "udp"
IsConnectableVia(i, tech) == tech \in Server[i].technologies
IsObfuscated(i) == IsConnectableVia(i, "udp xor") /\ IsConnectableVia(i, "tcp xor")
IsConnectableWithProtocol(i, s) ==
    CASE s.technology = "nordlynx" -> IsConnectableVia(i, "wg")
      [] s.protocol = "udp" -> IsConnectableVia(i, "udp") \/ IsConnectableVia(i, "udp xor")
      [] OTHER -> IsConnectableVia(i, "tcp") \/ IsConnectableVia(i, "tcp xor")
IsVirtualLocation(i) == Server[i].virtual
isDedicatedIP(i) == "dedicated" \in Server[i].groups

\* Countries and cities are no keys together.
HasKeyMutant(i, tag) ==
    CASE tag.kind = "country" -> Server[i].country = tag.country
      [] tag.kind = "city" -> Server[i].city = tag.city
      [] tag.kind = "name" -> i = tag.name
      [] tag.kind = "group" -> tag.group \in Server[i].groups
      [] OTHER -> FALSE

\* generateKeys: whether the tag is one of the server's
HasKey(i, tag) ==
    CASE tag.kind = "country" -> Server[i].country = tag.country
      [] tag.kind = "city" -> Server[i].city = tag.city
      [] tag.kind = "place" -> Server[i].country = tag.country /\ Server[i].city = tag.city
      [] tag.kind = "name" -> i = tag.name
      [] tag.kind = "group" -> tag.group \in Server[i].groups
      [] OTHER -> FALSE

\* The group decides alone.
selectFilterMutant(i, tag, group, s) ==
    CASE group # None -> group \in Server[i].groups
      [] tag.kind # None -> HasKey(i, tag)
      [] OTHER -> (IF s.obfuscate THEN "obfuscated" ELSE "standard") \in Server[i].groups

selectFilter(i, tag, group, s) ==
    CASE group # None -> group \in Server[i].groups /\ (tag.kind # None => HasKey(i, tag))
      [] tag.kind # None -> HasKey(i, tag)
      [] OTHER -> (IF s.obfuscate THEN "obfuscated" ELSE "standard") \in Server[i].groups

\* Obfuscation is not compared.
canConnectMutant(i, tag, group, s) ==
    IsConnectableWithProtocol(i, s) /\ selectFilter(i, tag, group, s)

canConnect(i, tag, group, s) ==
    IsConnectableWithProtocol(i, s) /\ IsObfuscated(i) = s.obfuscate /\ selectFilter(i, tag, group, s)
filterServers(tag, group, s) == {i \in memory.servers.servers : canConnect(i, tag, group, s)}

-----------------------------------------------------------------------------
(* The selection.  An outcome is a set of servers, of which one is picked, or *)
(* an error.                                                                  *)

Error(e) == [error |-> e, servers |-> {}]
Found(ids) == [error |-> None, servers |-> ids]

groupConvert(tag) == IF tag.kind = "group" THEN tag.group ELSE None
resolveServerGroup(flag, tag) ==
    CASE groupConvert(tag) # None /\ flag \notin {None, "unknown"} -> Error("double group")
      [] flag = "unknown" -> Error("no such group")
      [] flag # None -> [error |-> None, group |-> flag]
      [] OTHER -> [error |-> None, group |-> groupConvert(tag)]

\* locationByName, in the countries of the data manager or else of the API
Location(tag, countries) ==
    CASE tag.kind \in {"country", "place"} -> tag.country \in countries
      [] tag.kind = "city" -> \E i \in Ids : Server[i].country \in countries /\ Server[i].city = tag.city
      [] OTHER -> FALSE

\* serverTagFromString: what the tag may turn out to be
serverTagFromString(tag, group, flag) ==
    LET Of(countries) ==
            CASE Location(tag, countries) -> tag.kind
              [] tag.kind = "name" /\ tag.name \in memory.servers.servers -> "name"
              [] tag.kind = "name" -> "failed"
              [] OTHER -> "no such tag"
    IN CASE tag.kind = None -> {"any"}
         [] group # None /\ flag = None -> {"group"}
         [] memory.countries.servers # {} -> {Of(memory.countries.servers)}
         [] OTHER -> {Of(Countries(fleet))} \cup (IF May("api") THEN {"failed"} ELSE {})

\* The API recommends servers that there are, of the technology and the place and
\* the group.
Recommended(tag, by, group, s) ==
    LET wanted == IF group = None /\ s.obfuscate THEN "obfuscated" ELSE group
    IN {i \in fleet : /\ IsConnectableVia(i, techToServerTech(s))
                      /\ wanted # None => wanted \in Server[i].groups
                      /\ by \in {"country", "city", "place"} => HasKey(i, tag)}
getServersRemote(tag, by, group, s) ==
    LET all == Recommended(tag, by, group, s)
    IN IF all = {} THEN {Error("empty")} ELSE {Found(ids) : ids \in SUBSET all \ {{}}}
getSpecificServerRemote(tag, s) ==
    IF tag.name \in fleet /\ IsConnectableWithProtocol(tag.name, s) /\ IsObfuscated(tag.name) = s.obfuscate
    THEN {Found({tag.name})} ELSE {Error("unavailable")}
Remote(tag, by, group, s) ==
    (IF May("api") THEN {Error("api")} ELSE {})
    \cup (IF by = "name" THEN getSpecificServerRemote(tag, s) ELSE getServersRemote(tag, by, group, s))

\* The local list, without the dedicated servers of others unless one is all there is
Local(tag, by, group, s) ==
    LET ids == filterServers(tag, group, s)
    IN CASE ids = {} -> Error("unavailable")
         [] by # "name" /\ Cardinality(ids) > 1 -> Found({i \in ids : ~isDedicatedIP(i)})
         [] OTHER -> Found(ids)

\* Virtual locations are not left out.
allowVirtualMutant(r, s) == r

allowVirtual(r, s) ==
    LET ids == {i \in r.servers : ~IsVirtualLocation(i)}
    IN IF r.error = None /\ ~s.virtual /\ r.servers # {} THEN (IF ids = {} THEN Error("virtual") ELSE Found(ids)) ELSE r

getServers(tag, flag, s) ==
    LET group == resolveServerGroup(flag, tag)
        Of(by) == CASE by = "no such tag" -> {Error(by)}
                    [] by = "failed" -> {Local(tag, by, group.group, s)}
                    [] OTHER -> {IF r.error = None THEN r ELSE Local(tag, by, group.group, s) : r \in Remote(tag, by, group.group, s)}
    IN CASE group.error # None -> {Error(group.error)}
         [] group.group = "dedicated" -> {Error("dedicated")}
         [] OTHER -> {allowVirtual(r, s) : r \in UNION {Of(by) : by \in serverTagFromString(tag, group.group, flag)}}

\* PickServer: a random index into an empty list is a panic
PickServer(tag, flag, s) ==
    UNION {IF r.error # None THEN {r.error} ELSE IF r.servers = {} THEN {"panic"} ELSE r.servers : r \in getServers(tag, flag, s)}

isAnyDIPServersAvailable(services) == services \ {NoServer} # {}
DedicatedError(services) ==
    IF services = {} THEN "renew" ELSE IF isAnyDIPServersAvailable(services) THEN None ELSE "no server chosen"

\* GetDedicatedIPServices fails when the API does.
NoServices == IF May("api") THEN {"unhandled"} ELSE {}

\* selectDedicatedIPServer: of any service, also of one without a server
selectDedicatedIPServer(services) ==
    NoServices \cup
    IF DedicatedError(services) # None THEN {DedicatedError(services)}
    ELSE {IF i \in memory.servers.servers THEN i ELSE "unavailable" : i \in services}

\* The services of the user are not looked at.
OwnedMutant(i, s, services) == {i}

Owned(i, s, services) ==
    CASE i \notin Ids -> {i}
      [] i \in Ids /\ ~isDedicatedIP(i) -> {i}
      [] OTHER ->
           NoServices \cup
           {CASE DedicatedError(services) # None -> DedicatedError(services)
              [] i \notin services -> "not yours"
              [] ~(IsConnectableWithProtocol(i, s) /\ IsObfuscated(i) = s.obfuscate) -> "unavailable"
              [] OTHER -> i}

selectServer(tag, flag, s, services) ==
    UNION {Owned(i, s, services) :
             i \in UNION {IF p = "dedicated" THEN selectDedicatedIPServer(services) ELSE {p} : p \in PickServer(tag, flag, s)}}

Connect ==
    /\ pick.result = None
    /\ \E tag \in Tags, flag \in GroupFlags, s \in Settings, services \in Services :
         \E result \in selectServer(tag, flag, s, services) :
            pick' = [tag |-> tag, flag |-> flag, settings |-> s, services |-> services, result |-> result]
    /\ UNCHANGED <<fleet, memory, disk, release, vpn>>

-----------------------------------------------------------------------------
(* What clients are shown.                                                   *)

Listed(s) ==
    {i \in memory.servers.servers : IsConnectableVia(i, techToServerTech(s)) /\ (s.virtual \/ ~IsVirtualLocation(i))}
ListedCountries(s) == {Server[i].country : i \in Listed(s)}
ListedCities(country, s) == {Server[i].city : i \in {j \in Listed(s) : Server[j].country = country}}
DedicatedCities(country, s) ==
    ListedCities(country, s) \ {Server[i].city : i \in {j \in Listed(s) : Server[j].country = country /\ ~isDedicatedIP(j)}}
ListedGroups(s) == UNION {Server[i].groups : i \in Listed(s)}
GetServers(s) == {i \in filterServers([kind |-> None], None, s) : s.virtual \/ ~IsVirtualLocation(i)}

-----------------------------------------------------------------------------
Next == Crash \/ LoadData \/ JobServers \/ JobCountries \/ JobInsights \/ InsightsAnswer \/ JobVersionCheck \/ VpnChanges \/ TimePasses \/ Connect
Spec == Init /\ [][Next]_vars

\* The panic is an outcome of the code; PanicsAmongDedicated says when.
ServersTypeOK ==
    /\ fleet \subseteq Ids /\ memory.servers.servers \subseteq Ids
    /\ memory.servers.age \in {"never", "fresh", "old"} /\ memory.version \in Versions \cup {0}
    /\ pick.result \in Ids \cup {None, "double group", "no such group", "no such tag", "unavailable", "virtual", "renew",
                                  "no server chosen", "not yours", "unhandled", "panic"}

\* PickServer: what is indexed is not empty.  It may be when the API failed and all
\* that the local list has for the request are dedicated servers, two or more:
\* getServers deletes them all, and rand.Intn(0) panics.  There is no other way.
PanicsAmongDedicated ==
    pick.result = "panic" =>
       LET ids == filterServers(pick.tag, resolveServerGroup(pick.flag, pick.tag).group, pick.settings)
       IN Cardinality(ids) > 1 /\ \A i \in ids : isDedicatedIP(i)

\* One of the two obfuscated technologies only
HalfObfuscated(i) == IsConnectableVia(i, "udp xor") # IsConnectableVia(i, "tcp xor")

\* selectServer: whichever way a server was found, the technology, the protocol and
\* the obfuscation of the settings can be used with it.  (IsObfuscated asks for both
\* of the obfuscated technologies and IsConnectableWithProtocol for one of any kind:
\* a server that has one of the two online is taken for one that is not obfuscated.)
SelectedSuits ==
    pick.result \in Ids => IsConnectableVia(pick.result, techToServerTech(pick.settings)) \/ HalfObfuscated(pick.result)

\* selectServer: a virtual location is not connected to when the user does not
\* allow them, unless it is their own server.
VirtualWhenAllowed ==
    pick.result \in Ids /\ ~isDedicatedIP(pick.result) /\ IsVirtualLocation(pick.result) => pick.settings.virtual

\* selectServer: a dedicated server is connected to by those whose it is, be it
\* asked for by name, recommended by the API or found in the local list.
DedicatedIsOwn == pick.result \in Ids /\ isDedicatedIP(pick.result) => pick.result \in pick.services

\* getServers: the server is in the place and the group asked for, whether the API
\* or the local list was asked; one asked for by its name may be in any group,
\* and a dedicated one asked for by its group may be anywhere.
AsAsked ==
    pick.result \in Ids =>
       /\ pick.tag.kind # None /\ pick.flag # "dedicated" => HasKey(pick.result, pick.tag)
       /\ pick.flag # None /\ pick.tag.kind # "name" => pick.flag \in Server[pick.result].groups

\* Countries, Cities, Groups and GetServers: in a place or a group that is listed for
\* other servers than dedicated ones, the local list has a server to connect to under
\* the same settings, and every server that is shown can be connected to.  Those
\* servers are obfuscated or are not: a mixed one is listed by its technologies and
\* found by IsObfuscated.
ListedIsFound ==
    \A s \in Settings :
       LET IsFound(tag, group) == LET r == allowVirtual(Local(tag, tag.kind, group, s), s) IN r.error = None /\ r.servers # {}
           Pure(i) == Server[i].technologies \cap {"udp xor", "tcp xor"} \in {{}, Server[i].technologies} /\ ~HalfObfuscated(i)
           Shared(tag) == \E i \in Listed(s) : HasKey(i, tag) /\ ~isDedicatedIP(i) /\ Pure(i)
           places == UNION {[kind : {"place"}, country : {c}, city : ListedCities(c, s)] : c \in ListedCountries(s)}
       IN /\ \A tag \in places : tag.city \notin DedicatedCities(tag.country, s) /\ Shared(tag) => IsFound(tag, None)
          /\ \A g \in ListedGroups(s) : Shared([kind |-> "group", group |-> g]) => IsFound([kind |-> "group", group |-> g], g)
          /\ \A i \in GetServers(s) : IsConnectableVia(i, techToServerTech(s)) \/ HalfObfuscated(i)

\* JobServers: a list that is not fetched again is not empty, whatever became of
\* the file in a crash or a failed write.
ValidIsLoaded == isValid(memory.servers) => memory.servers.servers # {}

\* JobVersionCheck: when a newer version is announced there is one, across restarts
\* into the newest version and failed reads and writes of the stored one.
NewerIsNewer == memory.newer => release.runs < release.newest

\* JobInsights: where the user is is never taken to be where a VPN server is, though
\* a connection may be made between the look at the VPN and the request.
LocationIsHome == memory.insights # "exit"
=============================================================================
