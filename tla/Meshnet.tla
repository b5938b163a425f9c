------------------------------- MODULE Meshnet -------------------------------
(***************************************************************************)
(* meshnet.Server: the handlers that turn meshnet on and off, keep the     *)
(* list of peers up to date and change what a peer may do, with the two    *)
(* subscribers (refresher, meshunsetter) and the two jobs that work on the *)
(* same state.                                                             *)
(*                                                                         *)
(* The server has no lock.  A handler is a sequence of calls: of the       *)
(* registry (the meshnet API), of the configuration file, of the networker *)
(* and of norduser, each of which is atomic by itself.  One step of this   *)
(* module is one such call; the handlers in Calls interleave between them. *)
(* A handler keeps the list of peers it was given and works with it later. *)
(*                                                                         *)
(* The networker is reduced to what meshnet asks of it: the rules and the  *)
(* forwarding of each peer, and whom VPN is connected to.  Module Networker*)
(* has the rest.                                                           *)
(***************************************************************************)
CONSTANTS
    Peers,          \* other machines
    Grantable,      \* the permissions that requests change
    Calls,          \* handlers that may run at the same time
    Offline,        \* the peers that may be without an address
    Ops,            \* the kinds of requests and events of this instance
    Faulty          \* what may fail: "api", "unauthorized" of the registry, "register", "lib"

Permissions == {"inbound", "routing", "lan", "fileshare"}
None == "none"
Self == "self"

ASSUME GrantableAssumption == Grantable \subseteq Permissions
ASSUME PeersAssumption == {None, Self, "server"} \cap Peers = {}
ASSUME FaultyAssumption == Faulty \subseteq {"api", "unauthorized", "register", "lib"}

VARIABLES
    config,     \* the saved configuration: Mesh, MeshDevice, PostquantumVpn, the token
    registry,   \* what the API holds: this machine, and each peer
    netw,       \* the networker
    share,      \* whether the fileshare process runs
    monitored,  \* what the fileshare job saw last
    booting,    \* StartAutoMeshnet has not ended
    lastConnectedPeer,
    calls,      \* the handlers under way
    crashed     \* a nil MeshDevice was dereferenced

vars == <<config, registry, netw, share, monitored, booting, lastConnectedPeer, calls, crashed>>

-----------------------------------------------------------------------------
(* The registry.  A list maps every peer to what the API says of it.        *)

Gone == [listed |-> FALSE, addr |-> FALSE, perm |-> {}]
NoList == [p \in Peers |-> Gone]

-----------------------------------------------------------------------------
(* The networker: methods under its mutex, from state to state.             *)

Has(m, perm) == perm \in m.perm
LanAllowed(m) == Has(m, "routing") /\ Has(m, "lan")

\* A rule is known by its name: what it does, the peer's key and the peer's
\* address.  The rule of a peer without an address has no remote network.
Name(rule, p, m) == <<rule, p, m.addr>>
Block == <<"default-mesh-block", None, TRUE>>

\* allowIncoming: an existing rule is an error
allowIncoming(s, p, m) ==
    IF Name("allow", p, m) \in s.rules THEN s
    ELSE [s EXCEPT !.rules = @ \cup {Name("allow", p, m)} \cup
                             (IF LanAllowed(m) THEN {} ELSE {Name("block-lan", p, m)})]

\* Mutant: the rule that keeps the peer out of the LAN stays.
blockIncomingKeepsLan(s, p, m) == [s EXCEPT !.rules = @ \ {Name("allow", p, m)}]

blockIncoming(s, p, m) ==
    [s EXCEPT !.rules = @ \ {Name("allow", p, m), Name("block-lan", p, m)}]

allowFileshare(s, p, m) == [s EXCEPT !.rules = @ \cup {Name("fileshare", p, m)}]
BlockFileshare(s, p, m) == [s EXCEPT !.rules = @ \ {Name("fileshare", p, m)}]

\* exitnode.Server.ResetPeers: what each peer may forward
Forwards(list) ==
    [p \in Peers |-> IF list[p].listed /\ list[p].addr
                     THEN list[p].perm \cap {"routing", "lan"} ELSE {}]

NoForwards == [p \in Peers |-> {}]

\* The rules refresh makes for a peer: none when it has no address
refreshPeer(s, p, m) ==
    LET s1 == IF m.listed /\ m.addr /\ Has(m, "inbound") THEN allowIncoming(s, p, m) ELSE s
    IN  IF m.listed /\ m.addr /\ Has(m, "fileshare") THEN allowFileshare(s1, p, m) ELSE s1

\* Mutant: the rules of before are not removed.
refreshKeepsRules(s, list) ==
    [s EXCEPT !.rules = @ \cup {Block} \cup UNION {refreshPeer(s, p, list[p]).rules : p \in Peers},
              !.exit = Forwards(list)]

\* refresh: every tracked rule is deleted, then those of the new map are added
refresh(s, list) ==
    LET clear == [s EXCEPT !.rules = {}]
    IN  [s EXCEPT !.rules = {Block} \cup UNION {refreshPeer(clear, p, list[p]).rules : p \in Peers},
                  !.exit = Forwards(list)]

\* refreshIncoming: the rules of one peer are made anew
refreshIncoming(s, p, m) ==
    LET s1 == IF Name("allow", p, m) \in s.rules THEN blockIncoming(s, p, m) ELSE s
    IN  IF Has(m, "inbound") THEN allowIncoming(s1, p, m) ELSE s

\* Mutant: the flag stays.
UnSetMeshKeepsFlag(s) == [s EXCEPT !.rules = {}, !.exit = NoForwards]

UnSetMesh(s) ==
    IF ~s.isMeshnetSet THEN s
    ELSE [s EXCEPT !.isMeshnetSet = FALSE, !.rules = {}, !.exit = NoForwards]

NewNetworker ==
    [isMeshnetSet |-> FALSE, rules |-> {}, exit |-> NoForwards, vpn |-> None, lastServer |-> None]

-----------------------------------------------------------------------------
(* The handlers.                                                            *)

Idle == [kind |-> None, pc |-> "idle", peer |-> None, perm |-> None, grant |-> FALSE,
         list |-> NoList, removed |-> FALSE]

Kinds == {None, "enable", "disable", "start", "refresh", "peerUpdate", "getPeers", "accept",
          "remove", "nickname", "machineNickname", "permission", "auto", "transfer", "invitation",
          "connect", "job", "logout", "defaults", "pq"}
Pcs == {"idle", "load", "list", "configure", "apply", "refreshIncoming", "accept", "remove",
        "map", "refresh", "setMesh", "saveOn", "share", "unshare", "stop", "unset", "saveOff",
        "notify", "connect", "connected", "job", "update", "saveName", "saveDevice", "savePq",
        "invite"}

Init ==
    /\ \E peers \in SUBSET Peers :
          registry = [registered |-> FALSE,
                      peer |-> [p \in Peers |-> [listed |-> p \in peers, addr |-> p \notin Offline,
                                                perm |-> {}]]]
    /\ config = [mesh |-> FALSE, device |-> FALSE, user |-> TRUE, pq |-> FALSE]
    /\ netw = NewNetworker
    /\ share = FALSE /\ monitored = FALSE /\ booting = FALSE
    /\ lastConnectedPeer = None
    /\ calls = [c \in Calls |-> Idle]
    /\ crashed = FALSE

\* Handler c is free to take a request of the given kind.
Free(c, kind) == ~crashed /\ kind \in Ops /\ calls[c].pc = "idle"
At(c, pc) == ~crashed /\ calls[c].pc = pc
Kind(c) == calls[c].kind

Begin(c, kind, pc) == calls' = [calls EXCEPT ![c] = [Idle EXCEPT !.kind = kind, !.pc = pc]]
Goto(c, pc) == calls' = [calls EXCEPT ![c].pc = pc]
Return(c) == calls' = [calls EXCEPT ![c] = Idle]

local == <<share, monitored, booting, lastConnectedPeer, crashed>>

\* Mutant: the registration is not saved.
RegisterUnsaved ==
    /\ registry' = IF config.device THEN registry ELSE [registry EXCEPT !.registered = TRUE]
    /\ UNCHANGED config

\* RegisteringChecker: the device is registered when its data is missing, and
\* by Register in any case
IsRegistrationInfoCorrect ==
    /\ config' = [config EXCEPT !.device = TRUE]
    /\ registry' = IF config.device THEN registry ELSE [registry EXCEPT !.registered = TRUE]

Register ==
    /\ config' = [config EXCEPT !.device = TRUE]
    /\ registry' = [registry EXCEPT !.registered = TRUE]

\* Requests about a peer check the registration before they load the configuration.
PeerRequest(c, kind, perm, grant) ==
    \E p \in Peers :
        /\ Free(c, kind) /\ config.user
        /\ IsRegistrationInfoCorrect
        /\ calls' = [calls EXCEPT ![c] = [Idle EXCEPT !.kind = kind, !.pc = "load", !.peer = p,
                                          !.perm = perm, !.grant = grant]]
        /\ UNCHANGED <<netw, local>>

PermissionRequest(c, perm, grant) == perm \in Grantable /\ PeerRequest(c, "permission", perm, grant)

AllowIncoming(c) == PermissionRequest(c, "inbound", TRUE)
DenyIncoming(c) == PermissionRequest(c, "inbound", FALSE)
AllowRouting(c) == PermissionRequest(c, "routing", TRUE)
DenyRouting(c) == PermissionRequest(c, "routing", FALSE)
AllowLocalNetwork(c) == PermissionRequest(c, "lan", TRUE)
DenyLocalNetwork(c) == PermissionRequest(c, "lan", FALSE)
AllowFileshare(c) == PermissionRequest(c, "fileshare", TRUE)
DenyFileshare(c) == PermissionRequest(c, "fileshare", FALSE)

\* AlwaysAcceptFiles is of no concern to the networker; the request sends the
\* whole record of the peer like the others.
EnableAutomaticFileshare(c) == PeerRequest(c, "auto", None, TRUE)
DisableAutomaticFileshare(c) == PeerRequest(c, "auto", None, FALSE)

RemovePeer(c) == PeerRequest(c, "remove", None, FALSE)
AcceptInvite(c) == PeerRequest(c, "accept", None, FALSE)
NotifyNewTransfer(c) == PeerRequest(c, "transfer", None, FALSE)

\* The invitations themselves are kept by the API and are not modelled.
InvitationRequest(c) ==
    /\ Free(c, "invitation") /\ config.user
    /\ IsRegistrationInfoCorrect
    /\ Begin(c, "invitation", "load")
    /\ UNCHANGED <<netw, local>>

Invite(c) == InvitationRequest(c)
DenyInvite(c) == InvitationRequest(c)
RevokeInvite(c) == InvitationRequest(c)
GetInvites(c) == InvitationRequest(c)

\* TryExecuteWith: one connection attempt at a time, of this server and of RPC.Connect
Connect(c) == PeerRequest(c, "connect", None, FALSE) /\ \A d \in Calls : Kind(d) # "connect"

\* RemovePeer without a registration, and none to be had: a machine of the same
\* user is removed with the token alone.
RemoveUnregistered(c) ==
    /\ Free(c, "remove") /\ config.user /\ ~config.device /\ "register" \in Faulty
    /\ \E p \in Peers :
          /\ registry.peer[p].listed
          /\ calls' = [calls EXCEPT ![c] = [Idle EXCEPT !.kind = "remove", !.pc = "remove", !.peer = p]]
    /\ UNCHANGED <<config, registry, netw, local>>

EnableMeshnet(c) ==
    /\ Free(c, "enable") /\ config.user
    /\ Register
    /\ Begin(c, "enable", "load")
    /\ UNCHANGED <<netw, local>>

\* The configuration is loaded; its MeshDevice is dereferenced by what follows.
Load(c) ==
    /\ At(c, "load")
    /\ \/ /\ Kind(c) = "enable" /\ (config.mesh \/ config.pq)
          /\ Return(c) /\ UNCHANGED crashed
       \/ /\ Kind(c) \in {"accept", "connect", "invitation"} /\ ~config.mesh
          /\ Return(c) /\ UNCHANGED crashed
       \/ /\ Kind(c) = "enable" => ~config.mesh /\ ~config.pq
          /\ Kind(c) \in {"accept", "connect", "invitation"} => config.mesh
          /\ crashed' = ~config.device
          /\ Goto(c, CASE Kind(c) = "enable" -> "map"
                       [] Kind(c) = "accept" -> "accept"
                       [] Kind(c) = "invitation" -> "invite"
                       [] OTHER -> "list")
    /\ UNCHANGED <<config, registry, netw, share, monitored, booting, lastConnectedPeer>>

\* Requests that check the registration after they loaded the configuration,
\* and go on with the MeshDevice they loaded.
LoadedRequest(c, kind, p, pc) ==
    /\ config.mesh
    /\ IsRegistrationInfoCorrect
    /\ crashed' = ~config.device
    /\ calls' = [calls EXCEPT ![c] = [Idle EXCEPT !.kind = kind, !.pc = pc, !.peer = p]]
    /\ UNCHANGED <<netw, share, monitored, booting, lastConnectedPeer>>

RefreshMeshnet(c) == Free(c, "refresh") /\ config.user /\ LoadedRequest(c, "refresh", None, "map")

GetPeers(c) == Free(c, "getPeers") /\ config.user /\ LoadedRequest(c, "getPeers", None, "list")

ChangePeerNickname(c) ==
    /\ Free(c, "nickname") /\ config.user
    /\ \E p \in Peers : LoadedRequest(c, "nickname", p, "list")

ChangeMachineNickname(c) ==
    Free(c, "machineNickname") /\ config.user /\ LoadedRequest(c, "machineNickname", None, "update")

\* The refresher, told by NC, which may name this machine
NotifyPeerUpdate(c) ==
    Free(c, "peerUpdate") /\ \E p \in {None, Self} : LoadedRequest(c, "peerUpdate", p, "map")

\* NotifyPeerUpdate, called by GetPeers
NotifyOn(c) == At(c, "notify") /\ LoadedRequest(c, "peerUpdate", None, "map")

\* The same: meshnet was turned off meanwhile
NotifyOff(c) ==
    /\ At(c, "notify") /\ ~config.mesh
    /\ Return(c)
    /\ UNCHANGED <<config, registry, netw, local>>

\* StartAutoMeshnet at boot: repeated until meshnet is on or must not be
StartMeshnet(c) ==
    /\ Free(c, "start") /\ booting /\ \A d \in Calls : Kind(d) # "start"
    /\ config.user /\ config.mesh /\ ~netw.isMeshnetSet
    /\ Register
    /\ crashed' = ~config.device
    /\ Begin(c, "start", "map")
    /\ UNCHANGED <<netw, share, monitored, booting, lastConnectedPeer>>

StartAutoMeshnetEnds ==
    /\ ~crashed /\ booting /\ \A d \in Calls : Kind(d) # "start"
    /\ ~config.user \/ ~config.mesh \/ netw.isMeshnetSet
    /\ booting' = FALSE
    /\ UNCHANGED <<config, registry, netw, share, monitored, lastConnectedPeer, calls, crashed>>

DisableMeshnet(c) ==
    /\ Free(c, "disable") /\ config.mesh
    /\ Begin(c, "disable", "unshare")
    /\ UNCHANGED <<config, registry, netw, local>>

Logout(c) ==
    /\ Free(c, "logout") /\ config.user
    /\ Begin(c, "logout", "stop")
    /\ UNCHANGED <<config, registry, netw, local>>

SetDefaults(c) ==
    /\ Free(c, "defaults")
    /\ Begin(c, "defaults", "stop")
    /\ UNCHANGED <<config, registry, netw, local>>

\* SetPostQuantum: "post-quantum VPN and meshnet" is refused here and by EnableMeshnet
SetPostQuantum(c) ==
    /\ Free(c, "pq")
    /\ config.mesh => config.pq
    /\ calls' = [calls EXCEPT ![c] = [Idle EXCEPT !.kind = "pq", !.pc = "savePq", !.grant = ~config.pq]]
    /\ UNCHANGED <<config, registry, netw, local>>

\* JobMonitorFileshareProcess: only a change of the process makes it list the peers
JobMonitorFileshareProcess(c) ==
    /\ Free(c, "job") /\ monitored # share
    /\ \A d \in Calls : Kind(d) # "job"
    /\ calls' = [calls EXCEPT ![c] = [Idle EXCEPT !.kind = "job", !.pc = "list", !.grant = share]]
    /\ crashed' = ~config.device
    /\ UNCHANGED <<config, registry, netw, share, monitored, booting, lastConnectedPeer>>

-----------------------------------------------------------------------------
(* Calls of the registry.                                                   *)

\* The peer a handler asked for, as the list it was given has it.
Target(c) == calls[c].list[calls[c].peer]
InList(c) == registry.peer[calls[c].peer]

\* The list was received and the handler goes on with it.
Received(c, list, pc) == calls' = [calls EXCEPT ![c].list = list, ![c].pc = pc]

PermissionListed(c) ==
    /\ Kind(c) = "permission"
    /\ IF ~InList(c).listed \/ Has(InList(c), calls[c].perm) = calls[c].grant THEN Return(c)
       ELSE Received(c, [registry.peer EXCEPT ![calls[c].peer].perm =
                IF calls[c].grant THEN @ \cup {calls[c].perm} ELSE @ \ {calls[c].perm}], "configure")

PeerListed(c) ==
    /\ Kind(c) \in {"remove", "nickname", "auto", "transfer", "connect"}
    /\ \/ Kind(c) # "remove" /\ Return(c)    \* nothing to change, or the peer does not route
       \/ ~InList(c).listed /\ Return(c)
       \/ /\ InList(c).listed /\ Kind(c) # "transfer" /\ (Kind(c) = "connect" => InList(c).addr)
          /\ Received(c, registry.peer, CASE Kind(c) = "remove" -> "remove"
                                          [] Kind(c) \in {"nickname", "auto"} -> "configure"
                                          [] Kind(c) = "connect" -> "connect")

\* GetPeers tells the refresher when its answer differs from the last one; the
\* answer has the connection status of the peers, which changes at any time.
PeersListed(c) == Kind(c) = "getPeers" /\ (Return(c) \/ Goto(c, "notify"))

JobListed(c) == Kind(c) = "job" /\ Received(c, registry.peer, "job")

List(c) ==
    /\ At(c, "list") /\ registry.registered
    /\ PermissionListed(c) \/ PeerListed(c) \/ PeersListed(c) \/ JobListed(c)
    /\ UNCHANGED <<config, registry, netw, local>>

Map(c) ==
    /\ At(c, "map") /\ registry.registered
    /\ \/ Received(c, registry.peer, IF Kind(c) \in {"enable", "start"} THEN "setMesh" ELSE "refresh")
       \/ calls[c].peer = Self /\ Received(c, registry.peer, "saveDevice")
    /\ UNCHANGED <<config, registry, netw, local>>

\* Registry.List and Map: "Machine not found" is published, and the meshunsetter
\* runs within the call; the handler then returns its error.
SelfRemoved(c) ==
    /\ At(c, "list") \/ At(c, "map")
    /\ ~registry.registered
    /\ calls' = [calls EXCEPT ![c].removed = TRUE, ![c].pc = "unshare"]
    /\ UNCHANGED <<config, registry, netw, local>>

\* Any other error ends the handler; these also forget the token that is
\* refused, and nothing else.
Unauthorized(c) ==
    /\ "unauthorized" \in Faulty
    /\ \E pc \in {"list", "map", "accept", "invite", "update"} : At(c, pc)
    /\ config' = IF Kind(c) \in {"peerUpdate", "job"}
                    \/ (At(c, "map") /\ Kind(c) \in {"accept", "nickname", "machineNickname"})
                 THEN config ELSE [config EXCEPT !.user = FALSE]
    /\ Return(c)
    /\ UNCHANGED <<registry, netw, local>>

ApiFailure(c) ==
    /\ "api" \in Faulty
    /\ \/ \E pc \in {"list", "map", "configure", "accept", "invite", "remove", "update"} : At(c, pc)
       \/ At(c, "saveOff") /\ Kind(c) = "logout" /\ ~calls[c].removed   \* the token is deleted first
    /\ Return(c)
    /\ UNCHANGED <<config, registry, netw, local>>

Configure(c) ==
    /\ At(c, "configure")
    /\ IF registry.registered /\ InList(c).listed
       THEN /\ registry' = [registry EXCEPT !.peer[calls[c].peer].perm = Target(c).perm]
            /\ CASE Kind(c) = "nickname" -> Goto(c, "map")
                 [] Kind(c) = "auto" -> Return(c)
                 [] Kind(c) = "permission" -> Goto(c, "apply")
       ELSE Return(c) /\ UNCHANGED registry
    /\ UNCHANGED <<config, netw, local>>

\* AcceptInvite: the peer joins with the permissions of the request
Accept(c) ==
    /\ At(c, "accept")
    /\ IF registry.registered /\ ~InList(c).listed
       THEN \E perm \in SUBSET Grantable :
               /\ registry' = [registry EXCEPT !.peer[calls[c].peer] =
                                  [@ EXCEPT !.listed = TRUE, !.perm = perm]]
               /\ Goto(c, "map")
       ELSE Return(c) /\ UNCHANGED registry
    /\ UNCHANGED <<config, netw, local>>

\* Invite, DenyInvite, RevokeInvite, GetInvites: calls of the invitation API
Invitations(c) ==
    /\ At(c, "invite")
    /\ Return(c)
    /\ UNCHANGED <<config, registry, netw, local>>

\* RemovePeer: the networker is not told; that is left to the notification
Remove(c) ==
    /\ At(c, "remove")
    /\ registry' = [registry EXCEPT !.peer[calls[c].peer] = [@ EXCEPT !.listed = FALSE, !.perm = {}]]
    /\ Return(c)
    /\ UNCHANGED <<config, netw, local>>

\* ChangeMachineNickname
Update(c) ==
    /\ At(c, "update") /\ registry.registered
    /\ Goto(c, "saveName")
    /\ UNCHANGED <<config, registry, netw, local>>

-----------------------------------------------------------------------------
(* Calls of the networker.                                                  *)

\* The rules of the peer follow the permission, if the peer has an address.
Apply(c) ==
    /\ At(c, "apply") /\ calls[c].perm \in {"inbound", "fileshare"}
    /\ LET p == calls[c].peer
           m == Target(c)
       IN  netw' = CASE ~m.addr -> netw
                     [] m.addr /\ calls[c].perm = "inbound" /\ calls[c].grant -> allowIncoming(netw, p, m)
                     [] m.addr /\ calls[c].perm = "inbound" /\ ~calls[c].grant -> blockIncoming(netw, p, m)
                     [] m.addr /\ calls[c].perm = "fileshare" /\ calls[c].grant -> allowFileshare(netw, p, m)
                     [] m.addr /\ calls[c].perm = "fileshare" /\ ~calls[c].grant -> BlockFileshare(netw, p, m)
    /\ Return(c)
    /\ UNCHANGED <<config, registry, local>>

\* ResetRouting: the exit node has a lock of its own
ResetPeers(c) ==
    /\ At(c, "apply") /\ calls[c].perm \in {"routing", "lan"}
    /\ netw' = [netw EXCEPT !.exit = Forwards(calls[c].list)]
    /\ Goto(c, "refreshIncoming")
    /\ UNCHANGED <<config, registry, local>>

RefreshIncoming(c) ==
    /\ At(c, "refreshIncoming")
    /\ netw' = refreshIncoming(netw, calls[c].peer, Target(c))
    /\ Return(c)
    /\ UNCHANGED <<config, registry, local>>

Refresh(c) ==
    /\ At(c, "refresh")
    /\ netw' = refresh(netw, calls[c].list)
    /\ Return(c)
    /\ UNCHANGED <<config, registry, local>>

\* EnableMeshnet and StartMeshnet: "meshnet already set" is an error
SetMesh(c) ==
    /\ At(c, "setMesh")
    /\ IF netw.isMeshnetSet THEN Return(c) /\ UNCHANGED netw
       ELSE /\ netw' = [refresh(netw, calls[c].list) EXCEPT !.isMeshnetSet = TRUE]
            /\ Goto(c, IF Kind(c) = "enable" THEN "saveOn" ELSE "share")
    /\ UNCHANGED <<config, registry, local>>

\* DisableMeshnet stops VPN only when it was connected to a peer last.
StopVPN(c) ==
    /\ At(c, "stop")
    /\ netw' = IF Kind(c) = "disable" /\ netw.lastServer # lastConnectedPeer THEN netw
               ELSE [netw EXCEPT !.vpn = None]
    /\ Goto(c, "unset")
    /\ UNCHANGED <<config, registry, local>>

UnsetMesh(c) ==
    /\ At(c, "unset")
    /\ netw' = UnSetMesh(netw)
    /\ Goto(c, "saveOff")
    /\ UNCHANGED <<config, registry, local>>

\* The mesh library fails: the rules are gone by then, and meshnet stays set or
\* unset as it was.
LibFailure(c) ==
    /\ "lib" \in Faulty
    /\ \/ At(c, "setMesh") /\ ~netw.isMeshnetSet /\ Return(c)
       \/ At(c, "refresh") /\ Return(c)
       \/ /\ At(c, "unset") /\ netw.isMeshnetSet
          /\ IF Kind(c) = "logout" /\ ~calls[c].removed THEN Return(c) ELSE Goto(c, "saveOff")
    /\ netw' = [netw EXCEPT !.rules = {}, !.exit = NoForwards]
    /\ UNCHANGED <<config, registry, local>>

\* Connect to a peer; its name is noted after the networker returned.
ConnectPeer(c) ==
    /\ At(c, "connect")
    /\ \/ netw' = [netw EXCEPT !.vpn = calls[c].peer, !.lastServer = calls[c].peer] /\ Goto(c, "connected")
       \/ netw' = [netw EXCEPT !.vpn = None] /\ Return(c)
    /\ UNCHANGED <<config, registry, local>>

\* Mutant: the name is not noted.
ConnectedForgets(c) == At(c, "connected") /\ Return(c) /\ UNCHANGED <<config, registry, netw, local>>

Connected(c) ==
    /\ At(c, "connected")
    /\ lastConnectedPeer' = calls[c].peer
    /\ Return(c)
    /\ UNCHANGED <<config, registry, netw, share, monitored, booting, crashed>>

\* The fileshare job treats all peers of the list alike, one call each.
Job(c) ==
    /\ At(c, "job")
    /\ IF \E p \in Peers : calls[c].list[p].listed
       THEN \E p \in Peers :
               /\ calls[c].list[p].listed
               /\ netw' = IF calls[c].grant THEN allowFileshare(netw, p, calls[c].list[p])
                          ELSE BlockFileshare(netw, p, calls[c].list[p])
               /\ calls' = [calls EXCEPT ![c].list[p].listed = FALSE]
               /\ UNCHANGED monitored
       ELSE monitored' = calls[c].grant /\ Return(c) /\ UNCHANGED netw
    /\ UNCHANGED <<config, registry, share, booting, lastConnectedPeer, crashed>>

-----------------------------------------------------------------------------
(* Calls of the configuration and of norduser.                              *)

\* Mutant: the removed device is forgotten, but meshnet stays on.
SaveOffKeepsMesh(c) ==
    /\ At(c, "saveOff")
    /\ config' = [config EXCEPT !.mesh = @ /\ calls[c].removed, !.device = @ /\ ~calls[c].removed]
    /\ Return(c)
    /\ UNCHANGED <<registry, netw, local>>

SaveOff(c) ==
    /\ At(c, "saveOff")
    /\ config' = CASE calls[c].removed -> [config EXCEPT !.mesh = FALSE, !.device = FALSE]
                   [] ~calls[c].removed /\ Kind(c) = "disable" -> [config EXCEPT !.mesh = FALSE]
                   [] ~calls[c].removed /\ Kind(c) = "logout" -> [config EXCEPT !.mesh = FALSE, !.user = FALSE]
                   [] ~calls[c].removed /\ Kind(c) = "defaults" ->
                          [mesh |-> FALSE, device |-> FALSE, user |-> FALSE, pq |-> FALSE]
    /\ Return(c)
    /\ UNCHANGED <<registry, netw, local>>

SavePostQuantum(c) ==
    /\ At(c, "savePq")
    /\ config' = [config EXCEPT !.pq = calls[c].grant]
    /\ Return(c)
    /\ UNCHANGED <<registry, netw, local>>

\* The nickname is written into the saved MeshDevice, also when it is nil.
SaveName(c) ==
    /\ At(c, "saveName")
    /\ crashed' = ~config.device
    /\ Goto(c, "map")
    /\ UNCHANGED <<config, registry, netw, share, monitored, booting, lastConnectedPeer>>

\* NotifyPeerUpdate saves what the map says of this machine.
SaveDevice(c) ==
    /\ At(c, "saveDevice")
    /\ config' = [config EXCEPT !.device = TRUE]
    /\ Goto(c, "refresh")
    /\ UNCHANGED <<registry, netw, local>>

\* The saved MeshDevice is compared with the new one, also when it is nil.
SaveOn(c) ==
    /\ At(c, "saveOn")
    /\ config' = IF config.device THEN [config EXCEPT !.mesh = TRUE] ELSE config
    /\ crashed' = ~config.device
    /\ Goto(c, "share")
    /\ UNCHANGED <<registry, netw, share, monitored, booting, lastConnectedPeer>>

\* IsEnabled registers the device before it looks at the setting.
Asked == config.user /\ IsRegistrationInfoCorrect

\* The fileshare process asks whether meshnet is enabled, and exits if not.
StartFileshare(c) ==
    /\ At(c, "share")
    /\ \/ Asked /\ share' = (share \/ config.mesh)
       \/ UNCHANGED <<config, registry, share>>
    /\ Return(c)
    /\ UNCHANGED <<netw, monitored, booting, lastConnectedPeer, crashed>>

StopFileshare(c) ==
    /\ At(c, "unshare")
    /\ share' = FALSE
    /\ Goto(c, IF calls[c].removed THEN "unset" ELSE "stop")
    /\ UNCHANGED <<config, registry, netw, monitored, booting, lastConnectedPeer, crashed>>

-----------------------------------------------------------------------------
(* What happens outside the server.                                         *)

Occurs(event) == ~crashed /\ event \in Ops

\* A client of the server asks; the answer is of no concern here.
IsEnabled == Occurs("isEnabled") /\ Asked /\ UNCHANGED <<netw, local, calls>>

\* Another user accepts an invitation of this machine.
PeerJoins ==
    /\ Occurs("join")
    /\ \E p \in Peers, perm \in SUBSET Grantable :
          /\ ~registry.peer[p].listed
          /\ registry' = [registry EXCEPT !.peer[p].listed = TRUE, !.peer[p].perm = perm]
    /\ UNCHANGED <<config, netw, local, calls>>

\* A peer that was never online has no address yet.
PeerGetsAddress ==
    /\ Occurs("address")
    /\ \E p \in Offline :
          /\ ~registry.peer[p].addr
          /\ registry' = [registry EXCEPT !.peer[p].addr = TRUE]
    /\ UNCHANGED <<config, netw, local, calls>>

\* This machine is removed from the account elsewhere.
MachineRemoved ==
    /\ Occurs("unregister") /\ registry.registered
    /\ registry' = [registry EXCEPT !.registered = FALSE]
    /\ UNCHANGED <<config, netw, local, calls>>

Login ==
    /\ Occurs("login") /\ ~config.user
    /\ config' = [config EXCEPT !.user = TRUE]
    /\ UNCHANGED <<registry, netw, local, calls>>

FileshareExits ==
    /\ Occurs("exit") /\ share
    /\ share' = FALSE
    /\ UNCHANGED <<config, registry, netw, monitored, booting, lastConnectedPeer, calls, crashed>>

\* RPC.Connect and Disconnect, under the same sharedctx.Context as ConnectPeer.
ConnectServer ==
    /\ Occurs("vpn") /\ \A c \in Calls : Kind(c) # "connect"
    /\ \/ netw' = [netw EXCEPT !.vpn = "server", !.lastServer = "server"]
       \/ netw' = [netw EXCEPT !.vpn = None]
    /\ UNCHANGED <<config, registry, local, calls>>

\* The daemon stops, having finished its requests, and starts again.
Restart ==
    /\ Occurs("restart") /\ \A c \in Calls : calls[c] = Idle
    /\ netw' = NewNetworker
    /\ share' = FALSE
    /\ monitored' = FALSE
    /\ booting' = config.mesh
    /\ lastConnectedPeer' = None
    /\ UNCHANGED <<config, registry, calls, crashed>>

Handler(c) ==
    \/ AllowIncoming(c) \/ DenyIncoming(c) \/ AllowRouting(c) \/ DenyRouting(c)
    \/ AllowLocalNetwork(c) \/ DenyLocalNetwork(c) \/ AllowFileshare(c) \/ DenyFileshare(c)
    \/ EnableAutomaticFileshare(c) \/ DisableAutomaticFileshare(c)
    \/ RemovePeer(c) \/ RemoveUnregistered(c) \/ AcceptInvite(c) \/ NotifyNewTransfer(c) \/ Connect(c)
    \/ Invite(c) \/ DenyInvite(c) \/ RevokeInvite(c) \/ GetInvites(c)
    \/ EnableMeshnet(c) \/ StartMeshnet(c) \/ DisableMeshnet(c) \/ RefreshMeshnet(c) \/ GetPeers(c)
    \/ ChangePeerNickname(c) \/ ChangeMachineNickname(c) \/ NotifyPeerUpdate(c)
    \/ JobMonitorFileshareProcess(c) \/ SetPostQuantum(c) \/ Logout(c) \/ SetDefaults(c)

Step(c) ==
    \/ Load(c) \/ NotifyOn(c) \/ NotifyOff(c) \/ List(c) \/ Map(c) \/ SelfRemoved(c) \/ Unauthorized(c)
    \/ ApiFailure(c) \/ Configure(c) \/ Accept(c) \/ Invitations(c) \/ Remove(c) \/ Apply(c) \/ ResetPeers(c) \/ LibFailure(c)
    \/ RefreshIncoming(c) \/ Refresh(c) \/ SetMesh(c) \/ StopVPN(c) \/ UnsetMesh(c)
    \/ ConnectPeer(c) \/ Connected(c) \/ Job(c) \/ SaveOff(c) \/ SaveOn(c)
    \/ StartFileshare(c) \/ StopFileshare(c) \/ Update(c) \/ SaveName(c) \/ SaveDevice(c)
    \/ SavePostQuantum(c)

Environment ==
    \/ PeerJoins \/ PeerGetsAddress \/ MachineRemoved \/ Login \/ FileshareExits
    \/ ConnectServer \/ IsEnabled \/ Restart \/ StartAutoMeshnetEnds

Next == Environment \/ \E c \in Calls : Handler(c) \/ Step(c)

Spec == Init /\ [][Next]_vars

\* A handler that began goes on, and the periodic refresh begins again and again.
FairSpec ==
    Spec /\ \A c \in Calls : WF_vars(Step(c)) /\ SF_vars(RefreshMeshnet(c))

-----------------------------------------------------------------------------
(* Properties.                                                              *)

\* The type of every variable; what a peer may forward is routing and LAN.
TypeOK ==
    /\ config \in [mesh : BOOLEAN, device : BOOLEAN, user : BOOLEAN, pq : BOOLEAN]
    /\ registry.registered \in BOOLEAN
    /\ registry.peer \in [Peers -> [listed : BOOLEAN, addr : BOOLEAN, perm : SUBSET Permissions]]
    /\ netw.isMeshnetSet \in BOOLEAN
    /\ netw.rules \subseteq {Block} \cup ({"allow", "block-lan", "fileshare"} \X Peers \X BOOLEAN)
    /\ netw.exit \in [Peers -> SUBSET {"routing", "lan"}]
    /\ netw.vpn \in Peers \cup {None, "server"}
    /\ netw.lastServer \in Peers \cup {None, "server"}
    /\ {share, monitored, booting, crashed} \subseteq BOOLEAN
    /\ lastConnectedPeer \in Peers \cup {None}
    /\ \A c \in Calls : calls[c].kind \in Kinds /\ calls[c].pc \in Pcs

\* No handler is under way.
Quiet == \A c \in Calls : calls[c] = Idle

\* Between requests, no peer may do more than the registry grants it: what the
\* permission handlers, AcceptInvite and the refreshes left in the firewall and
\* the exit node never exceeds the permissions, and a peer that may not reach the
\* LAN has its block-lan rule.
NoMoreThanGranted ==
    Quiet /\ netw.isMeshnetSet => \A p \in Peers : registry.peer[p].listed =>
        /\ <<"allow", p, TRUE>> \in netw.rules => Has(registry.peer[p], "inbound")
        /\ <<"fileshare", p, TRUE>> \in netw.rules => Has(registry.peer[p], "fileshare")
        /\ netw.exit[p] \subseteq registry.peer[p].perm
        /\ <<"allow", p, TRUE>> \in netw.rules /\ <<"block-lan", p, TRUE>> \notin netw.rules
              => LanAllowed(registry.peer[p])

\* DenyFileshare "forbids peer to send files to this device": a peer without the
\* permission has no fileshare rule between requests.
FileshareDenied ==
    Quiet /\ netw.isMeshnetSet => \A p \in Peers :
        registry.peer[p].listed /\ <<"fileshare", p, TRUE>> \in netw.rules
            => Has(registry.peer[p], "fileshare")

\* Meshnet is on in the configuration only with a saved device: StartMeshnet and
\* the handlers that check cfg.Mesh dereference it.  The device is forgotten by
\* the meshunsetter and by SetDefaults, at any time within other handlers.
MeshHasDevice == config.mesh => config.device

\* Between requests, meshnet does not run when the configuration says it is off:
\* every path that turns it off in one place does so in the other.  EnableMeshnet
\* and SetPostQuantum refuse each other's setting.
OnAsConfigured == (Quiet /\ netw.isMeshnetSet => config.mesh) /\ ~(config.mesh /\ config.pq)

\* A block-lan rule is there only with the allow rule it restricts: allowIncoming
\* looks for the allow rule only, and would track a block-lan rule left behind a
\* second time.
LanRuleWithAllow ==
    \A p \in Peers, addr \in BOOLEAN :
        <<"block-lan", p, addr>> \in netw.rules => <<"allow", p, addr>> \in netw.rules

\* No handler dereferences a nil MeshDevice: registration, removal of this
\* machine, logout and reset come in any order between requests.
NoPanic == ~crashed

\* After DisableMeshnet no peer carries the traffic of this machine: it stops VPN
\* when the last server is the last connected peer, whatever was connected before.
DisableEndsPeer ==
    [][\A c \in Calls : At(c, "saveOff") /\ Kind(c) = "disable" /\ calls'[c] = Idle
          => calls[c].removed \/ netw.vpn \notin Peers]_vars

\* Meshnet is on and peer p has the permissions perm.
Settled(p, perm) ==
    /\ config.mesh /\ config.user /\ netw.isMeshnetSet /\ registry.registered
    /\ registry.peer[p] = [listed |-> TRUE, addr |-> TRUE, perm |-> perm]

\* The firewall and the exit node do for p what the registry says.
Agrees(p) ==
    LET m == registry.peer[p]
    IN  /\ <<"allow", p, TRUE>> \in netw.rules <=> Has(m, "inbound")
        /\ <<"block-lan", p, TRUE>> \in netw.rules <=> Has(m, "inbound") /\ ~LanAllowed(m)
        /\ <<"fileshare", p, TRUE>> \in netw.rules <=> Has(m, "fileshare")
        /\ netw.exit[p] = m.perm \cap {"routing", "lan"}

\* Handlers that interleave may leave the firewall and the exit node in
\* disagreement with the registry; once the permissions of a peer stay the same,
\* the disagreement ends for good, because RefreshMeshnet is run again and again.
Converges ==
    \A p \in Peers, perm \in SUBSET Grantable : <>[]Settled(p, perm) => <>[]Agrees(p)
=============================================================================
