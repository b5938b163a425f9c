------------------------------- MODULE CliMesh -------------------------------
(***************************************************************************)
(* `nordvpn meshnet peer ...` and `nordvpn meshnet invite ...`             *)
(* (cli/cli_mesh_peers.go, cli/cli_mesh_invite.go).                        *)
(*                                                                         *)
(* A command that is about a peer asks the daemon for the peers, finds the *)
(* one that has the name that was typed, and sends a request with the       *)
(* identifier of that peer; one that answers an invitation asks for the     *)
(* invitations first.  Between the two calls other devices and other        *)
(* clients change the peers, their names and the invitations.  The daemon's *)
(* side is Meshnet.tla; here it is a step that answers, and changes what it *)
(* was asked to when the answer is Empty, or LIB_FAILURE: the networker is  *)
(* called after the registry has been changed.                              *)
(***************************************************************************)
EXTENDS Naturals, FiniteSets, TLC

CONSTANTS
    Local,        \* the user's other machines
    External,     \* the machines of others
    Pubkey,       \* the public key of every machine
    Nicknames,    \* nicknames
    Emails,       \* those who invite and are invited
    Commands,     \* the commands that are run
    Faults        \* what may happen: "api" (the API fails), "lib" (the networker fails),
                  \* "rpc" (the daemon is not there)

VARIABLES
    net,          \* the meshnet: peers, invitations, the exit node
    cli           \* the command

vars == <<net, cli>>

Peers == Local \cup External
Permissions == {"routing", "incoming", "lan", "fileshare", "automatic"}

-----------------------------------------------------------------------------
(* The answers and the ends of the commands.  An answer that the command    *)
(* does not know ends in "internal", the message of an internal error.      *)

Ending(cases, answer) == IF answer \in DOMAIN cases THEN cases[answer] ELSE "internal"

serviceErrorCode == [NOT_LOGGED_IN |-> "error"]

meshnetError ==
    [NOT_REGISTERED |-> "error", LIB_FAILURE |-> "error", ALREADY_DISABLED |-> "error", ALREADY_ENABLED |-> "error",
     NOT_ENABLED |-> "error", TECH_FAILURE |-> "error", TUNNEL_CLOSED |-> "error", CONFLICT_WITH_PQ |-> "error"]

updatePeerErrorCode == [PEER_NOT_FOUND |-> "error"]

allowRoutingErrorCode == [ROUTING_ALREADY_ALLOWED |-> "error"]
denyRoutingErrorCode == [ROUTING_ALREADY_DENIED |-> "error"]
allowIncomingErrorCode == [INCOMING_ALREADY_ALLOWED |-> "error"]
denyIncomingErrorCode == [INCOMING_ALREADY_DENIED |-> "error"]
allowLocalNetworkErrorCode == [LOCAL_NETWORK_ALREADY_ALLOWED |-> "error"]
denyLocalNetworkErrorCode == [LOCAL_NETWORK_ALREADY_DENIED |-> "error"]
allowFileshareErrorCode == [SEND_ALREADY_ALLOWED |-> "error"]
denyFileshareErrorCode == [SEND_ALREADY_DENIED |-> "error"]
enableAutomaticFileshareErrorCode == [AUTOMATIC_FILESHARE_ALREADY_ENABLED |-> "error"]
disableAutomaticFileshareErrorCode == [AUTOMATIC_FILESHARE_ALREADY_DISABLED |-> "error"]

connectErrorCodeMutant ==
    [ALREADY_CONNECTED |-> "error", PEER_DOES_NOT_ALLOW_ROUTING |-> "error", CONNECT_FAILED |-> "error",
     PEER_NO_IP |-> "error", ALREADY_CONNECTING |-> "note", CANCELED |-> "done"]

connectErrorCode ==
    [ALREADY_CONNECTED |-> "error", PEER_DOES_NOT_ALLOW_ROUTING |-> "error", CONNECT_FAILED |-> "error",
     PEER_NO_IP |-> "error", ALREADY_CONNECTING |-> "note", CANCELED |-> "note"]

getChangeNicknameResponse ==
    [SAME_NICKNAME |-> "error", DOMAIN_NAME_EXISTS |-> "error", RATE_LIMIT_REACH |-> "error",
     NICKNAME_TOO_LONG |-> "error", DUPLICATE_NICKNAME |-> "error", CONTAINS_FORBIDDEN_WORD |-> "error",
     SUFFIX_OR_PREFIX_ARE_INVALID |-> "error", NICKNAME_HAS_DOUBLE_HYPHENS |-> "error",
     INVALID_CHARS |-> "error", NICKNAME_ALREADY_EMPTY |-> "error"]

inviteErrorCode ==
    [ALREADY_EXISTS |-> "error", INVALID_EMAIL |-> "error", SAME_ACCOUNT_EMAIL |-> "error",
     PEER_COUNT |-> "error", LIMIT_REACHED |-> "error"]

respondToInviteErrorCode == [NO_SUCH_INVITATION |-> "error", DEVICE_COUNT |-> "error"]

Done == [Empty |-> "done"]
Update == Done @@ serviceErrorCode @@ updatePeerErrorCode

allowRoutingResponse == Update @@ allowRoutingErrorCode
denyRoutingResponse == Update @@ denyRoutingErrorCode
allowIncomingResponse == Update @@ allowIncomingErrorCode
denyIncomingResponse == Update @@ denyIncomingErrorCode
allowLocalNetworkResponse == Update @@ allowLocalNetworkErrorCode
denyLocalNetworkResponse == Update @@ denyLocalNetworkErrorCode
allowFileshareResponse == Update @@ allowFileshareErrorCode
denyFileshareResponse == Update @@ denyFileshareErrorCode
enableAutomaticFileshareResponse == Update @@ enableAutomaticFileshareErrorCode
disableAutomaticFileshareResponse == Update @@ disableAutomaticFileshareErrorCode
removePeerResponse == Update
connectResponse == Update @@ connectErrorCode @@ meshnetError
changeMeshnetPeerNickname == Update @@ meshnetError @@ getChangeNicknameResponse
MachineNicknameResponse == Done @@ serviceErrorCode @@ meshnetError @@ getChangeNicknameResponse
getMeshnetResponse == Done @@ serviceErrorCode @@ meshnetError
getPeersResponse == [Peers |-> "done"] @@ serviceErrorCode @@ meshnetError
invitesListResponse == [Invites |-> "done"] @@ serviceErrorCode @@ meshnetError
inviteResponse == Done @@ serviceErrorCode @@ meshnetError @@ inviteErrorCode
respondToInviteResponse == Done @@ serviceErrorCode @@ meshnetError @@ respondToInviteErrorCode

-----------------------------------------------------------------------------
(* The commands: what is asked first, what of, and the ends.  A command     *)
(* that gives or takes a permission names it.                               *)

OfPeer(cases) == [first |-> "peers", cases |-> cases, permission |-> "none", allow |-> FALSE, already |-> "none"]
Grant(cases, permission, allow, already) ==
    [OfPeer(cases) EXCEPT !.permission = permission, !.allow = allow, !.already = already]

MeshPeerAllowRouting == Grant(allowRoutingResponse, "routing", TRUE, "ROUTING_ALREADY_ALLOWED")
MeshPeerDenyRouting == Grant(denyRoutingResponse, "routing", FALSE, "ROUTING_ALREADY_DENIED")
MeshPeerAllowIncoming == Grant(allowIncomingResponse, "incoming", TRUE, "INCOMING_ALREADY_ALLOWED")
MeshPeerDenyIncoming == Grant(denyIncomingResponse, "incoming", FALSE, "INCOMING_ALREADY_DENIED")
MeshPeerAllowLocalNetwork == Grant(allowLocalNetworkResponse, "lan", TRUE, "LOCAL_NETWORK_ALREADY_ALLOWED")
MeshPeerDenyLocalNetwork == Grant(denyLocalNetworkResponse, "lan", FALSE, "LOCAL_NETWORK_ALREADY_DENIED")
MeshPeerAllowFileshare == Grant(allowFileshareResponse, "fileshare", TRUE, "SEND_ALREADY_ALLOWED")
MeshPeerDenyFileshare == Grant(denyFileshareResponse, "fileshare", FALSE, "SEND_ALREADY_DENIED")
MeshPeerEnableAutomaticFileshare ==
    Grant(enableAutomaticFileshareResponse, "automatic", TRUE, "AUTOMATIC_FILESHARE_ALREADY_ENABLED")
MeshPeerDisableAutomaticFileshare ==
    Grant(disableAutomaticFileshareResponse, "automatic", FALSE, "AUTOMATIC_FILESHARE_ALREADY_DISABLED")
MeshPeerRemove == OfPeer(removePeerResponse)
MeshPeerConnect == OfPeer(connectResponse)
MeshPeerSetNickname == OfPeer(changeMeshnetPeerNickname)
MeshPeerRemoveNickname == OfPeer(changeMeshnetPeerNickname)
MeshPeerList == [OfPeer(getPeersResponse) EXCEPT !.first = "none"]
MeshRefresh == [OfPeer(getMeshnetResponse) EXCEPT !.first = "none"]
MeshSetMachineNickname == [OfPeer(MachineNicknameResponse) EXCEPT !.first = "none"]
MeshRemoveMachineNickname == [OfPeer(MachineNicknameResponse) EXCEPT !.first = "none"]
MeshGetInvites == [OfPeer(invitesListResponse) EXCEPT !.first = "none"]
MeshInviteSend == [OfPeer(inviteResponse) EXCEPT !.first = "invites"]
MeshInviteAccept == [OfPeer(respondToInviteResponse) EXCEPT !.first = "invites"]
MeshInviteDeny == [OfPeer(respondToInviteResponse) EXCEPT !.first = "none"]
MeshInviteRevoke == [OfPeer(respondToInviteResponse) EXCEPT !.first = "none"]

Command(cmd) ==
    CASE cmd = "allow routing" -> MeshPeerAllowRouting
      [] cmd = "deny routing" -> MeshPeerDenyRouting
      [] cmd = "allow incoming" -> MeshPeerAllowIncoming
      [] cmd = "deny incoming" -> MeshPeerDenyIncoming
      [] cmd = "allow lan" -> MeshPeerAllowLocalNetwork
      [] cmd = "deny lan" -> MeshPeerDenyLocalNetwork
      [] cmd = "allow fileshare" -> MeshPeerAllowFileshare
      [] cmd = "deny fileshare" -> MeshPeerDenyFileshare
      [] cmd = "enable automatic" -> MeshPeerEnableAutomaticFileshare
      [] cmd = "disable automatic" -> MeshPeerDisableAutomaticFileshare
      [] cmd = "remove" -> MeshPeerRemove
      [] cmd = "connect" -> MeshPeerConnect
      [] cmd = "set nickname" -> MeshPeerSetNickname
      [] cmd = "remove nickname" -> MeshPeerRemoveNickname
      [] cmd = "list" -> MeshPeerList
      [] cmd = "refresh" -> MeshRefresh
      [] cmd = "set own nickname" -> MeshSetMachineNickname
      [] cmd = "remove own nickname" -> MeshRemoveMachineNickname
      [] cmd = "invites" -> MeshGetInvites
      [] cmd = "invite" -> MeshInviteSend
      [] cmd = "accept" -> MeshInviteAccept
      [] cmd = "deny" -> MeshInviteDeny
      [] cmd = "revoke" -> MeshInviteRevoke

Identifiers(cmd) ==
    IF cmd \in {"invite", "accept", "deny", "revoke"} THEN Emails
    ELSE IF Command(cmd).first = "peers" THEN Peers \cup {Pubkey[p] : p \in Peers} \cup Nicknames ELSE {"none"}

readForConfirmationMutant(answer, default) == IF answer \in {"other", "no"} THEN default ELSE TRUE

\* readForConfirmation: yes, no, or anything else
readForConfirmation(answer, default) == IF answer = "other" THEN default ELSE answer = "yes"

\* meshPermissions: a flag that is set decides, else the user is asked.  said has
\* the flag or the answer for every permission.
meshPermissions(said) ==
    {p \in DOMAIN said :
        IF said[p] \in {"flag", "no flag"} THEN said[p] = "flag" ELSE readForConfirmation(said[p], p # "routing")}

\* What a user may say: one of the permissions is not left to its default.
Said == {[[q \in Permissions \ {"automatic"} |-> "other"] EXCEPT ![p] = a] :
            p \in Permissions \ {"automatic"}, a \in {"flag", "no flag", "yes", "no", "other"}}

-----------------------------------------------------------------------------
(* The steps of a command.                                                  *)

Idle == [pc |-> "idle", cmd |-> "none", id |-> "none", peer |-> "none", bore |-> {}, hit |-> "none",
         said |-> <<>>, end |-> "none"]

Init ==
    /\ net = [on |-> TRUE, present |-> Peers, nick |-> [p \in Peers |-> "none"], grants |-> [p \in Peers |-> {}],
              sent |-> {}, received |-> Emails, accepted |-> <<>>, exit |-> "none",
              connecting |-> "none", cancelled |-> FALSE]
    /\ cli = Idle

Ends(end) == cli' = [cli EXCEPT !.pc = "idle", !.end = end]

Issue ==
    /\ cli.pc = "idle"
    /\ \E cmd \in Commands : \E id \in Identifiers(cmd) :
          cli' = [Idle EXCEPT !.pc = IF Command(cmd).first = "none" THEN "send" ELSE "first", !.cmd = cmd, !.id = id]
    /\ UNCHANGED net

\* MakePeerMaps: the peers that a key or a name may stand for.  Local peers come
\* last and take a name from external ones; among those the order decides.
Named(id) == {p \in net.present : id \in {Pubkey[p], p, net.nick[p]}}
MakePeerMaps(id) ==
    LET keys == {p \in net.present : Pubkey[p] = id}
    IN IF keys # {} THEN keys
       ELSE IF Named(id) \cap Local # {} THEN Named(id) \cap Local ELSE Named(id)

retrievePeerFromArgs ==
    /\ cli.pc = "first" /\ Command(cli.cmd).first = "peers"
    /\ IF ~net.on \/ MakePeerMaps(cli.id) = {} THEN Ends("error")
       ELSE \E p \in MakePeerMaps(cli.id) :
              cli' = [cli EXCEPT !.pc = "send", !.peer = p, !.bore = Named(cli.id)]
    /\ UNCHANGED net

\* The invitations are asked for before one is sent or accepted.
GetInvites ==
    /\ cli.pc = "first" /\ Command(cli.cmd).first = "invites"
    /\ \/ /\ ~net.on \/ (cli.cmd = "invite" /\ cli.id \in net.sent) \/ (cli.cmd = "accept" /\ cli.id \notin net.received)
          /\ Ends("error")
       \/ /\ net.on /\ (cli.cmd = "invite" => cli.id \notin net.sent) /\ (cli.cmd = "accept" => cli.id \in net.received)
          /\ \E said \in Said : cli' = [cli EXCEPT !.pc = "send", !.said = said]
    /\ UNCHANGED net

\* The answers of Meshnet.tla to a request about a peer
Answer(cmd, peer) ==
    CASE ~net.on -> "NOT_ENABLED"
      [] net.on /\ Command(cmd).first = "peers" /\ peer \notin net.present -> "PEER_NOT_FOUND"
      [] net.on /\ peer \in net.present /\ Command(cmd).permission # "none"
           /\ Command(cmd).allow = (Command(cmd).permission \in net.grants[peer]) -> Command(cmd).already
      [] net.on /\ peer \in net.present /\ cmd = "remove nickname" /\ net.nick[peer] = "none" -> "NICKNAME_ALREADY_EMPTY"
      [] net.on /\ cmd \in {"accept", "deny"} /\ cli.id \notin net.received -> "NO_SUCH_INVITATION"
      [] net.on /\ cmd = "revoke" /\ cli.id \notin net.sent -> "NO_SUCH_INVITATION"
      [] net.on /\ cmd = "invite" /\ cli.id \in net.sent -> "ALREADY_EXISTS"
      [] cmd = "list" -> "Peers"
      [] cmd = "invites" -> "Invites"
      [] OTHER -> "Empty"

\* The networker could not follow what the registry has accepted, or could not
\* set the mesh anew.
LibFails(cmd) ==
    "lib" \in Faults /\ (Command(cmd).permission \in {"routing", "incoming", "lan", "fileshare"} \/ cmd = "refresh")

Answers(cmd, peer) ==
    {Answer(cmd, peer)}
    \cup (IF Answer(cmd, peer) = "Empty" /\ LibFails(cmd) THEN {"LIB_FAILURE"} ELSE {})

\* What the daemon has done when it answers Empty or LIB_FAILURE.
Does(cmd, peer) ==
    CASE Command(cmd).permission # "none" ->
           [net EXCEPT !.grants[peer] = IF Command(cmd).allow THEN @ \cup {Command(cmd).permission}
                                        ELSE @ \ {Command(cmd).permission}]
      [] cmd = "remove" -> [net EXCEPT !.present = @ \ {peer}, !.grants[peer] = {}, !.nick[peer] = "none",
                                       !.exit = IF @ = peer THEN "none" ELSE @]
      [] cmd = "remove nickname" -> [net EXCEPT !.nick[peer] = "none"]
      [] cmd = "invite" -> [net EXCEPT !.sent = @ \cup {cli.id}]
      [] cmd = "accept" -> [net EXCEPT !.received = @ \ {cli.id}, !.accepted = (cli.id :> meshPermissions(cli.said)) @@ @]
      [] cmd = "deny" -> [net EXCEPT !.received = @ \ {cli.id}]
      [] cmd = "revoke" -> [net EXCEPT !.sent = @ \ {cli.id}]
      [] OTHER -> net

TargetMutant == IF Named(cli.id) = {} THEN cli.peer ELSE CHOOSE p \in Named(cli.id) : TRUE

\* The request is sent with the identifier of the peer that was found.
Target == cli.peer

\* The end of a command whose request got no answer.  The commands that give or
\* take a permission make an internal error of it, some because they look at the
\* missing answer and not at the error; `allow routing` shows it.
Unanswered(cmd) == IF cmd # "allow routing" /\ Command(cmd).permission # "none" THEN "internal" ELSE "rpc"

\* The API fails, or the daemon goes away; the request may have been carried out.
Fails ==
    /\ cli.pc \in {"first", "send"}
    /\ \/ "api" \in Faults /\ Ends(Ending(Command(cli.cmd).cases, "API_FAILURE"))
       \/ "rpc" \in Faults /\ Ends(IF cli.pc = "send" THEN Unanswered(cli.cmd) ELSE "rpc")
    /\ \/ UNCHANGED net
       \/ cli.pc = "send" /\ Answer(cli.cmd, Target) = "Empty" /\ net' = Does(cli.cmd, Target)

Send ==
    /\ cli.pc = "send" /\ cli.cmd \notin {"connect", "set nickname"}
    /\ \E answer \in Answers(cli.cmd, Target) :
         LET does == answer \in {"Empty", "LIB_FAILURE"} IN
         /\ net' = IF does THEN Does(cli.cmd, Target) ELSE net
         /\ cli' = [cli EXCEPT !.pc = "idle", !.end = Ending(Command(cli.cmd).cases, answer),
                               !.hit = IF does THEN Target ELSE "none"]

SetNickname ==
    /\ cli.pc = "send" /\ cli.cmd = "set nickname"
    /\ \E nick \in Nicknames \cup Peers :
         LET answer == IF Answer(cli.cmd, Target) # "Empty" THEN Answer(cli.cmd, Target)
                       ELSE IF nick = net.nick[Target] THEN "SAME_NICKNAME"
                       ELSE IF \E p \in Peers : net.nick[p] = nick THEN "DUPLICATE_NICKNAME" ELSE "Empty"
         IN /\ net' = IF answer = "Empty" THEN [net EXCEPT !.nick[Target] = nick] ELSE net
            /\ cli' = [cli EXCEPT !.pc = "idle", !.end = Ending(Command(cli.cmd).cases, answer),
                                  !.hit = IF answer = "Empty" THEN Target ELSE "none"]

\* MeshPeerConnect waits for the answer in a goroutine of its own.
ConnectBegins ==
    /\ cli.pc = "send" /\ cli.cmd = "connect"
    /\ LET answer == IF Answer("connect", Target) # "Empty" THEN Answer("connect", Target)
                     ELSE IF net.exit = Target THEN "ALREADY_CONNECTED" ELSE "Empty"
       IN IF answer = "Empty"
          THEN net' = [net EXCEPT !.connecting = Target, !.cancelled = FALSE] /\ cli' = [cli EXCEPT !.pc = "wait"]
          ELSE Ends(Ending(connectResponse, answer)) /\ UNCHANGED net

\* Ctrl-C: ConnectCancel, which does nothing while there is no connection to cancel.
Interrupt ==
    /\ cli.cmd = "connect" /\ cli.pc \in {"send", "wait"}
    /\ net' = [net EXCEPT !.cancelled = net.connecting # "none"]
    /\ UNCHANGED cli

ConnectEnds ==
    /\ cli.pc = "wait"
    /\ \E answer \in IF net.cancelled THEN {"CANCELED"} ELSE {"Empty", "CONNECT_FAILED"} :
          /\ net' = [net EXCEPT !.connecting = "none", !.exit = IF answer = "Empty" THEN Target ELSE "none"]
          /\ cli' = [cli EXCEPT !.pc = "idle", !.end = Ending(connectResponse, answer),
                                !.hit = IF answer = "Empty" THEN Target ELSE "none"]

\* Other devices and clients: a peer leaves or comes back, gets another nickname,
\* an invitation arrives or is withdrawn, meshnet is turned off and on.
Others ==
    /\ \/ \E p \in Peers : net' = [net EXCEPT !.present = IF p \in @ THEN @ \ {p} ELSE @ \cup {p},
                                         !.grants[p] = {}, !.nick[p] = "none", !.exit = IF @ = p THEN "none" ELSE @]
       \/ \E p \in net.present, n \in Nicknames \cup Peers \cup {"none"} :
             /\ n # "none" => \A q \in Peers : net.nick[q] # n
             /\ net' = [net EXCEPT !.nick[p] = n]
       \/ \E e \in Emails : net' = [net EXCEPT !.received = IF e \in @ THEN @ \ {e} ELSE @ \cup {e}]
       \/ net' = [net EXCEPT !.on = ~@]
    /\ cli.pc # "wait"
    /\ UNCHANGED cli

Next ==
    \/ Issue \/ retrievePeerFromArgs \/ GetInvites \/ Fails \/ Send \/ SetNickname
    \/ ConnectBegins \/ Interrupt \/ ConnectEnds \/ Others

Spec == Init /\ [][Next]_vars

-----------------------------------------------------------------------------
(* Properties.                                                              *)

MeshTypeOK ==
    /\ net.present \subseteq Peers /\ net.nick \in [Peers -> Nicknames \cup Peers \cup {"none"}]
    /\ net.grants \in [Peers -> SUBSET Permissions]
    /\ cli.end \in {"none", "done", "note", "error", "internal", "rpc"}

\* A command changes, removes or connects to no other peer than one that had
\* the name that was typed when it was looked up: a nickname that another peer
\* gets in the meantime does not make the command act on that peer.
NamedPeerOnly == cli.hit # "none" => cli.hit \in cli.bore

\* The end that is shown is true: after green the peer has or has not the
\* permission or is the exit node; after a note or an error that says why, the
\* command has changed no peer.  An internal error or a missing answer says
\* nothing: the registry may have been changed before the networker failed, or
\* before the answer was lost.
MeshShownAsDone ==
    /\ cli'.end = "done" /\ cli.pc = "send" /\ Command(cli.cmd).permission # "none" =>
         (Command(cli.cmd).permission \in net'.grants[cli.peer]) = Command(cli.cmd).allow
    /\ cli'.end = "done" /\ cli.cmd = "connect" /\ cli.pc = "wait" => net'.exit = cli.peer
    /\ cli.pc # "idle" /\ cli'.pc = "idle" /\ cli'.end \in {"note", "error"} =>
         net'.grants = net.grants /\ net'.nick = net.nick /\ net'.present = net.present

\* An invitation is accepted with the permissions that the user gave, whether by
\* a flag or by an answer, and without those that the user refused.
AcceptedAsSaid ==
    cli.cmd = "accept" /\ cli.pc = "idle" /\ cli.end = "done" =>
        \A p \in DOMAIN cli.said :
            /\ cli.said[p] \in {"flag", "yes"} => p \in net.accepted[cli.id]
            /\ cli.said[p] \in {"no flag", "no"} => p \notin net.accepted[cli.id]
=============================================================================
