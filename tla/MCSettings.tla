------------------------------ MODULE MCSettings ------------------------------
(***************************************************************************)
(* The settings, a group of commands per behaviour, the file that keeps    *)
(* them, and the remote configuration.                                     *)
(***************************************************************************)
EXTENDS Naturals, Sequences, TLC

CONSTANTS MaxPort, MaxKeys

VARIABLES
    scenario,
    cfg, netw, call,
    net, cli,
    file, vault, keys, mu, thread, published, up, acked, damaged,
    service, saved, config, start

settingsVars == <<cfg, netw, call>>
meshVars == <<net, cli>>
fileVars == <<file, vault, keys, mu, thread, published, up, acked, damaged>>
remoteVars == <<service, saved, config, start>>
vars == <<scenario, settingsVars, fileVars, meshVars, remoteVars>>

Clients == {"cli"}
Interleaved == FALSE

Ports == INSTANCE Settings WITH Faults <- {},
    Commands <- {"add port", "remove port", "add ports", "remove ports", "killswitch"}
Tunnel == INSTANCE Settings WITH Faults <- {},
    Commands <- {"technology", "protocol", "obfuscate", "postquantum", "meshnet", "autoconnect", "routing"}
Filter == INSTANCE Settings WITH Faults <- {},
    Commands <- {"firewall", "killswitch", "routing", "lan", "add subnet", "remove subnet", "remove all"}
Names == INSTANCE Settings WITH Faults <- {},
    Commands <- {"dns", "tpl", "autoconnect"}
Others == INSTANCE Settings WITH Faults <- {},
    Commands <- {"analytics", "notify", "tray", "ipv6", "virtual", "mark", "settings"}
Failures == INSTANCE Settings WITH
    Faults <- {"rpc", "load", "login", "factory", "netw", "save", "fileshare"},
    Commands <- {"analytics", "firewall", "killswitch", "notify"}
MoreFailures == INSTANCE Settings WITH
    Faults <- {"rpc", "load", "login", "factory", "netw", "save", "fileshare"},
    Commands <- {"technology", "postquantum", "defaults", "autoconnect", "lan", "add subnet"}

Fields == {"a", "b"}
File == INSTANCE ConfigManager WITH
    Threads <- {"t1", "t2"}, Ops <- {"SaveWith", "Load", "Reset"}, Faults <- {"kill", "full"}
OneThread == INSTANCE ConfigManager WITH
    Threads <- {"t1"}, Ops <- {"SaveWith", "Load"}, Faults <- {"kill"}

Pubkey == ("p1" :> "k1") @@ ("p2" :> "k2")
Mesh == INSTANCE CliMesh WITH
    Local <- {"p1"}, External <- {"p2"}, Nicknames <- {"n"}, Emails <- {}, Faults <- {"api", "lib"},
    Commands <- {"allow routing", "deny routing", "remove", "connect", "set nickname"}
Invites == INSTANCE CliMesh WITH
    Local <- {}, External <- {}, Nicknames <- {}, Emails <- {"e1"}, Faults <- {"api", "lib", "rpc"},
    Commands <- {"invites", "invite", "accept", "deny", "revoke", "list", "refresh",
                 "set own nickname", "remove own nickname"}
Grants == INSTANCE CliMesh WITH
    Local <- {}, External <- {"p2"}, Nicknames <- {"n"}, Emails <- {}, Faults <- {"lib", "rpc"},
    Commands <- {"allow incoming", "deny incoming", "allow lan", "deny lan", "allow fileshare", "deny fileshare",
                 "enable automatic", "disable automatic", "remove nickname"}

Field ==
    LET Name(v, f) == [version |-> v, form |-> f]
    IN [telio_1 |-> Name(1, "plain"), telio_2 |-> Name(2, "plain"), telio_2_test |-> Name(2, "test"), telio_x |-> Name(0, "none")]
Configs == {[telio_1 |-> "a"], [telio_1 |-> "b", telio_2 |-> "b", telio_x |-> "b"],
            [telio_2 |-> "a", telio_2_test |-> "a", other |-> "a"], [other |-> "b"]}
AppVersions == {1, 2}
Remote == INSTANCE RemoteConfig WITH Faults <- {"service", "json", "save"}
RemoteFailures == INSTANCE RemoteConfig WITH Faults <- {"service", "load", "features", "local"}

Init ==
    /\ scenario \in {"ports", "tunnel", "filter", "names", "others", "failures", "more", "file", "one",
                    "mesh", "invites", "grants", "remote", "remote failures"}
    /\ Ports!Init
    /\ IF scenario = "invites" THEN Invites!Init ELSE IF scenario = "grants" THEN Grants!Init ELSE Mesh!Init
    /\ IF scenario = "one" THEN OneThread!Init ELSE File!Init
    /\ Remote!Init /\ (scenario = "remote" \/ service = [other |-> "b"])

Next ==
    \/ scenario = "ports" /\ Ports!Next /\ UNCHANGED <<scenario, fileVars, meshVars, remoteVars>>
    \/ scenario = "tunnel" /\ Tunnel!Next /\ UNCHANGED <<scenario, fileVars, meshVars, remoteVars>>
    \/ scenario = "filter" /\ Filter!Next /\ UNCHANGED <<scenario, fileVars, meshVars, remoteVars>>
    \/ scenario = "names" /\ Names!Next /\ UNCHANGED <<scenario, fileVars, meshVars, remoteVars>>
    \/ scenario = "others" /\ Others!Next /\ UNCHANGED <<scenario, fileVars, meshVars, remoteVars>>
    \/ scenario = "failures" /\ Failures!Next /\ UNCHANGED <<scenario, fileVars, meshVars, remoteVars>>
    \/ scenario = "more" /\ MoreFailures!Next /\ UNCHANGED <<scenario, fileVars, meshVars, remoteVars>>
    \/ scenario = "file" /\ File!Next /\ UNCHANGED <<scenario, settingsVars, meshVars, remoteVars>>
    \/ scenario = "one" /\ OneThread!Next /\ UNCHANGED <<scenario, settingsVars, meshVars, remoteVars>>
    \/ scenario = "mesh" /\ Mesh!Next /\ UNCHANGED <<scenario, settingsVars, fileVars, remoteVars>>
    \/ scenario = "invites" /\ Invites!Next /\ UNCHANGED <<scenario, settingsVars, fileVars, remoteVars>>
    \/ scenario = "grants" /\ Grants!Next /\ UNCHANGED <<scenario, settingsVars, fileVars, remoteVars>>
    \/ scenario = "remote" /\ Remote!Next /\ UNCHANGED <<scenario, settingsVars, fileVars, meshVars>>
    \/ scenario = "remote failures" /\ RemoteFailures!Next /\ UNCHANGED <<scenario, settingsVars, fileVars, meshVars>>

Spec == Init /\ [][Next]_vars

Failing == scenario \in {"failures", "more"}

\* Settings and CliSettings: the settings fit together, are in force and are shown when no
\* command fails; whatever fails, a command that is said to be done has been saved.
AppliedAsSaved ==
    /\ Ports!TypeOK /\ Ports!PrintedAllowlist /\ Ports!DoneMeansSaved
    /\ ~Failing => Ports!SettingsConsistent /\ Ports!AppliedAsSaved /\ Ports!ShownAsSaved

\* ConfigManager: no save undoes another, and one thread publishes what it saved.
\* RemoteConfig: the features are those of the newest version that suits, from what is saved
\* when the service fails.
SavedIsKept ==
    /\ File!ConfigTypeOK /\ File!SavedIsKept
    /\ scenario = "one" => OneThread!PublishedIsSaved
    /\ scenario \in {"remote", "remote failures"} => Remote!RemoteTypeOK /\ Remote!NewestThatSuits
    /\ scenario = "remote" => Remote!DefaultsWhenNone

\* CliMesh: the commands about peers change the peer they name, as the user said.
NamedPeerOnly ==
    /\ scenario = "mesh" => Mesh!MeshTypeOK
    /\ scenario = "grants" => Grants!MeshTypeOK
    /\ Mesh!NamedPeerOnly /\ Mesh!AcceptedAsSaid

\* ConfigManager: a start leaves a file that can be read.  CliMesh: what a command
\* shows in the end is what it did.  RemoteConfig: what was saved is never lost.
AnsweredAsDone == [][File!StartRepairs /\ Mesh!MeshShownAsDone /\ Remote!CacheIsKept]_vars
=============================================================================
