---------------------------- MODULE RemoteConfig ----------------------------
(***************************************************************************)
(* The features that libtelio starts with (config/remote/firebase.go and    *)
(* libtelio/config.go): the daemon asks the remote configuration for the    *)
(* field of its version when it starts, at most once a day from the         *)
(* service and otherwise from what is saved, and takes the defaults when    *)
(* it finds none.  The daemon may end at any time, and start again as       *)
(* another version.                                                         *)
(***************************************************************************)
EXTENDS Naturals, Sequences, FiniteSets, SequencesExt

CONSTANTS
    Field,         \* the parameters "telio_config_...": the version in the name, and how it is written
    Configs,       \* what the service may hold: the parameters that are set, and their values
    AppVersions,
    Faults         \* "service", "json", "save", "load", "features", "local": what may fail or be set

VARIABLES
    service,       \* what the service holds
    saved,         \* RemoteConfig of the daemon's settings, if any, and whether RCLastUpdate is a period ago
    config,        \* RConfig.config: the parameters in memory
    start          \* the start of the daemon

vars == <<service, saved, config, start>>

May(fault) == fault \in Faults
None == "none"
Default == "default"
NoConfig == [k \in {} |-> None]
Off == [pc |-> "off", app |-> 0, field |-> None, features |-> None]

Init ==
    /\ service \in Configs
    /\ saved = [config |-> {}, due |-> TRUE]
    /\ config = NoConfig
    /\ start = Off

\* stringToSemVersion: prefix, suffix and underscores are dropped, the rest may be no version.
stringToSemVersion(f) == IF Field[f].form = "none" THEN 0 ELSE Field[f].version

\* FetchRemoteConfig: what the service holds, if it answers
FetchRemoteConfig == {{service}} \cup (IF May("service") THEN {{}} ELSE {})

\* What the service answers is checked, and the time is saved even when there is no answer.  A
\* failure to save is one to fetch.
fetchAndSaveRemoteConfigMutant ==
    {[saved |-> [config |-> {service}, due |-> FALSE], fetched |-> {service}]}
    \cup (IF May("service") \/ May("json") THEN {[saved |-> [config |-> {}, due |-> FALSE], fetched |-> {}]} ELSE {})

fetchAndSaveRemoteConfig ==
    LET Saved(answer) == [config |-> IF answer = {} THEN saved.config ELSE answer, due |-> FALSE]
        Checked == FetchRemoteConfig \cup (IF May("json") THEN {{}} ELSE {})
    IN {[saved |-> Saved(answer), fetched |-> answer] : answer \in Checked}
    \cup (IF May("save") THEN {[saved |-> saved, fetched |-> {}]} ELSE {})

\* json.Unmarshal into what is there: parameters that are no longer set stay.
ParsedMutant(c) == c
Parsed(c) == [k \in DOMAIN c \cup DOMAIN config |-> IF k \in DOMAIN c THEN c[k] ELSE config[k]]

fetchRemoteConfigIfTime ==
    LET Result(s, text) == IF text = {} THEN [saved |-> s, config |-> config, err |-> TRUE]
                           ELSE [saved |-> s, config |-> Parsed(CHOOSE c \in text : TRUE), err |-> FALSE]
    IN (IF saved.due THEN {Result(o.saved, IF o.fetched = {} THEN saved.config ELSE o.fetched) : o \in fetchAndSaveRemoteConfig}
        ELSE {Result(saved, saved.config)})
       \cup (IF May("load") THEN {[saved |-> saved, config |-> config, err |-> TRUE]} ELSE {})

\* The list of fields, the newest first: a field goes before the first that is not newer.
insertFieldVersionMutant(list, f) ==
    LET older == {i \in 1 .. Len(list) : stringToSemVersion(list[i]) >= stringToSemVersion(f)}
    IN InsertAt(list, IF older = {} THEN Len(list) + 1 ELSE Min(older), f)
insertFieldVersion(list, f) ==
    LET older == {i \in 1 .. Len(list) : stringToSemVersion(list[i]) <= stringToSemVersion(f)}
    IN InsertAt(list, IF older = {} THEN Len(list) + 1 ELSE Min(older), f)

\* The first that is not newer than the daemon.
findVersionField(list, app) ==
    LET i == SelectInSeq(list, LAMBDA f : app >= stringToSemVersion(f))
    IN IF i = 0 THEN None ELSE list[i]

\* The fields are met in any order, which is that of a map.
VersionFields == {f \in DOMAIN config \cap DOMAIN Field : stringToSemVersion(f) # 0}
Orders == {o \in [1 .. Cardinality(VersionFields) -> VersionFields] : Range(o) = VersionFields}

Ends(features) == start' = [start EXCEPT !.pc = "done", !.features = features]

\* Fetch: what is set in the environment, or the file named there if it can be read
Fetch == IF May("local") THEN {"local", Default} ELSE {}

\* TelioConfig.GetConfig: what is set in the environment goes first.
GetConfig ==
    /\ start.pc = "off"
    /\ \E app \in AppVersions :
         \/ start' = [Off EXCEPT !.pc = "fetch", !.app = app]
         \/ start' \in [pc : {"done"}, app : {app}, field : {None}, features : Fetch]
    /\ UNCHANGED <<service, saved, config>>

\* GetTelioConfig: what is in memory does when there is nothing else.
GetTelioConfig ==
    /\ start.pc = "fetch"
    /\ \E o \in fetchRemoteConfigIfTime :
         /\ saved' = o.saved /\ config' = o.config
         /\ IF o.err /\ DOMAIN o.config = {} THEN Ends(Default) ELSE start' = [start EXCEPT !.pc = "find"]
    /\ UNCHANGED service

Find ==
    /\ start.pc = "find"
    /\ \E order \in Orders :
         LET f == findVersionField(FoldLeft(insertFieldVersion, <<>>, order), start.app)
         IN IF f = None THEN Ends(Default) ELSE start' = [start EXCEPT !.pc = "get", !.field = f]
    /\ UNCHANGED <<service, saved, config>>

\* GetValue asks again whether it is time.
GetValue ==
    /\ start.pc = "get"
    /\ \E o \in fetchRemoteConfigIfTime :
         /\ saved' = o.saved /\ config' = o.config
         /\ start' = IF start.field \in DOMAIN o.config
                     THEN [start EXCEPT !.pc = "parse", !.features = o.config[start.field]]
                     ELSE [start EXCEPT !.pc = "done", !.features = Default]
    /\ UNCHANGED service

\* handleTelioConfig: a value libtelio does not understand is not used.
handleTelioConfig ==
    /\ start.pc = "parse"
    /\ Ends(start.features) \/ (May("features") /\ Ends(Default))
    /\ UNCHANGED <<service, saved, config>>

\* The service, the time, and the end of the process
ServiceChanges == service' \in Configs \ {service} /\ UNCHANGED <<saved, config, start>>
PeriodPasses == ~saved.due /\ saved' = [saved EXCEPT !.due = TRUE] /\ UNCHANGED <<service, config, start>>
Exit == start.pc # "off" /\ start' = Off /\ config' = NoConfig /\ UNCHANGED <<service, saved>>

Next ==
    \/ GetConfig \/ GetTelioConfig \/ Find \/ GetValue \/ handleTelioConfig
    \/ ServiceChanges \/ PeriodPasses \/ Exit

Spec == Init /\ [][Next]_vars

-----------------------------------------------------------------------------
Suits(f, app) == stringToSemVersion(f) \in 1 .. app
Suitable(parameters, app) == {f \in DOMAIN parameters \cap DOMAIN Field : Suits(f, app)}

RemoteTypeOK ==
    /\ service \in Configs /\ saved.config \in {{}} \cup {{c} : c \in Configs} /\ saved.due \in BOOLEAN
    /\ \A k \in DOMAIN config : \E c \in Configs : k \in DOMAIN c /\ config[k] = c[k]
    /\ start.pc \in {"off", "fetch", "find", "get", "parse", "done"}

\* insertFieldVersion and findVersionField: "if exact match is not found then first older
\* version is chosen" (remote_config.go), whatever the order of the fields.
NewestThatSuits ==
    start.pc = "get" =>
        /\ start.field \in Suitable(config, start.app)
        /\ \A f \in Suitable(config, start.app) : stringToSemVersion(f) <= stringToSemVersion(start.field)

\* GetTelioConfig and GetValue: the daemon does without the remote configuration only when
\* neither memory nor what is saved has a field for it, though the service fails and the
\* configuration changes between the two.
DefaultsWhenNone ==
    start.pc = "done" /\ start.features = Default =>
        Suitable(config, start.app) = {} /\ \A c \in saved.config : Suitable(c, start.app) = {}

\* fetchAndSaveRemoteConfig: what was saved is replaced by something newer, never lost.
CacheIsKept == saved.config # {} => saved'.config # {}
=============================================================================
