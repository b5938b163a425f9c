---------------------------- MODULE ConfigManager ----------------------------
(***************************************************************************)
(* FilesystemConfigManager (config/manager.go): the configuration is a     *)
(* file, encrypted with a key that is kept in another file, the vault.     *)
(*                                                                         *)
(* Threads of the daemon call Load, SaveWith and Reset, one at a time       *)
(* under the mutex.  Writing a file (os.WriteFile) is two steps, it is      *)
(* truncated and then written: the disk may be full, or the daemon may be   *)
(* killed, in between.  When the daemon starts again it loads the           *)
(* configuration, and resets it when that fails (cmd/daemon/main.go).       *)
(***************************************************************************)
EXTENDS Naturals, FiniteSets

CONSTANTS
    Threads,      \* callers in the daemon
    Fields,       \* the settings, all 0 at first
    Ops,          \* what they call: "SaveWith", "Load", "Reset"
    Faults,       \* what may happen: "full" (the disk), "kill" (the daemon)
    MaxKeys       \* bound: the keys that generateKey makes

VARIABLES
    file,         \* the configuration file
    vault,        \* the vault
    keys,         \* the keys made so far
    mu,           \* the thread that holds the mutex, or "free"
    thread,       \* what every thread does
    published,    \* the configuration that was last published; those who are told of it
                  \* begin with the one that is loaded at the start
    up,           \* whether the daemon runs
    acked,        \* history: the settings that were saved
    damaged       \* history: a write of the configuration was cut short

vars == <<file, vault, keys, mu, thread, published, up, acked, damaged>>

Missing == [is |-> "missing"]
Empty == [is |-> "empty"]
Key(k) == [is |-> "key", key |-> k]
Data(k, d) == [is |-> "data", key |-> k, data |-> d]

newConfig == [f \in Fields |-> 0]

Asleep == [pc |-> "idle", op |-> "none", field |-> "none", value |-> 0, cfg |-> newConfig, first |-> FALSE,
           err |-> "none"]

Init ==
    /\ file = Missing /\ vault = Missing /\ keys = 0
    /\ mu = "free" /\ thread = [t \in Threads |-> Asleep]
    /\ published = newConfig /\ up = FALSE /\ acked = newConfig /\ damaged = FALSE

Goes(t, pc) == thread' = [thread EXCEPT ![t].pc = pc]
Fails(t, err) == thread' = [thread EXCEPT ![t].pc = "unlock", ![t].err = err]

\* A thread calls SaveWith to set a field, Load, or Reset.
Call(t) ==
    /\ up /\ thread[t].pc = "idle"
    /\ \E op \in Ops, f \in Fields, v \in {0, 1} :
          /\ op # "SaveWith" => f = (CHOOSE g \in Fields : TRUE) /\ v = 0
          /\ thread' = [thread EXCEPT ![t] = [Asleep EXCEPT !.pc = "lock", !.op = op, !.field = f, !.value = v]]
    /\ UNCHANGED <<file, vault, keys, mu, published, up, acked, damaged>>

\* Mutant: there is no mutex.
LockMutant(t) ==
    /\ thread[t].pc = "lock"
    /\ Goes(t, "key")
    /\ UNCHANGED <<file, vault, keys, mu, published, up, acked, damaged>>

Lock(t) ==
    /\ thread[t].pc = "lock" /\ mu = "free"
    /\ mu' = t
    /\ Goes(t, "key")
    /\ UNCHANGED <<file, vault, keys, published, up, acked, damaged>>

\* getPassphrase: a vault that is missing or empty gets a new key, in two steps.
getPassphrase(t) ==
    /\ thread[t].pc = "key"
    /\ IF vault.is = "key" THEN UNCHANGED <<vault, keys>> /\ Goes(t, "file")
       ELSE /\ keys < MaxKeys
            /\ vault' = Empty /\ keys' = keys + 1
            /\ Goes(t, "newKey")
    /\ UNCHANGED <<file, mu, published, up, acked, damaged>>

newKey(t) ==
    /\ thread[t].pc = "newKey"
    /\ \/ vault' = Key(keys) /\ Goes(t, "file")
       \/ "full" \in Faults /\ UNCHANGED vault /\ Fails(t, "load")
    /\ UNCHANGED <<file, keys, mu, published, up, acked, damaged>>

\* What is loaded is the defaults, overridden by the file.
Loaded == IF file.is = "data" THEN file.data ELSE newConfig

Readable == file.is = "data" /\ vault.is = "key" /\ file.key = vault.key

Writes(t, cfg) == [thread EXCEPT ![t].pc = "truncate", ![t].cfg = cfg]

\* load, and what follows it: a missing file is first written with the defaults,
\* one that cannot be decrypted is an error.
load(t) ==
    /\ thread[t].pc = "file"
    /\ \/ /\ thread[t].op = "Reset"
          /\ thread' = Writes(t, newConfig)
       \/ /\ thread[t].op # "Reset" /\ file.is = "missing"
          /\ thread' = [Writes(t, newConfig) EXCEPT ![t].first = TRUE]
       \/ /\ thread[t].op # "Reset" /\ file.is # "missing" /\ ~Readable
          /\ Fails(t, "load")
       \/ /\ thread[t].op = "Load" /\ Readable
          /\ thread' = [thread EXCEPT ![t].pc = "unlock", ![t].cfg = Loaded]
       \/ /\ thread[t].op = "SaveWith" /\ Readable
          /\ thread' = Writes(t, [Loaded EXCEPT ![thread[t].field] = thread[t].value])
    /\ UNCHANGED <<file, vault, keys, mu, published, up, acked, damaged>>

\* save: os.WriteFile truncates the file ...
truncate(t) ==
    /\ thread[t].pc = "truncate"
    /\ file' = Empty /\ damaged' = TRUE
    /\ Goes(t, "write")
    /\ UNCHANGED <<vault, keys, mu, published, up, acked>>

\* ... and writes it
write(t) ==
    /\ thread[t].pc = "write"
    /\ \/ /\ file' = Data(vault.key, thread[t].cfg)
          /\ damaged' = FALSE
          /\ acked' = IF thread[t].op = "SaveWith" /\ ~thread[t].first
                     THEN [acked EXCEPT ![thread[t].field] = thread[t].value] ELSE newConfig
          /\ thread' = [thread EXCEPT ![t].pc = IF thread[t].first THEN "file" ELSE "unlock", ![t].first = FALSE]
       \/ /\ "full" \in Faults
          /\ Fails(t, IF thread[t].first THEN "load" ELSE "save")
          /\ UNCHANGED <<file, damaged, acked>>
    /\ UNCHANGED <<vault, keys, mu, published, up>>

\* SaveWith publishes after it has unlocked, also when loading failed: the
\* error is that of an inner scope.  Load and Reset publish nothing.
Unlock(t) ==
    /\ thread[t].pc = "unlock"
    /\ mu' = "free"
    /\ Goes(t, IF thread[t].op = "SaveWith" THEN "publish" ELSE "idle")
    /\ UNCHANGED <<file, vault, keys, published, up, acked, damaged>>

\* cfg is what was saved, or the defaults when loading failed.
Publishes(call) == call.err # "save"

Publish(t) ==
    /\ thread[t].pc = "publish"
    /\ published' = IF Publishes(thread[t]) THEN thread[t].cfg ELSE published
    /\ Goes(t, "idle")
    /\ UNCHANGED <<file, vault, keys, mu, up, acked, damaged>>

\* The daemon is killed.
Kill ==
    /\ "kill" \in Faults /\ up
    /\ up' = FALSE /\ mu' = "free" /\ thread' = [t \in Threads |-> Asleep]
    /\ UNCHANGED <<file, vault, keys, published, acked, damaged>>

\* The daemon starts: Load, and Reset when it fails.  A vault without a key gets
\* a new one.  (Being killed in between is to be killed before or after.)
Start ==
    LET makesKey == vault.is # "key"
        key == IF makesKey THEN keys + 1 ELSE vault.key
    IN /\ ~up
       /\ makesKey => keys < MaxKeys
       /\ vault' = Key(key) /\ keys' = IF makesKey THEN keys + 1 ELSE keys
       /\ file' = IF Readable THEN file ELSE Data(key, newConfig)
       /\ acked' = IF damaged \/ file.is = "missing" THEN newConfig ELSE acked
       /\ published' = Loaded
       /\ up' = TRUE /\ damaged' = FALSE
       /\ UNCHANGED <<mu, thread>>

Next ==
    \/ \E t \in Threads : \/ Call(t) \/ Lock(t) \/ getPassphrase(t) \/ newKey(t) \/ load(t) \/ truncate(t)
                          \/ write(t) \/ Unlock(t) \/ Publish(t)
    \/ Kill
    \/ Start

Spec == Init /\ [][Next]_vars

-----------------------------------------------------------------------------
(* Properties.                                                              *)

ConfigTypeOK ==
    /\ file \in {Missing, Empty} \cup {Data(k, d) : k \in 1..MaxKeys, d \in [Fields -> {0, 1}]}
    /\ vault \in {Missing, Empty} \cup {Key(k) : k \in 1..MaxKeys}
    /\ keys \in 0..MaxKeys /\ mu \in Threads \cup {"free"} /\ up \in BOOLEAN

\* What was saved is in the file, and can be read, whenever no thread is
\* writing: no thread undoes the setting of another that saved before it, and
\* a daemon that is killed and started again finds it.  Only a write that was
\* cut short loses anything.
SavedIsKept ==
    up /\ mu = "free" /\ ~damaged => Readable /\ file.data = acked

\* However the daemon was killed, after it has started the file can be read:
\* Load succeeds and Reset is never needed twice.
StartRepairs == Start => Readable'

\* With one thread that only saves and loads, what was last published is what is
\* saved: nobody who is told of the configuration keeps an old one.
PublishedIsSaved ==
    up /\ (\A t \in Threads : thread[t].pc = "idle") /\ ~damaged => published = file.data
=============================================================================
