---------------------------------- MODULE Nc ----------------------------------
(***************************************************************************)
(* The client of the notification center (nc/nc.go, nc/creds_fetcher.go):   *)
(* Start, Stop and Revoke behind one mutex, and the management loop that    *)
(* connects, subscribes, and handles what the MQTT library reports in       *)
(* goroutines of its own.                                                   *)
(***************************************************************************)
EXTENDS Naturals, FiniteSets

CONSTANTS
    Callers,      \* threads that start, stop and revoke
    Ops,          \* the operations they call
    Mine, Others, \* messages of the broker: to this machine, and to another one
    Faults        \* "api", "save", "load", "broker": what may fail; "lost": the connection,
                  \* or the password, may stop being good; "unflushed": the library keeps
                  \* the token of a lost connection open

VARIABLES
    client,       \* startMu, started, and the context of the loop that was started
    loop,         \* the goroutine of the management loop, and the message it handles
    mqtt,         \* the MQTT client: the credentials it was built with, whether it is connected
    pending,      \* handlers of the library that wait for the loop to read
    ncData,       \* NCData of the configuration, and what the broker thinks of its password
    handled,      \* messages that were published, and that were acknowledged
    call          \* what every thread does

vars == <<client, loop, mqtt, pending, ncData, handled, call>>

May(fault) == fault \in Faults
Messages == Mine \cup Others
NoClient == [built |-> FALSE, endpoint |-> FALSE, up |-> FALSE]

Init ==
    /\ client = [mu |-> "none", started |-> FALSE, cancelled |-> TRUE]
    /\ loop = [pc |-> "off", state |-> "connecting", msg |-> "none"]
    /\ mqtt = NoClient
    /\ pending = {}
    /\ ncData = [userID |-> FALSE, endpoint |-> FALSE, password |-> "refused"]
    /\ handled = [done |-> {}, acked |-> {}]
    /\ call = [c \in Callers |-> [op |-> "none", pc |-> "idle"]]

-----------------------------------------------------------------------------
(* The credentials.                                                         *)

\* areNCCredentialsValid: anything that is there makes them valid.
areNCCredentialsValid == ncData.userID \/ ncData.endpoint

\* GetCredentialsFromAPI saves a new identifier, asks, and saves the answer.
GetCredentialsFromAPI(ok) ==
    IF ok THEN ncData' = [userID |-> TRUE, endpoint |-> TRUE, password |-> "accepted"]
    ELSE \/ May("save") /\ ncData' \in {ncData, [ncData EXCEPT !.userID = TRUE, !.password = "refused"]}
         \/ May("api") /\ ncData' = [ncData EXCEPT !.userID = TRUE]

-----------------------------------------------------------------------------
(* Start, Stop and Revoke.                                                  *)

Issue(c) ==
    /\ call[c].pc = "idle"
    /\ \E op \in Ops : call' = [call EXCEPT ![c] = [op |-> op, pc |-> "lock"]]
    /\ UNCHANGED <<client, loop, mqtt, pending, ncData, handled>>

Returns(c) == call' = [call EXCEPT ![c].pc = "idle"]

\* Start: the loop is not started when the configuration cannot be read.
Start(c) ==
    /\ call[c].pc = "lock" /\ call[c].op = "Start" /\ client.mu = "none"
    /\ \/ client.started /\ UNCHANGED <<client, loop, mqtt>>
       \/ May("load") /\ ~client.started /\ client' = [client EXCEPT !.cancelled = FALSE] /\ UNCHANGED <<loop, mqtt>>
       \/ /\ ~client.started
          /\ client' = [client EXCEPT !.started = TRUE, !.cancelled = FALSE]
          /\ loop' = [loop EXCEPT !.pc = "connect", !.state = IF areNCCredentialsValid THEN "connecting" ELSE "needsAuthorization"]
          /\ mqtt' = IF areNCCredentialsValid THEN [built |-> TRUE, endpoint |-> ncData.endpoint, up |-> FALSE] ELSE NoClient
    /\ Returns(c)
    /\ UNCHANGED <<pending, ncData, handled>>

\* Without waiting for the loop.
StopMutant(c) ==
    /\ call[c].pc = "lock" /\ call[c].op = "Stop" /\ client.mu = "none"
    /\ client' = [client EXCEPT !.started = FALSE, !.cancelled = TRUE]
    /\ Returns(c)
    /\ UNCHANGED <<loop, mqtt, pending, ncData, handled>>

\* Stop cancels the context and waits, with the mutex, for the loop to end.
Stop(c) ==
    /\ call[c].pc = "lock" /\ call[c].op = "Stop" /\ client.mu = "none"
    /\ IF client.started
       THEN /\ client' = [client EXCEPT !.mu = c, !.cancelled = TRUE]
            /\ call' = [call EXCEPT ![c].pc = "wait"]
       ELSE Returns(c) /\ UNCHANGED client
    /\ UNCHANGED <<loop, mqtt, pending, ncData, handled>>

StopEnds(c) ==
    /\ call[c].pc = "wait" /\ loop.pc = "off"
    /\ client' = [client EXCEPT !.mu = "none", !.started = FALSE]
    /\ Returns(c)
    /\ UNCHANGED <<loop, mqtt, pending, ncData, handled>>

\* A client that runs does not keep it from revoking.
RevokeMutant(c) ==
    /\ call[c].pc = "lock" /\ call[c].op = "Revoke" /\ client.mu = "none"
    /\ ncData' = [ncData EXCEPT !.password = "revoked"]
    /\ Returns(c)
    /\ UNCHANGED <<client, loop, mqtt, pending, handled>>

\* Revoke does nothing while the client runs.
Revoke(c) ==
    /\ call[c].pc = "lock" /\ call[c].op = "Revoke" /\ client.mu = "none"
    /\ IF ~client.started /\ areNCCredentialsValid
       THEN ncData' \in {[ncData EXCEPT !.password = "revoked"]} \cup (IF May("api") THEN {ncData} ELSE {})
       ELSE UNCHANGED ncData
    /\ Returns(c)
    /\ UNCHANGED <<client, loop, mqtt, pending, handled>>

-----------------------------------------------------------------------------
(* The management loop.                                                     *)

\* tryConnect: credentials are fetched when they are needed, then the client
\* connects; a time-out, and any error but a refusal, leaves the state as it is.
tryConnect ==
    /\ loop.pc = "connect"
    /\ \/ /\ loop.state = "needsAuthorization"
          /\ GetCredentialsFromAPI(FALSE)
          /\ loop' = [loop EXCEPT !.pc = "backoff"] /\ UNCHANGED mqtt
       \/ /\ loop.state = "needsAuthorization"
          /\ GetCredentialsFromAPI(TRUE)
          /\ mqtt' = [built |-> TRUE, endpoint |-> TRUE, up |-> FALSE]
          /\ loop' = [loop EXCEPT !.state = "connecting"]
       \/ /\ loop.state = "connecting" /\ (May("broker") \/ ~mqtt.endpoint)
          /\ loop' = [loop EXCEPT !.pc = "backoff"] /\ mqtt' = [mqtt EXCEPT !.up = FALSE] /\ UNCHANGED ncData
       \/ /\ loop.state = "connecting" /\ mqtt.endpoint
          /\ UNCHANGED ncData
          /\ IF ncData.password = "accepted"
             THEN mqtt' = [mqtt EXCEPT !.up = TRUE] /\ loop' = [loop EXCEPT !.pc = "subscribe"]
             ELSE loop' = [loop EXCEPT !.pc = "backoff", !.state = "needsAuthorization"] /\ UNCHANGED mqtt
    /\ UNCHANGED <<client, pending, handled, call>>

\* Only being connected ends it.
connectWithBackoffMutant ==
    /\ loop.pc = "backoff"
    /\ loop' = [loop EXCEPT !.pc = "connect"]
    /\ UNCHANGED <<client, mqtt, pending, ncData, handled, call>>

\* connectWithBackoff, between two attempts: it waits, or ends when the context is cancelled
connectWithBackoff ==
    /\ loop.pc = "backoff"
    /\ IF client.cancelled
       THEN loop' = [loop EXCEPT !.pc = "select"] /\ mqtt' = [mqtt EXCEPT !.up = FALSE]
       ELSE loop' = [loop EXCEPT !.pc = "connect"] /\ UNCHANGED mqtt
    /\ UNCHANGED <<client, pending, ncData, handled, call>>

\* SubscribeMultiple: its failure is published and nothing more
Subscribe ==
    /\ loop.pc = "subscribe"
    /\ loop' = [loop EXCEPT !.pc = "select"]
    /\ UNCHANGED <<client, mqtt, pending, ncData, handled, call>>

\* The loop reads an event, or ends; when both are possible either happens.
ncClientManagementLoop ==
    /\ loop.pc = "select"
    /\ \/ /\ client.cancelled
          /\ mqtt' = NoClient /\ loop' = [loop EXCEPT !.pc = "off"] /\ UNCHANGED <<pending, handled>>
       \/ \E ev \in pending :
            /\ pending' = pending \ {ev}
            /\ UNCHANGED mqtt
            /\ IF ev \in Messages
               THEN loop' = IF ev \in Mine \ handled.acked THEN [loop EXCEPT !.pc = "confirm", !.msg = ev] ELSE loop
               ELSE loop' = [loop EXCEPT !.pc = "connect", !.state = IF ev = "authLost" THEN "needsAuthorization" ELSE "connecting"]
            /\ UNCHANGED handled
    /\ UNCHANGED <<client, ncData, call>>

\* A token is waited for without a time-out.
TokenEnds == mqtt.up \/ ~May("unflushed")

\* handleMessage: the delivery is confirmed, or is not
sendDeliveryConfirmation ==
    /\ loop.pc = "confirm" /\ TokenEnds
    /\ loop' = [loop EXCEPT !.pc = "acknowledge"]
    /\ UNCHANGED <<client, mqtt, pending, ncData, handled, call>>

\* ... then it is acknowledged, if the connection is there ...
sendAcknowledgement ==
    /\ loop.pc = "acknowledge" /\ TokenEnds
    /\ handled' = [handled EXCEPT !.acked = IF mqtt.up THEN @ \cup {loop.msg} ELSE @]
    /\ loop' = [loop EXCEPT !.pc = "publish"]
    /\ UNCHANGED <<client, mqtt, pending, ncData, call>>

\* A client that is being stopped does not publish the message any more.
handleMessageMutant ==
    /\ loop.pc = "publish"
    /\ handled' = [handled EXCEPT !.done = IF client.cancelled THEN @ ELSE @ \cup {loop.msg}]
    /\ loop' = [loop EXCEPT !.pc = "select", !.msg = "none"]
    /\ UNCHANGED <<client, mqtt, pending, ncData, call>>

\* ... and published whether it was or not.
handleMessage ==
    /\ loop.pc = "publish"
    /\ handled' = [handled EXCEPT !.done = @ \cup {loop.msg}]
    /\ loop' = [loop EXCEPT !.pc = "select", !.msg = "none"]
    /\ UNCHANGED <<client, mqtt, pending, ncData, call>>

-----------------------------------------------------------------------------
(* The MQTT library (external).                                             *)

\* A handler waits for the loop, unless the context is cancelled.
ConnectionLost ==
    /\ mqtt.up /\ May("lost")
    /\ mqtt' = [mqtt EXCEPT !.up = FALSE]
    /\ pending' = IF client.cancelled THEN pending ELSE pending \cup {IF ncData.password = "accepted" THEN "connectionLost" ELSE "authLost"}
    /\ UNCHANGED <<client, loop, ncData, handled, call>>

\* A message that was not acknowledged is sent again.
MessageArrives ==
    /\ mqtt.up /\ ~client.cancelled
    /\ \E m \in Messages \ handled.acked : pending' = pending \cup {m}
    /\ UNCHANGED <<client, loop, mqtt, ncData, handled, call>>

\* The handlers of a client that was stopped give up.
HandlersEnd ==
    /\ client.cancelled /\ pending # {}
    /\ pending' = {}
    /\ UNCHANGED <<client, loop, mqtt, ncData, handled, call>>

\* The password is changed at the service.
PasswordChanges ==
    /\ May("lost") /\ ncData.password = "accepted"
    /\ ncData' = [ncData EXCEPT !.password = "refused"]
    /\ UNCHANGED <<client, loop, mqtt, pending, handled, call>>

Loop == tryConnect \/ connectWithBackoff \/ Subscribe \/ ncClientManagementLoop \/ sendDeliveryConfirmation
        \/ sendAcknowledgement \/ handleMessage
Next ==
    \/ \E c \in Callers : Issue(c) \/ Start(c) \/ Stop(c) \/ StopEnds(c) \/ Revoke(c)
    \/ Loop \/ ConnectionLost \/ MessageArrives \/ HandlersEnd \/ PasswordChanges

Spec == Init /\ [][Next]_vars

LoopEnds == loop.pc = "select" /\ client.cancelled /\ ncClientManagementLoop /\ loop'.pc = "off"
Steps(c) == Start(c) \/ Stop(c) \/ Revoke(c)

\* The goroutines go on; the mutex is handed over in order.
Fairness ==
    /\ WF_vars(Loop) /\ WF_vars(HandlersEnd)
    /\ SF_vars(LoopEnds)
    /\ \A c \in Callers : SF_vars(Steps(c)) /\ WF_vars(StopEnds(c))
FairSpec == Spec /\ Fairness

-----------------------------------------------------------------------------
(* Properties.                                                              *)

NcTypeOK ==
    /\ client.mu \in Callers \cup {"none"}
    /\ loop.pc \in {"off", "connect", "backoff", "subscribe", "select", "confirm", "acknowledge", "publish"}
    /\ loop.state \in {"connecting", "needsAuthorization"}
    /\ pending \subseteq Messages \cup {"authLost", "connectionLost"}

\* Once Stop has returned nothing of the client runs: there is no loop, no
\* connection, and no second loop beside the one that the next Start starts.
QuietWhenStopped == ~client.started => loop.pc = "off" /\ ~mqtt.up

\* Credentials are revoked only when no loop and no connection uses them.
NotRevokedInUse == ncData.password # "revoked" /\ ncData'.password = "revoked" => loop.pc = "off" /\ ~mqtt.up

\* A message that the broker will not send again was published, or the loop is
\* about to: whatever Stop and the connection do between its acknowledgement and
\* its publication, the loop does not end before it has published it.
AckedIsPublished == handled.acked \subseteq handled.done \cup (IF loop.pc = "publish" THEN {loop.msg} ELSE {})

\* Stop returns, wherever the loop is.
StopReturns == \A c \in Callers : []<>(call[c].pc # "wait")
=============================================================================
