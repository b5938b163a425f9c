----------------------------- MODULE StateStream -----------------------------
(* The stream of state changes to the clients of the daemon: the publisher    *)
(* hands an event to every subscriber that waits for one and goes on, so a     *)
(* client that is slow misses what is published meanwhile.                     *)
EXTENDS Naturals, Sequences, SequencesExt

CONSTANTS
    Streams,      \* the calls of SubscribeToStateChanges
    MaxEvents     \* how many events are published

VARIABLES
    subscribers,  \* of the publisher, in order
    chan, stop,   \* the two channels of each subscription
    stream,       \* the goroutine of each call: where it is, and the event it holds
    gone,         \* the streams whose client has gone
    client,       \* what the client of each stream was sent
    vpn,          \* the connection: "down", "trying", "up"
    events        \* how many events there were

vars == <<subscribers, chan, stop, stream, gone, client, vpn, events>>

None == "none"
Kinds == {"attempt", "success", "failure", "disconnect", "other"}
Idle == [pc |-> "select", kind |-> None, number |-> 0]

Init ==
    /\ subscribers = <<>>
    /\ chan = [s \in Streams |-> None]
    /\ stop = [s \in Streams |-> None]
    /\ stream = [s \in Streams |-> [Idle EXCEPT !.pc = "off"]]
    /\ gone = {}
    /\ client = [s \in Streams |-> [last |-> 0, shows |-> None, missed |-> TRUE]]
    /\ vpn = "down"
    /\ events = 0

Stopped(s) == stop[s] = "closed"
Closed(c) == [s \in Streams |-> IF s \in ToSet(subscribers) /\ Stopped(s) THEN "closed" ELSE c[s]]

\* AddSubscriber, which also forgets those who have stopped
AddSubscriber(s) ==
    /\ stream[s].pc = "off"
    /\ subscribers' = Append(SelectSeq(subscribers, LAMBDA t : ~Stopped(t)), s)
    /\ chan' = [Closed(chan) EXCEPT ![s] = "open"]
    /\ stop' = [stop EXCEPT ![s] = "open"]
    /\ stream' = [stream EXCEPT ![s] = Idle]
    /\ UNCHANGED <<gone, client, vpn, events>>

\* Those who are busy are forgotten, too.
StillSubscribedMutant(taking) == SelectSeq(subscribers, LAMBDA s : ~Stopped(s) /\ s \in taking)

StillSubscribed(taking) == SelectSeq(subscribers, LAMBDA s : ~Stopped(s))

\* notify, under the mutex: to those in their select; one whose client has gone as
\* well may take either
notify(kind) ==
    /\ events < MaxEvents
    /\ \E taking \in SUBSET {s \in ToSet(subscribers) : stream[s].pc = "select"} :
          /\ \A s \in ToSet(subscribers) : stream[s].pc = "select" /\ s \notin gone => s \in taking
          /\ subscribers' = StillSubscribed(taking)
          /\ chan' = Closed(chan)
          /\ stream' = [s \in Streams |-> IF s \in taking THEN [pc |-> "send", kind |-> kind, number |-> events + 1] ELSE stream[s]]
          /\ client' = [s \in Streams |-> [client[s] EXCEPT !.missed = IF s \in taking THEN @ /\ kind = "other" ELSE @ \/ kind # "other"]]
    /\ events' = events + 1
    /\ UNCHANGED <<stop, gone>>

\* What the daemon publishes of its connection, and what else
Connecting == notify("attempt") /\ vpn' = "trying"
Connected == vpn = "trying" /\ notify("success") /\ vpn' = "up"
Failed == vpn = "trying" /\ notify("failure") /\ vpn' = "down"
Disconnected == vpn = "up" /\ notify("disconnect") /\ vpn' = "down"
OtherEvent == notify("other") /\ UNCHANGED vpn

\* Every event of a connection is taken for a connection.
ShownMutant(kind, before) ==
    CASE kind \in {"attempt", "success", "failure"} -> "CONNECTED"
      [] kind = "disconnect" -> "DISCONNECTED"
      [] OTHER -> before

Shown(kind, before) ==
    CASE kind = "success" -> "CONNECTED"
      [] kind \in {"attempt", "failure"} -> "CONNECTING"
      [] kind = "disconnect" -> "DISCONNECTED"
      [] OTHER -> before

\* The event is not let go of, and is sent again.
SendMutant(s) ==
    /\ stream[s].pc = "send"
    /\ client' = IF s \in gone THEN client
                 ELSE [client EXCEPT ![s].last = stream[s].number, ![s].shows = Shown(stream[s].kind, @)]
    /\ UNCHANGED <<subscribers, chan, stop, stream, gone, vpn, events>>

\* statusStream: a failure to send is only logged
Send(s) ==
    /\ stream[s].pc = "send"
    /\ client' = IF s \in gone THEN client
                 ELSE [client EXCEPT ![s].last = stream[s].number, ![s].shows = Shown(stream[s].kind, @)]
    /\ stream' = [stream EXCEPT ![s] = Idle]
    /\ UNCHANGED <<subscribers, chan, stop, gone, vpn, events>>

ClientGoes(s) ==
    /\ stream[s].pc \in {"select", "send"} /\ s \notin gone
    /\ gone' = gone \cup {s}
    /\ UNCHANGED <<subscribers, chan, stop, stream, client, vpn, events>>

\* The channel is closed by whoever ends.
StreamEndsMutant(s) ==
    /\ stream[s].pc = "select" /\ s \in gone
    /\ stop' = [stop EXCEPT ![s] = "closed"]
    /\ UNCHANGED <<subscribers, chan, stream, gone, client, vpn, events>>

StreamEnds(s) ==
    /\ stream[s].pc = "select" /\ s \in gone
    /\ stop' = [stop EXCEPT ![s] = "closed"]
    /\ stream' = [stream EXCEPT ![s].pc = "ended"]
    /\ UNCHANGED <<subscribers, chan, gone, client, vpn, events>>

Next ==
    \/ Connecting \/ Connected \/ Failed \/ Disconnected \/ OtherEvent
    \/ \E s \in Streams : AddSubscriber(s) \/ Send(s) \/ ClientGoes(s) \/ StreamEnds(s)

Spec == Init /\ [][Next]_vars

StreamTypeOK ==
    /\ ToSet(subscribers) \subseteq Streams
    /\ chan \in [Streams -> {None, "open", "closed"}] /\ stop \in [Streams -> {None, "open", "closed"}]
    /\ events \in 0..MaxEvents

\* notify: a stream stays subscribed, once, until it has stopped, however slow its
\* client is and whoever else comes and goes.
SubscribedUntilStopped ==
    /\ \A s \in Streams : stream[s].pc \in {"select", "send"} => s \in ToSet(subscribers)
    /\ IsInjective(subscribers)

\* notify and statusStream: a channel is closed for those only who no longer read it;
\* a reader of a closed channel would spin.
ClosedIsUnread == \A s \in Streams : chan[s] = "closed" => stream[s].pc = "ended"

\* statusStream: a client that missed no event of the connection shows a connection
\* exactly when there is one, up to the event that it is being sent.
ShowsConnection ==
    \A s \in Streams : ~client[s].missed /\ s \notin gone /\ stream[s].pc = "select" => (client[s].shows = "CONNECTED") = (vpn = "up")

\* notify and statusStream: an event is sent to a client once, and after all those
\* published before it.
InOrder == \A s \in Streams : stream[s].pc = "send" => stream[s].number > client[s].last
=============================================================================
