------------------------------- MODULE Fileshare -------------------------------
(***************************************************************************)
(* The file sharing process: the event manager, to which libdrop reports    *)
(* from a thread of its own, the server whose calls accept, send, cancel    *)
(* and follow transfers, the notifications that accept and decline them,    *)
(* and the end of the process.  The manager's mutex is held over its sends  *)
(* to whoever follows a transfer.                                           *)
(***************************************************************************)
EXTENDS Integers, Sequences, FiniteSets, SequencesExt

CONSTANTS
    Transfers, Files, Clients,
    Ops,              \* what the clients call
    Faults,           \* "mesh", "send", "storage", "lib": what may fail; "fail": a transfer may;
                      \* "paused": a file may be; "stop": the process is told to end
    PathPrefixes,     \* pairs of files, the path of the first begins with that of the second
    TransferFileLimit,
    MaxEvents         \* events of libdrop that are not handled yet

VARIABLES
    drop,       \* libdrop: every transfer's direction, states and files
    queue,      \* events to come
    handler,    \* the event thread: what it still has to send, with the mutex
    live,       \* liveTransfers
    subs,       \* transferSubscriptions: the client that receives from the channel
    nm,         \* the notification manager, and the transfers it shows buttons for
    peer,       \* what the other side of the transfers may do
    main,       \* the main goroutine
    call,       \* what every client does
    asked       \* files that the user asked for, or let the peer send

vars == <<drop, queue, handler, live, subs, nm, peer, main, call, asked>>

None == "none"
May(fault) == fault \in Faults
Size == 2

Buttons == {"NotifyAccept", "NotifyCancel", "NotifyClose"}

FileStates == {"new", "pending", "started", "paused", "completed", "rejected", "failed"}
NoTransfer == [dir |-> None, end |-> None, files |-> [f \in Files |-> "new"],
               bytes |-> [f \in Files |-> 0], done |-> [f \in Files |-> 0]]
NoLive == [on |-> FALSE, files |-> {}, finished |-> {}, bytes |-> [f \in Files |-> 0], size |-> 0, total |-> 0]
Idle == [op |-> None, pc |-> "idle", t |-> None, silent |-> TRUE, chosen |-> {}, todo |-> {}, started |-> FALSE]

Init ==
    /\ drop = [t \in Transfers |-> NoTransfer]
    /\ queue = <<>>
    /\ handler = [pc |-> "idle", t |-> None, status |-> None, over |-> FALSE]
    /\ live = [t \in Transfers |-> NoLive]
    /\ subs = [t \in Transfers |-> None]
    /\ nm \in {[on |-> on, shown |-> {}] : on \in (IF Ops \cap Buttons # {} THEN BOOLEAN ELSE {FALSE})}
    /\ peer \in [allowed : BOOLEAN, always : BOOLEAN]
    /\ main = "serving"
    /\ call = [c \in Clients |-> Idle]
    /\ asked = {}

-----------------------------------------------------------------------------
(* What libdrop keeps, as the rest of the program sees it.                  *)

statusFromOutgoingPath(s) ==
    CASE s = "new" -> "REQUESTED" [] s = "started" -> "ONGOING" [] s = "failed" -> "FAILED" [] s = "completed" -> "SUCCESS"
      [] s = "rejected" -> "CANCELED" [] s = "paused" -> "PAUSED" [] OTHER -> "BAD_STATUS"
statusFromIncomingPath(s) ==
    CASE s = "new" -> "REQUESTED" [] s = "pending" -> "PENDING" [] s = "started" -> "ONGOING" [] s = "failed" -> "FAILED"
      [] s = "completed" -> "SUCCESS" [] s = "rejected" -> "CANCELED" [] s = "paused" -> "PAUSED" [] OTHER -> "BAD_STATUS"

\* A file's bytes are those of its last change of state.
transferredFromPath(d, f) == IF d.files[f] = "completed" THEN Size ELSE d.bytes[f]

isFileCompleted(status) == status \notin {"REQUESTED", "ONGOING", "PENDING"}
isFileTransferred(status) == ~isFileCompleted(status) \/ status = "SUCCESS"
checkFileHasErrors(status) == status \notin {"SUCCESS", "REQUESTED", "CANCELED", "ONGOING", "PENDING"}

getTransferStatusByFiles(st) ==
    CASE \A f \in Files : st[f] = "CANCELED" -> "CANCELED"
      [] \A f \in Files : isFileCompleted(st[f]) /\ ~checkFileHasErrors(st[f]) -> "SUCCESS"
      [] \A f \in Files : isFileCompleted(st[f]) -> "FINISHED_WITH_ERRORS"
      [] \E f \in Files : st[f] # "REQUESTED" -> "ONGOING"
      [] OTHER -> "REQUESTED"

filesFromTransferInfo(d) ==
    [f \in Files |-> IF d.dir = "in" THEN statusFromIncomingPath(d.files[f]) ELSE statusFromOutgoingPath(d.files[f])]

\* A transfer that is over was cancelled to finalize it: its status is that of
\* its files when they had all finished.
determineTransferStatus(d) ==
    LET byFiles == getTransferStatusByFiles(filesFromTransferInfo(d))
    IN CASE d.end = None -> byFiles
         [] d.end = "failed" -> "FAILED"
         [] byFiles \in {"SUCCESS", "FINISHED_WITH_ERRORS"} -> byFiles
         [] d.end = "canceled by peer" -> "CANCELED_BY_PEER"
         [] OTHER -> "CANCELED"
FileStatusesAdjusted(d) ==
    LET st == filesFromTransferInfo(d)
    IN IF d.end \in {"canceled", "canceled by peer"} /\ determineTransferStatus(d) \in {"CANCELED", "CANCELED_BY_PEER"}
       THEN [f \in Files |-> IF isFileCompleted(st[f]) THEN st[f] ELSE "CANCELED"] ELSE st

\* getTransferFromStorage, of storage that could be read
Stored(t) == drop[t].dir # None

-----------------------------------------------------------------------------
(* libdrop (external): calls change a transfer and queue an event.          *)

Event(kind, t, f) == [kind |-> kind, t |-> t, f |-> f, bytes |-> 0]
Room == main # "off" /\ Len(queue) < MaxEvents
Unused(t) == drop[t].dir = None /\ drop[t].end = None
Open(t) == drop[t].dir # None /\ drop[t].end = None

\* FinalizeTransfer, DownloadFile and RejectFile, and that they fail otherwise
Finalized(d, t) == [d EXCEPT ![t].end = "canceled"]
Rejected(d, t, f) == [d EXCEPT ![t].files[f] = "rejected", ![t].bytes[f] = d[t].done[f]]
Downloadable(t, f) == drop[t].dir = "in" /\ drop[t].end = None /\ drop[t].files[f] = "new"
Rejectable(d, t, f) == d[t].dir # None /\ d[t].end = None /\ d[t].files[f] \notin {"completed", "rejected", "failed"}

\* The other side, and the transfer of the data
PeerSends ==
    /\ Room
    /\ \E t \in Transfers :
         /\ Unused(t)
         /\ drop' = [drop EXCEPT ![t].dir = "in"]
         /\ queue' = Append(queue, Event("RequestReceived", t, None))
         /\ asked' = IF peer.allowed /\ peer.always THEN asked \cup ({t} \X Files) ELSE asked
    /\ UNCHANGED <<handler, live, subs, nm, peer, main, call>>

\* An outgoing file is asked for by the peer, an incoming one was by the user.
FileStarts ==
    /\ \E t \in Transfers, f \in Files :
         /\ main # "off" /\ Open(t) /\ (drop[t].files[f] \in (IF drop[t].dir = "in" THEN {"pending"} ELSE {"new"}) \/ drop[t].files[f] = "paused")
         /\ drop' = [drop EXCEPT ![t].files[f] = "started", ![t].bytes[f] = drop[t].done[f]]
    /\ UNCHANGED <<queue, handler, live, subs, nm, peer, main, call, asked>>

FileProgresses ==
    /\ Room
    /\ \E t \in Transfers, f \in Files :
         /\ Open(t) /\ drop[t].files[f] = "started" /\ drop[t].done[f] < Size
         /\ drop' = [drop EXCEPT ![t].done[f] = @ + 1]
         /\ queue' = Append(queue, [Event("FileProgress", t, f) EXCEPT !.bytes = drop[t].done[f] + 1])
    /\ UNCHANGED <<handler, live, subs, nm, peer, main, call, asked>>

FileEnds ==
    /\ Room
    /\ \E t \in Transfers, f \in Files :
         /\ Open(t)
         /\ \/ /\ drop[t].files[f] = "started" /\ drop[t].done[f] = Size
               /\ drop' = [drop EXCEPT ![t].files[f] = "completed"]
               /\ queue' = Append(queue, Event(IF drop[t].dir = "in" THEN "FileDownloaded" ELSE "FileUploaded", t, f))
            \/ /\ drop[t].files[f] = "started"
               /\ drop' = [drop EXCEPT ![t].files[f] = "failed", ![t].bytes[f] = drop[t].done[f]]
               /\ queue' = Append(queue, Event("FileFailed", t, f))
            \/ /\ Rejectable(drop, t, f)
               /\ drop' = Rejected(drop, t, f)
               /\ queue' = Append(queue, Event("FileRejected", t, f))
            \/ /\ May("paused") /\ drop[t].files[f] = "started"
               /\ drop' = [drop EXCEPT ![t].files[f] = "paused", ![t].bytes[f] = drop[t].done[f]] /\ UNCHANGED queue
    /\ UNCHANGED <<handler, live, subs, nm, peer, main, call, asked>>

\* The peer ends the transfer, as the receiver does when it has everything, or
\* it fails.
TransferEnds ==
    /\ Room
    /\ \E t \in Transfers :
         /\ Open(t)
         /\ \/ /\ drop' = [drop EXCEPT ![t].end = "canceled by peer"]
               /\ queue' = Append(queue, Event("TransferFinalizedByPeer", t, None))
            \/ /\ May("fail")
               /\ drop' = [drop EXCEPT ![t].end = "failed"]
               /\ queue' = Append(queue, Event("TransferFailed", t, None))
    /\ UNCHANGED <<handler, live, subs, nm, peer, main, call, asked>>

-----------------------------------------------------------------------------
(* The event manager.  Its mutex is free when the thread does not send.     *)

MutexFree == handler.pc # "sending"

\* getLiveTransfer makes the transfer from what is stored: files that were
\* cancelled or failed are left out.  The sums were made before the files of a
\* cancelled transfer were.
getLiveTransfer(t) ==
    IF live[t].on THEN live[t]
    ELSE LET st == FileStatusesAdjusted(drop[t])
             fs == {f \in Files : isFileTransferred(st[f])}
             summed == {f \in Files : isFileTransferred(filesFromTransferInfo(drop[t])[f])}
         IN [on |-> TRUE, files |-> fs, finished |-> {f \in fs : isFileCompleted(st[f])},
             bytes |-> [f \in Files |-> IF f \in fs THEN transferredFromPath(drop[t], f) ELSE 0],
             size |-> Size * Cardinality(summed),
             total |-> MapThenSumSet(LAMBDA f : transferredFromPath(drop[t], f), summed)]

\* A transfer has finished when one of its files has.
isLiveTransferFinishedMutant(tr) == tr.files = {} \/ tr.finished # {}

isLiveTransferFinished(tr) == tr.files \subseteq tr.finished

removeFileFromLiveTransfer(tr, f) ==
    [tr EXCEPT !.files = @ \ {f}, !.finished = @ \ {f}, !.size = @ - Size, !.total = @ - tr.bytes[f], !.bytes[f] = 0]

\* Whether a directory that is the user's own, or of a group of theirs, can be
\* written with these bits, and what the path of one can be.
isFileWriteable(own, group, bits) ==
    IF own THEN "u" \in bits ELSE IF group THEN "g" \in bits ELSE "o" \in bits
Directories ==
    {"missing", "symlink", "file"} \cup
    {IF isFileWriteable(own, group, bits) THEN "writeable" ELSE "protected" :
       own \in BOOLEAN, group \in BOOLEAN, bits \in SUBSET {"u", "g", "o"}}

\* GetTransferFilesByPathPrefix: a path names every file whose path begins with it,
\* as those of a directory do, and as "ab" does with "a".
GetTransferFilesByPathPrefix(paths) == {f \in Files : \E p \in paths : p = f \/ <<f, p>> \in PathPrefixes}

\* acceptTransfer: the directory, the transfer, the files, the space
acceptTransfer(t, directory, chosen, space) ==
    LET status == determineTransferStatus(drop[t])
    IN CASE directory = "missing" -> "ACCEPT_DIR_NOT_FOUND"
         [] directory = "symlink" -> "ACCEPT_DIR_IS_A_SYMLINK"
         [] directory = "file" -> "ACCEPT_DIR_IS_NOT_A_DIRECTORY"
         [] directory = "protected" -> "ACCEPT_DIR_NO_PERMISSIONS"
         [] ~Stored(t) -> "TRANSFER_NOT_FOUND"
         [] drop[t].dir = "out" -> "ACCEPT_OUTGOING"
         [] status \in {"CANCELED", "CANCELED_BY_PEER"} -> "TRANSFER_INVALIDATED"
         [] status # "REQUESTED" -> "ALREADY_ACCEPTED"
         [] \E path \in chosen : GetTransferFilesByPathPrefix({path}) = {} -> "FILE_NOT_FOUND"
         [] ~space -> "NOT_ENOUGH_SPACE"
         [] OTHER -> "accepted"
Accepting(t, chosen) ==
    {acceptTransfer(t, directory, chosen, space) : directory \in Directories, space \in BOOLEAN}
        \cup (IF May("storage") THEN {"LIB_FAILURE"} ELSE {})

\* Accept of every file, any of which may fail
Downloading(t, fs) == [drop EXCEPT ![t].files = [f \in Files |-> IF f \in fs /\ Downloadable(t, f) THEN "pending" ELSE @[f]]]
SomeOf(fs) == IF May("lib") THEN SUBSET fs ELSE {fs}

\* The notifications that have buttons
EnableNotifications == [on |-> TRUE, shown |-> {}]
DisableNotifications == [on |-> FALSE, shown |-> {}]
NotifyNewTransfer(t) == [nm EXCEPT !.shown = @ \cup {t}]
GetAndDeleteTransferNotification(t) == [nm EXCEPT !.shown = @ \ {t}]

\* Every request of a peer that may send is accepted.
handleRequestReceivedEventMutant(t) ==
    /\ drop' = Downloading(t, Files)
    /\ queue' = Tail(queue)
    /\ UNCHANGED nm

\* A peer that is not found is let wait.
handleRequestReceivedEvent(t) ==
    \/ /\ May("mesh") /\ queue' = Tail(queue) /\ UNCHANGED <<drop, nm>>
    \/ /\ ~peer.allowed
       /\ drop' = IF Open(t) THEN Finalized(drop, t) ELSE drop
       /\ queue' = Tail(queue) \o (IF Open(t) THEN <<Event("TransferFinalized", t, None)>> ELSE <<>>)
       /\ UNCHANGED nm
    \/ /\ peer.allowed /\ ~peer.always
       /\ nm' = IF nm.on THEN NotifyNewTransfer(t) ELSE nm
       /\ queue' = Tail(queue) /\ UNCHANGED drop
    \/ /\ peer.allowed /\ peer.always
       /\ \E answer \in Accepting(t, {}), fs \in SomeOf(Files) :
             drop' = IF answer = "accepted" THEN Downloading(t, fs) ELSE drop
       /\ queue' = Tail(queue) /\ UNCHANGED nm

\* An incoming transfer that has finished is finalized, which libdrop reports.
finalizeFinishedTransfer(tr, t) ==
    IF isLiveTransferFinished(tr) /\ drop[t].dir = "in" /\ Open(t)
    THEN /\ drop' = Finalized(drop, t)
         /\ queue' = Append(Tail(queue), Event("TransferFinalized", t, None))
    ELSE UNCHANGED drop /\ queue' = Tail(queue)

\* All of the progress is added.
ProgressedMutant(tr, ev) == [tr EXCEPT !.total = @ + ev.bytes, !.bytes[ev.f] = ev.bytes]
Progressed(tr, ev) == [tr EXCEPT !.total = @ + (ev.bytes - tr.bytes[ev.f]), !.bytes[ev.f] = ev.bytes]

Sending(t, status, over) == [pc |-> "sending", t |-> t, status |-> status, over |-> over]

handleFileProgressEvent(ev) ==
    LET tr == getLiveTransfer(ev.t)
    IN /\ live' = [live EXCEPT ![ev.t] = IF ev.f \in tr.files THEN Progressed(tr, ev) ELSE tr]
       /\ handler' = IF ev.f \in tr.files /\ subs[ev.t] # None THEN Sending(ev.t, "ONGOING", FALSE) ELSE handler
       /\ queue' = Tail(queue) /\ UNCHANGED drop

\* Of a file that was downloaded; handleFileUploadedEvent does the same.
handleFileDownloadedEvent(ev) ==
    LET tr == getLiveTransfer(ev.t)
        now == [tr EXCEPT !.finished = @ \cup {ev.f}]
    IN IF ev.f \in tr.files
       THEN live' = [live EXCEPT ![ev.t] = now] /\ finalizeFinishedTransfer(now, ev.t)
       ELSE live' = [live EXCEPT ![ev.t] = tr] /\ queue' = Tail(queue) /\ UNCHANGED drop

\* A file that failed is left out and that is all.
handleFileFailedEventMutant(ev) ==
    LET tr == getLiveTransfer(ev.t)
    IN /\ live' = [live EXCEPT ![ev.t] = IF ev.f \in tr.files THEN removeFileFromLiveTransfer(tr, ev.f) ELSE tr]
       /\ queue' = Tail(queue) /\ UNCHANGED drop

\* A file that is no longer there is subtracted again.
handleFileFailedEventUnchecked(ev) ==
    LET now == removeFileFromLiveTransfer(getLiveTransfer(ev.t), ev.f)
    IN live' = [live EXCEPT ![ev.t] = now] /\ finalizeFinishedTransfer(now, ev.t)

\* Of a file that failed; handleFileRejectedEvent does the same.
handleFileFailedEvent(ev) ==
    LET tr == getLiveTransfer(ev.t)
        now == removeFileFromLiveTransfer(tr, ev.f)
    IN IF ev.f \in tr.files
       THEN live' = [live EXCEPT ![ev.t] = now] /\ finalizeFinishedTransfer(now, ev.t)
       ELSE live' = [live EXCEPT ![ev.t] = tr] /\ queue' = Tail(queue) /\ UNCHANGED drop

\* A transfer that nobody follows is kept.
finalizeTransferMutant(t, status) ==
    IF subs[t] # None
    THEN handler' = Sending(t, status, TRUE) /\ live' = [live EXCEPT ![t] = getLiveTransfer(t)]
    ELSE UNCHANGED <<live, handler>>

\* finalizeTransfer tells whoever follows the transfer, and forgets it.
finalizeTransfer(t, status) ==
    IF subs[t] # None
    THEN handler' = Sending(t, status, TRUE) /\ live' = [live EXCEPT ![t] = getLiveTransfer(t)]
    ELSE live' = [live EXCEPT ![t] = NoLive] /\ UNCHANGED handler

\* Who ended the transfer is asked first.
handleTransferFinalizedEventMutant(ev) ==
    finalizeTransfer(ev.t, CASE ev.kind = "TransferFinalizedByPeer" -> "CANCELED_BY_PEER"
                             [] isLiveTransferFinished(getLiveTransfer(ev.t)) -> determineTransferStatus(drop[ev.t])
                             [] OTHER -> "CANCELED")

handleTransferFinalizedEvent(ev) ==
    finalizeTransfer(ev.t, CASE isLiveTransferFinished(getLiveTransfer(ev.t)) -> determineTransferStatus(drop[ev.t])
                             [] ev.kind = "TransferFinalizedByPeer" -> "CANCELED_BY_PEER"
                             [] OTHER -> "CANCELED")

\* toInternalEventKind: a failure of a transfer loses the identity of it.
toInternalEventKind(ev) == IF ev.kind = "TransferFailed" THEN [ev EXCEPT !.t = ""] ELSE ev

TransferFinalized == {"TransferFinalized", "TransferFinalizedByPeer"}

\* Storage is read for a transfer that is not live, and to finalize one that
\* has finished.
NeedsStorage(ev) == ~live[ev.t].on \/ (ev.kind \in TransferFinalized /\ isLiveTransferFinished(live[ev.t]))

\* OnEvent, of the events that are not ignored
OnEvent ==
    /\ MutexFree /\ queue # <<>> /\ main # "off"
    /\ LET ev == toInternalEventKind(Head(queue))
           Ignored == queue' = Tail(queue) /\ UNCHANGED <<drop, live, handler, nm>>
       IN \/ ev.kind = "RequestReceived" /\ handleRequestReceivedEvent(ev.t) /\ UNCHANGED <<live, handler>>
          \/ ev.t \notin Transfers /\ Ignored
          \/ /\ ev.t \in Transfers /\ ev.kind # "RequestReceived"
             /\ \/ NeedsStorage(ev) /\ (~Stored(ev.t) \/ May("storage")) /\ Ignored
                \/ /\ NeedsStorage(ev) => Stored(ev.t)
                   /\ UNCHANGED nm
                   /\ \/ ev.kind = "FileProgress" /\ handleFileProgressEvent(ev)
                      \/ ev.kind \in {"FileDownloaded", "FileUploaded"} /\ handleFileDownloadedEvent(ev) /\ UNCHANGED handler
                      \/ ev.kind \in {"FileFailed", "FileRejected"} /\ handleFileFailedEvent(ev) /\ UNCHANGED handler
                      \/ /\ ev.kind \in TransferFinalized
                         /\ handleTransferFinalizedEvent(ev)
                         /\ queue' = Tail(queue) /\ UNCHANGED drop
    /\ UNCHANGED <<subs, peer, main, call, asked>>

\* What follows a transfer receives.  The channel is closed after the last.
Receive ==
    /\ ~MutexFree
    /\ LET c == subs[handler.t]
       IN /\ call[c].pc = "range"
          /\ IF handler.over
             THEN /\ subs' = [subs EXCEPT ![handler.t] = None]
                  /\ live' = [live EXCEPT ![handler.t] = NoLive]
                  /\ call' = [call EXCEPT ![c] = Idle]
             ELSE call' = [call EXCEPT ![c].pc = "progress"] /\ UNCHANGED <<subs, live>>
    /\ handler' = [pc |-> "idle", t |-> None, status |-> None, over |-> FALSE]
    /\ UNCHANGED <<drop, queue, nm, peer, main, asked>>

-----------------------------------------------------------------------------
(* The server.                                                              *)

At(c, op, pc) == call[c].op = op /\ call[c].pc = pc
To(c, pc) == [call EXCEPT ![c].pc = pc]
Finished(c) == [call EXCEPT ![c] = Idle]
Streams == {"Send", "Accept"}

\* A call that names files names one.  The server takes no more calls once it
\* stops.  The buttons of a notification
\* are not calls, and are gone once one was pressed.
Issue(c) ==
    /\ call[c] = Idle
    /\ \E op \in Ops, t \in Transfers, silent \in BOOLEAN, chosen \in SUBSET (Files \cup {"no file"}) :
         /\ op \in Streams \/ silent
         /\ op \in {"Accept", "CancelFile"} \/ chosen = {}
         /\ Cardinality(chosen) <= 1 /\ (op = "CancelFile" => chosen # {})
         /\ IF op \in Buttons
            THEN t \in nm.shown /\ nm' = GetAndDeleteTransferNotification(t) /\ main # "off"
            ELSE main \in {"serving", "cancel"} /\ UNCHANGED nm
         /\ call' = [call EXCEPT ![c] = [Idle EXCEPT !.op = op, !.pc = "called", !.t = t, !.silent = silent, !.chosen = chosen]]
         /\ asked' = asked \cup (IF op \in {"Accept", "NotifyAccept"}
                                 THEN {t} \X (IF chosen = {} THEN Files ELSE GetTransferFilesByPathPrefix(chosen)) ELSE {})
    /\ UNCHANGED <<drop, queue, handler, live, subs, peer, main>>

\* How many files the paths stand for, those of an empty directory none and -1
\* when one cannot be read or goes too deep.  The count is checked after each.
Paths == UNION {[1 .. n -> -1 .. TransferFileLimit + 1] : n \in 1 .. 2}
getNumberOfFiles(paths) ==
    FoldLeft(LAMBDA n, p : IF n < 0 \/ p < 0 \/ n + p > TransferFileLimit \/ n + p = 0 THEN -1 ELSE n + p, 0, paths)

\* Send: meshnet, the paths, then the peer, who may be unknown, away or not
\* allow it; then libdrop
Send(c) ==
    /\ At(c, "Send", "called")
    /\ LET t == call[c].t
       IN \/ /\ \/ May("mesh") \/ May("lib") \/ ~Unused(t)
                \/ \E paths \in Paths : getNumberOfFiles(paths) < 0
             /\ call' = Finished(c) /\ UNCHANGED drop
          \/ /\ Unused(t) /\ main # "off"
             /\ \E paths \in Paths : getNumberOfFiles(paths) = Cardinality(Files)
             /\ drop' = [drop EXCEPT ![t].dir = "out"]
             /\ call' = To(c, "status")
    /\ UNCHANGED <<queue, handler, live, subs, nm, peer, main, asked>>

\* Accept looks at the transfer, from the command line and a notification.
Accepts(c) ==
    \E answer \in Accepting(call[c].t, call[c].chosen) :
        call' = IF answer = "accepted" THEN [call EXCEPT ![c].pc = "files", ![c].todo = Files] ELSE Finished(c)
Accept(c) ==
    /\ At(c, "Accept", "called") /\ MutexFree
    /\ Accepts(c) \/ (May("mesh") /\ call' = Finished(c))
    /\ UNCHANGED <<drop, queue, handler, live, subs, nm, peer, main, asked>>
AcceptTransfer(c) ==
    /\ At(c, "NotifyAccept", "called") /\ MutexFree
    /\ Accepts(c)
    /\ UNCHANGED <<drop, queue, handler, live, subs, nm, peer, main, asked>>

\* Every file is accepted, whatever was named.
AcceptFileMutant(c, f) ==
    /\ drop' = IF Downloadable(call[c].t, f) THEN [drop EXCEPT ![call[c].t].files[f] = "pending"] ELSE drop
    /\ call' = [call EXCEPT ![c].todo = @ \ {f}, ![c].started = @ \/ Downloadable(call[c].t, f)]
    /\ UNCHANGED queue

\* One file of those: accepted, or rejected for the others to be waited for
AcceptFile(c, f) ==
    LET t == call[c].t
        wanted == call[c].chosen = {} \/ f \in GetTransferFilesByPathPrefix(call[c].chosen)
    IN \/ /\ wanted /\ Downloadable(t, f)
          /\ drop' = [drop EXCEPT ![t].files[f] = "pending"]
          /\ call' = [call EXCEPT ![c].todo = @ \ {f}, ![c].started = TRUE]
          /\ UNCHANGED queue
       \/ /\ ~wanted /\ Rejectable(drop, t, f) /\ Room
          /\ drop' = Rejected(drop, t, f)
          /\ queue' = Append(queue, Event("FileRejected", t, f))
          /\ call' = [call EXCEPT ![c].todo = @ \ {f}]
       \/ /\ May("lib") \/ (wanted /\ ~Downloadable(t, f)) \/ (~wanted /\ ~Rejectable(drop, t, f))
          /\ call' = [call EXCEPT ![c].todo = @ \ {f}]
          /\ UNCHANGED <<drop, queue>>

AcceptFiles(c) ==
    /\ call[c].pc = "files"
    /\ \/ \E f \in call[c].todo : AcceptFile(c, f)
       \/ /\ call[c].todo = {}
          /\ call' = IF call[c].started /\ call[c].op = "Accept" THEN To(c, "status") ELSE Finished(c)
          /\ UNCHANGED <<drop, queue>>
    /\ UNCHANGED <<handler, live, subs, nm, peer, main, asked>>

\* The transfer is announced to the caller.
Announce(c) ==
    /\ call[c].pc = "status"
    /\ \/ call' = IF call[c].silent THEN Finished(c) ELSE To(c, "subscribe")
       \/ May("send") /\ call' = Finished(c)
    /\ UNCHANGED <<drop, queue, handler, live, subs, nm, peer, main, asked>>

Subscribe(c) ==
    /\ call[c].pc = "subscribe"
    /\ MutexFree
    /\ subs' = [subs EXCEPT ![call[c].t] = c]
    /\ call' = To(c, "range")
    /\ UNCHANGED <<drop, queue, handler, live, nm, peer, main, asked>>

\* A caller that is gone is not sent to any more.
startTransferStatusStreamMutant(c) ==
    /\ call[c].pc = "progress"
    /\ call' = To(c, "range") \/ (May("send") /\ call' = Finished(c))
    /\ UNCHANGED <<drop, queue, handler, live, subs, nm, peer, main, asked>>

\* That a message could not be sent does not matter.
startTransferStatusStream(c) ==
    /\ call[c].pc = "progress"
    /\ call' = To(c, "range")
    /\ UNCHANGED <<drop, queue, handler, live, subs, nm, peer, main, asked>>

\* A transfer that goes on or is asked for can be cancelled, from both too.
Cancels(c) ==
    LET goesOn == Stored(call[c].t) /\ determineTransferStatus(drop[call[c].t]) \in {"ONGOING", "REQUESTED"}
    IN \/ goesOn /\ call' = To(c, "finalize")
       \/ (~goesOn \/ May("storage")) /\ call' = Finished(c)
Cancel(c) ==
    /\ At(c, "Cancel", "called") /\ MutexFree
    /\ Cancels(c) \/ (May("mesh") /\ call' = Finished(c))
    /\ UNCHANGED <<drop, queue, handler, live, subs, nm, peer, main, asked>>
CancelTransfer(c) ==
    /\ At(c, "NotifyCancel", "called") /\ MutexFree
    /\ Cancels(c)
    /\ UNCHANGED <<drop, queue, handler, live, subs, nm, peer, main, asked>>

Finalize(c) ==
    /\ call[c].pc = "finalize"
    /\ \/ /\ Open(call[c].t) /\ Room
          /\ drop' = Finalized(drop, call[c].t)
          /\ queue' = Append(queue, Event("TransferFinalized", call[c].t, None))
       \/ (~Open(call[c].t) \/ May("lib")) /\ UNCHANGED <<drop, queue>>
    /\ call' = Finished(c)
    /\ UNCHANGED <<handler, live, subs, nm, peer, main, asked>>

CancelFile(c) ==
    /\ At(c, "CancelFile", "called")
    /\ MutexFree
    /\ LET t == call[c].t
           Ongoing == Stored(t) /\ \A f \in call[c].chosen : f \in Files /\ FileStatusesAdjusted(drop[t])[f] = "ONGOING"
       IN \/ Ongoing /\ call' = To(c, "reject")
          \/ (~Ongoing \/ May("mesh") \/ May("storage")) /\ call' = Finished(c)
    /\ UNCHANGED <<drop, queue, handler, live, subs, nm, peer, main, asked>>

RejectFile(c) ==
    /\ call[c].pc = "reject"
    /\ \E f \in call[c].chosen :
         \/ /\ Rejectable(drop, call[c].t, f) /\ Room
            /\ drop' = Rejected(drop, call[c].t, f)
            /\ queue' = Append(queue, Event("FileRejected", call[c].t, f))
         \/ (~Rejectable(drop, call[c].t, f) \/ May("lib")) /\ UNCHANGED <<drop, queue>>
    /\ call' = Finished(c)
    /\ UNCHANGED <<handler, live, subs, nm, peer, main, asked>>

\* A new notification manager knows no notifications.
SetNotifications(c) ==
    /\ At(c, "SetNotifications", "called")
    /\ MutexFree
    /\ nm' = (IF nm.on THEN DisableNotifications ELSE EnableNotifications) \/ UNCHANGED nm
    /\ call' = Finished(c)
    /\ UNCHANGED <<drop, queue, handler, live, subs, peer, main, asked>>

CloseNotification(c) ==
    /\ At(c, "NotifyClose", "called")
    /\ call' = Finished(c)
    /\ UNCHANGED <<drop, queue, handler, live, subs, nm, peer, main, asked>>

\* PurgeTransfersUntil: the transfers that are over are gone from storage, the
\* mutex not asked for.
PurgeTransfersUntil(c) ==
    /\ At(c, "PurgeTransfersUntil", "called")
    /\ \/ drop' = [t \in Transfers |-> IF drop[t].end # None THEN [drop[t] EXCEPT !.dir = None] ELSE drop[t]]
       \/ (May("mesh") \/ May("storage")) /\ UNCHANGED drop
    /\ call' = Finished(c)
    /\ UNCHANGED <<queue, handler, live, subs, nm, peer, main, asked>>

-----------------------------------------------------------------------------
(* The end of the process.                                                  *)

\* Stop hands over to the main goroutine, which a signal also ends.
Stop(c) ==
    /\ At(c, "Stop", "called")
    /\ main = "serving"
    /\ main' = "cancel"
    /\ call' = Finished(c)
    /\ UNCHANGED <<drop, queue, handler, live, subs, nm, peer, asked>>
Signal ==
    /\ May("stop") /\ main = "serving"
    /\ main' = "cancel"
    /\ UNCHANGED <<drop, queue, handler, live, subs, nm, peer, call, asked>>

CancelLiveTransfers ==
    /\ main = "cancel" /\ MutexFree
    /\ LET ended == {t \in Transfers : live[t].on /\ Open(t)}
       IN /\ drop' = [t \in Transfers |-> IF t \in ended THEN [drop[t] EXCEPT !.end = "canceled"] ELSE drop[t]]
          /\ queue' = queue \o SetToSeq({Event("TransferFinalized", t, None) : t \in ended})
    /\ main' = "stopping"
    /\ UNCHANGED <<handler, live, subs, nm, peer, call, asked>>

\* GracefulStop waits for the calls, and Disable ends libdrop.
GracefulStop ==
    /\ main = "stopping"
    /\ \A c \in Clients : call[c] = Idle \/ call[c].op \in Buttons
    /\ main' = "off"
    /\ UNCHANGED <<drop, queue, handler, live, subs, nm, peer, call, asked>>

-----------------------------------------------------------------------------
Steps(c) ==
    \/ Send(c) \/ Accept(c) \/ AcceptTransfer(c) \/ CancelTransfer(c) \/ AcceptFiles(c) \/ Announce(c)
    \/ Subscribe(c) \/ startTransferStatusStream(c)
    \/ Cancel(c) \/ Finalize(c) \/ CancelFile(c) \/ RejectFile(c) \/ SetNotifications(c) \/ CloseNotification(c)
    \/ PurgeTransfersUntil(c) \/ Stop(c)

Next ==
    \/ PeerSends \/ FileStarts \/ FileProgresses \/ FileEnds \/ TransferEnds
    \/ OnEvent \/ Receive
    \/ \E c \in Clients : Issue(c) \/ Steps(c)
    \/ Signal \/ CancelLiveTransfers \/ GracefulStop

Spec == Init /\ [][Next]_vars

\* Threads and goroutines that can go on do; users and peers need not.
Fairness ==
    /\ WF_vars(OnEvent) /\ WF_vars(Receive)
    /\ \A c \in Clients : SF_vars(Steps(c))
    /\ WF_vars(CancelLiveTransfers) /\ WF_vars(GracefulStop)
FairSpec == Spec /\ Fairness

-----------------------------------------------------------------------------
Quiet == queue = <<>> /\ MutexFree
Ended == {"completed", "rejected", "failed"}

FileshareTypeOK ==
    /\ drop \in [Transfers -> [dir : {None, "in", "out"}, end : {None, "canceled", "canceled by peer", "failed"},
                               files : [Files -> FileStates], bytes : [Files -> 0 .. Size], done : [Files -> 0 .. Size]]]
    /\ Len(queue) <= MaxEvents + Cardinality(Transfers)
    /\ \A t \in Transfers : live[t].total \in 0 .. live[t].size /\ live[t].size <= Size * Cardinality(Files)
    /\ subs \in [Transfers -> Clients \cup {None}]
    /\ nm.shown \subseteq Transfers
    /\ main \in {"serving", "cancel", "stopping", "off"}

\* handleRequestReceivedEvent and Accept: no file is downloaded that the user
\* did not ask for and whose sender they do not always accept from.  To ask for a
\* path is to ask for every file whose path begins with it.
AcceptedOnly ==
    \A t \in Transfers, f \in Files :
       drop[t].dir = "in" /\ drop[t].files[f] \in {"pending", "started", "paused", "completed"} => <<t, f>> \in asked

\* handleFileProgressEvent and removeFileFromLiveTransfer: the progress of a
\* transfer that goes on is that of the files it still consists of.
ProgressAdds ==
    \A t \in Transfers :
       live[t].on /\ Open(t) => /\ live[t].total = MapThenSumSet(LAMBDA f : live[t].bytes[f], live[t].files)
                                /\ live[t].total <= live[t].size

\* handleTransferFinalizedEvent: whoever follows a transfer is told the end that
\* the list of transfers shows.
ReportedAsStored ==
    handler.over => ~Stored(handler.t) \/ handler.status = determineTransferStatus(drop[handler.t])

\* finalizeFinishedTransfer: an incoming transfer of which a file was downloaded
\* is finalized once no file is left.
DownloadedIsFinalized ==
    Quiet => ~\E t \in Transfers :
        /\ Open(t) /\ drop[t].dir = "in"
        /\ \A f \in Files : drop[t].files[f] \in Ended
        /\ \E f \in Files : drop[t].files[f] = "completed"

\* finalizeFinishedTransfer: the event thread ends no transfer of a peer that
\* may send while a file of it is still to come.  Files are not paused: one that is
\* when the live transfer is made counts as completed (isFileCompleted), and the
\* transfer ends without it.
FinalizesWhenDone ==
    OnEvent /\ peer.allowed => \A t \in Transfers :
        Open(t) /\ drop'[t].end # None => \A f \in Files : drop[t].files[f] \in Ended

\* finalizeTransfer: a transfer that was cancelled or finalized is live no more
\* once its last event was handled, also when others fail.  One that failed stays
\* live for as long as the process, since its event has lost its identity.
EndedIsForgotten == Quiet => \A t \in Transfers : drop[t].end \in {"canceled", "canceled by peer"} => ~live[t].on

\* OnEvent holds the mutex for as long as it sends: it always comes to an end.
EventsGoOn == []<>(handler.pc # "sending")
=============================================================================
