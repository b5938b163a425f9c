---------------------------- MODULE CliFileshare ----------------------------
(***************************************************************************)
(* The commands of file sharing (cli/cli_fileshare.go): one that sends or   *)
(* accepts follows the transfer in a goroutine of its own until it ends or  *)
(* the user interrupts it, while commands of other terminals cancel the     *)
(* same transfer.  Of the server this has what a command is answered; the   *)
(* server itself is in Fileshare.tla.                                       *)
(***************************************************************************)
EXTENDS Naturals, Sequences, FiniteSets, SequencesExt

CONSTANTS
    Terminals,
    Commands,      \* "send", "accept", "cancel", "cancel file", "clear", "list"
    Faults,        \* "rpc" (a call or stream breaks), "answer" (an error), "eof", "args"
    MaxMessages,   \* bound: messages on their way
    MaxListed,     \* bound: transfers in the list
    ChunkSize      \* listChunkSize

VARIABLES
    transfer,      \* the status of the one transfer there is
    watcher,       \* the terminal that follows it, or None
    stream,        \* what it is sent
    cmd,           \* the command of every terminal
    loop           \* the goroutine of statusLoop

vars == <<transfer, watcher, stream, cmd, loop>>

None == "none"
May(fault) == fault \in Faults
Final == {"SUCCESS", "FINISHED_WITH_ERRORS", "CANCELED_BY_PEER", "CANCELED"}
Ready == [op |-> None, pc |-> "prompt", wait |-> FALSE, signal |-> FALSE, canceled |-> FALSE, said |-> {}, listed |-> <<>>, count |-> 0]

Init ==
    /\ transfer = None /\ watcher = None /\ stream = <<>>
    /\ cmd = [t \in Terminals |-> Ready]
    /\ loop = "off"

At(t, pc) == cmd[t].pc = pc
Goes(t, pc) == cmd' = [cmd EXCEPT ![t].pc = pc]
Says(t, pc, text) == cmd' = [cmd EXCEPT ![t].pc = pc, ![t].said = @ \cup {text}]
Messages(m) == IF watcher = None THEN stream ELSE Append(stream, m)

Run(t) ==
    /\ At(t, "prompt")
    /\ \E op \in Commands, wait \in BOOLEAN :
         /\ op \in {"send", "accept"} \/ ~wait
         /\ cmd' = [cmd EXCEPT ![t] = [Ready EXCEPT !.op = op, !.wait = wait, !.pc = "before"]]
    /\ UNCHANGED <<transfer, watcher, stream, loop>>

\* IsFileshareDaemonReachable: the user is logged in and meshnet is on.
IsFileshareDaemonReachable(t) ==
    /\ At(t, "before")
    /\ Goes(t, "call") \/ (May("rpc") /\ Goes(t, "failed"))
    /\ UNCHANGED <<transfer, watcher, stream, loop>>

\* getFileshareResponseToError: every error the server answers is one for the user.
getFileshareResponseToError(answer) == IF answer = "Empty" THEN None ELSE answer
Fails(t) == (May("rpc") \/ May("args")) /\ Goes(t, "failed") /\ UNCHANGED <<transfer, watcher, stream, loop>>

\* The transfer is new: the first answer says whether it begins.
Begins(t) ==
    /\ At(t, "call")
    /\ \/ \E answer \in {"Empty"} \cup (IF May("answer") THEN {"TRANSFER_NOT_CREATED"} ELSE {}) :
            IF transfer = None /\ getFileshareResponseToError(answer) = None
            THEN /\ transfer' = "ONGOING"
                 /\ watcher' = IF cmd[t].wait THEN t ELSE None
                 /\ loop' = IF cmd[t].wait THEN "recv" ELSE loop
                 /\ Goes(t, IF cmd[t].wait THEN "loop" ELSE "done")
                 /\ UNCHANGED stream
            ELSE Goes(t, "failed") /\ UNCHANGED <<transfer, watcher, stream, loop>>
       \/ May("rpc") /\ transfer = None /\ transfer' = "ONGOING" /\ Goes(t, "failed") /\ UNCHANGED <<watcher, stream, loop>>
       \/ Fails(t)

FileshareSend(t) == cmd[t].op = "send" /\ Begins(t)
FileshareAccept(t) == cmd[t].op = "accept" /\ Begins(t)

\* Cancel ends a transfer that goes on, which may have come to its end by then.
Cancelled == {"CANCELED", "SUCCESS", "FINISHED_WITH_ERRORS"}
CancelRpc(t) ==
    \/ /\ transfer = "ONGOING"
       /\ transfer' \in Cancelled
       /\ stream' = Messages(transfer')
       /\ Says(t, "done", "cancel success")
       /\ UNCHANGED <<watcher, loop>>
    \/ /\ transfer # "ONGOING" \/ May("answer")
       /\ Says(t, "failed", "error") /\ UNCHANGED <<transfer, watcher, stream, loop>>

FileshareCancel(t) ==
    /\ At(t, "call") /\ cmd[t].op = "cancel"
    /\ CancelRpc(t) \/ Fails(t)

\* A file that goes on is cancelled; the transfer ends with the last of them.
FileshareCancelFile(t) ==
    /\ At(t, "call") /\ cmd[t].op = "cancel file"
    /\ \/ /\ transfer = "ONGOING" /\ Says(t, "done", "cancel success")
          /\ \/ UNCHANGED <<transfer, stream>>
             \/ transfer' \in Cancelled /\ stream' = Messages(transfer')
          /\ UNCHANGED <<watcher, loop>>
       \/ (transfer # "ONGOING" \/ May("answer")) /\ Says(t, "failed", "error") /\ UNCHANGED <<transfer, watcher, stream, loop>>
       \/ Fails(t)

\* What is cleared is the list of the server; how the transfer ended is not undone.
FileshareClear(t) ==
    /\ At(t, "call") /\ cmd[t].op = "clear"
    /\ \/ Goes(t, "done") /\ UNCHANGED <<transfer, watcher, stream, loop>>
       \/ May("answer") /\ Goes(t, "failed") /\ UNCHANGED <<transfer, watcher, stream, loop>>
       \/ Fails(t)

\* Server.List: chunks of a size, the last of which is shorter.
ListChunksMutant(n) ==
    [i \in 1 .. n \div ChunkSize |-> [j \in 1 .. ChunkSize |-> (i - 1) * ChunkSize + j]]
ListChunks(n) ==
    [i \in 1 .. (n + ChunkSize - 1) \div ChunkSize |->
        LET from == (i - 1) * ChunkSize
        IN [j \in 1 .. (IF n - from < ChunkSize THEN n - from ELSE ChunkSize) |-> from + j]]

\* FileshareList puts them together again.
FileshareList(t) ==
    /\ At(t, "call") /\ cmd[t].op = "list"
    /\ \/ \E n \in 0 .. MaxListed :
            cmd' = [cmd EXCEPT ![t].pc = "done", ![t].listed = FlattenSeq(ListChunks(n)), ![t].count = n]
       \/ May("answer") /\ Goes(t, "failed")
       \/ May("rpc") /\ Goes(t, "failed")
    /\ UNCHANGED <<transfer, watcher, stream, loop>>

-----------------------------------------------------------------------------
(* The server and the peer.                                                 *)

Progress ==
    /\ transfer = "ONGOING" /\ watcher # None /\ Len(stream) < MaxMessages
    /\ stream' = Append(stream, "ONGOING")
    /\ UNCHANGED <<transfer, watcher, cmd, loop>>

Ends ==
    /\ transfer = "ONGOING"
    /\ transfer' \in Final \ {"CANCELED"}
    /\ stream' = Messages(transfer')
    /\ UNCHANGED <<watcher, cmd, loop>>

StreamBreaks ==
    /\ watcher # None /\ Len(stream) < MaxMessages /\ loop = "recv"
    /\ \E m \in {"rpc", "eof"} : May(m) /\ stream' = Append(stream, m)
    /\ UNCHANGED <<transfer, watcher, cmd, loop>>

-----------------------------------------------------------------------------
(* statusLoop.                                                              *)

\* What is printed for a status the watcher receives.  An end that the interrupt brought is
\* left to the command.
PrintedMutant(m) ==
    CASE m = "ONGOING" -> "progress" [] m = "SUCCESS" -> "finished" [] m = "CANCELED_BY_PEER" -> "canceled by peer"
      [] m = "CANCELED" -> "canceled" [] m = "FINISHED_WITH_ERRORS" -> "errors" [] OTHER -> None
Printed(m) ==
    CASE m = "ONGOING" -> "progress" [] m = "SUCCESS" -> "finished" [] m = "CANCELED_BY_PEER" -> "canceled by peer"
      [] m = "CANCELED" /\ ~cmd[watcher].canceled -> "canceled"
      [] m = "FINISHED_WITH_ERRORS" /\ ~cmd[watcher].canceled -> "errors" [] OTHER -> None

Receive ==
    /\ loop = "recv" /\ stream # <<>> /\ cmd[watcher].pc \in {"loop", "cancel"}
    /\ LET m == Head(stream)
       IN /\ cmd' = [cmd EXCEPT ![watcher].said = @ \cup {Printed(m)}]
          /\ loop' = CASE m = "ONGOING" -> "recv" [] m = "rpc" -> "error" [] OTHER -> "closed"
    /\ stream' = Tail(stream)
    /\ UNCHANGED <<transfer, watcher>>

\* SIGINT ends a command that does not follow a transfer yet.
Interrupt(t) ==
    /\ cmd[t].pc \in {"before", "call", "loop"} /\ ~cmd[t].signal
    /\ cmd' = [cmd EXCEPT ![t].signal = TRUE, ![t].pc = IF @ = "loop" THEN "loop" ELSE "failed"]
    /\ UNCHANGED <<transfer, watcher, stream, loop>>

\* The select of statusLoop, when both can be received either is
CancelBySignal(t) ==
    /\ At(t, "loop") /\ cmd[t].signal
    /\ cmd' = [cmd EXCEPT ![t].pc = "cancel", ![t].canceled = TRUE]
    /\ UNCHANGED <<transfer, watcher, stream, loop>>
LoopEnds(t) ==
    /\ At(t, "loop") /\ loop \in {"closed", "error"}
    /\ Goes(t, IF loop = "closed" THEN "done" ELSE "failed")
    /\ UNCHANGED <<transfer, watcher, stream, loop>>
statusLoop(t) == At(t, "cancel") /\ (CancelRpc(t) \/ Fails(t))

\* The process is gone, and the goroutine with it.
Prompt(t) ==
    /\ cmd[t].pc \in {"done", "failed"}
    /\ cmd' = [cmd EXCEPT ![t] = Ready]
    /\ IF watcher = t THEN watcher' = None /\ stream' = <<>> /\ loop' = "off"
       ELSE UNCHANGED <<watcher, stream, loop>>
    /\ UNCHANGED transfer

Next ==
    \/ \E t \in Terminals :
         \/ Run(t) \/ IsFileshareDaemonReachable(t) \/ FileshareSend(t) \/ FileshareAccept(t) \/ FileshareCancel(t)
         \/ FileshareCancelFile(t) \/ FileshareClear(t) \/ FileshareList(t) \/ Interrupt(t) \/ CancelBySignal(t) \/ LoopEnds(t)
         \/ statusLoop(t) \/ Prompt(t)
    \/ Progress \/ Ends \/ StreamBreaks \/ Receive

Spec == Init /\ [][Next]_vars

-----------------------------------------------------------------------------
CliFileshareTypeOK ==
    /\ transfer \in Final \cup {None, "ONGOING"} /\ watcher \in Terminals \cup {None}
    /\ Len(stream) <= MaxMessages + 2 /\ loop \in {"off", "recv", "closed", "error"}
    /\ watcher # None => cmd[watcher].op \in {"send", "accept"}

\* statusLoop: who interrupts a transfer is told of it once, by the command or the goroutine.
ToldOnce == \A t \in Terminals : ~({"canceled", "cancel success"} \subseteq cmd[t].said)

\* statusLoop: a command that waits succeeds only when its transfer has ended, says how it
\* ended, and says nothing else.
SucceedsWhenEnded ==
    \A t \in Terminals :
        LET Told(text, status) == text \in cmd[t].said /\ watcher = t => transfer = status
        IN /\ At(t, "done") /\ cmd[t].wait => transfer # "ONGOING" /\ cmd[t].said \ {"progress"} # {}
           /\ Told("finished", "SUCCESS") /\ Told("errors", "FINISHED_WITH_ERRORS")
           /\ Told("canceled by peer", "CANCELED_BY_PEER") /\ Told("canceled", "CANCELED")

\* Server.List and FileshareList: all transfers are listed, once and in order.
ListedInFull ==
    \A t \in Terminals : At(t, "done") => cmd[t].listed = [i \in 1 .. cmd[t].count |-> i]
=============================================================================
