---------------------------- MODULE LogBridgeInv ----------------------------
(***************************************************************************)
(* The inductive invariant of LogBridge: why the WAL may be compacted, the *)
(* checkpoint moved and a message skipped.                                 *)
(***************************************************************************)
EXTENDS LogBridge

\* What the control points of the threads imply about their local variables.
ClientShape ==
  /\ proc = "up" => state.clientId \in ClientIds
  /\ proc # "up" => ppc = "off" /\ cpc = "off"
  /\ ppc \in {"alloc", "append"} => cur < readPos
  /\ ppc = "append" => state.nextId > 1
  /\ ppc \in {"read", "checkpoint", "push"} => cur = readPos
  /\ ppc \in {"checkpoint", "push"} => messages # << >>
  /\ ppc \in {"off", "read", "closing", "done"} => messages = << >>
  /\ cpc \in {"off", "loop", "pop", "done"} => sending = << >>
  /\ cpc = "fill" => Len(sending) < SendBatchSize
  /\ cpc \in {"fill", "deliver", "send", "await", "confirm", "backoff"} =>
        sending # << >>
  /\ proc # "up" => queue = << >>

Serving == spc \in {"receive", "process", "persist", "ack"} /\ ~ stopping

ServerShape ==
  /\ Serving => conns # << >>
  /\ spc = "process" => pos < Len(rx)
  /\ spc \in {"persist", "ack"} => rx # << >> /\ pos = Len(rx)
  /\ spc \notin {"process", "persist", "ack"} => rx = << >>
  /\ spc = "down" \/ stopping => conns = << >> /\ ~ listening

\* Only the last connection can be open, and only while the client holds it.
NetShape ==
  \A i \in 1 .. Len(conns) : conns[i].open => sock = "open" /\ i = Len(conns)

\* The server has a batch in hand that the client is waiting with.
Answering == Serving /\ conns[1].open /\ rx # << >>

\* Between sendLogBatch and receiveAck the batch is in one place of the open
\* connection: in the frame, in the server's hands, or as an ACK on its way
\* back.  At all other times there is nothing in it.
Exchange ==
  /\ \A i \in 1 .. Len(conns) :
        conns[i].open /\ conns[i].frame # << >> =>
           /\ cpc = "await"
           /\ conns[i].frame = Batch
           /\ ~ Answering
           /\ inbox = << >>
  /\ Answering => cpc = "await" /\ rx = Batch /\ inbox = << >>
  /\ inbox # << >> => cpc = "await" /\ inbox = <<LastId(Batch)>>

ConnInv == NetShape /\ Exchange

-----------------------------------------------------------------------------
(* Where messages are. *)

Frames == {conns[i].frame : i \in 1 .. Len(conns)} \cup {rx}

InFlight == UNION {Range(F) : F \in Frames}

\* Messages the running client has still to send, in this order.
Pipe == Range(sending) \cup Range(queue) \cup Range(messages)

\* Messages that a compaction of the WAL would keep.
Kept == IF proc = "down" THEN Range(walFile) ELSE Range(pending)

-----------------------------------------------------------------------------
(* The order of message IDs, and whose they are. *)

WalShape ==
  /\ Increasing(walFile)
  /\ Increasing(pending)
  /\ Range(pending) \subseteq Range(walFile)
  /\ walTail # "corrupt"
  /\ walTail = "torn" => ppc \in {"off", "closing", "done"}
  /\ proc = "loading" => pending = walFile /\ walTail = "clean"

Ordered(s, t) == \A m \in Range(s), n \in Range(t) : m.id < n.id

PipeOrder ==
  /\ Increasing(sending)
  /\ Increasing(queue)
  /\ Increasing(messages)
  /\ Ordered(sending, queue)
  /\ Ordered(sending, messages)
  /\ Ordered(queue, messages)

SameClient(S) == \A m, n \in S : m.clientId = n.clientId

\* One identity: of the WAL, of the state file, of the running client; and one
\* in every frame.
Identity ==
  /\ SameClient(Range(walFile))
  /\ StateExists => /\ stateFile.clientId \in usedIds
                    /\ \A m \in Range(walFile) : m.clientId = stateFile.clientId
  /\ proc = "up" => /\ state.clientId = stateFile.clientId
                    /\ state.nextId <= stateFile.nextId
                    /\ \A m \in Pipe : m.clientId = state.clientId
  /\ \A F \in Frames : Increasing(F) /\ SameClient(Range(F))

\* No ID above b has been sent, or prepared for sending, on behalf of client c.
Below(c, b) == /\ \A m \in InFlight \cup Pipe \cup output :
                     m.clientId = c => m.id <= b
               /\ dedup[c] <= b
               /\ dedupFile[c] <= b

\* The highest ID that the running client can have given away.
LastAllocated == IF ppc = "append" THEN state.nextId - 2 ELSE state.nextId - 1

\* The next ID is new, whichever file it is computed from after a restart.
Allocation ==
  /\ \A c \in ClientIds \ usedIds : Below(c, 0)
  /\ \A m \in Range(walFile) : Below(m.clientId, LastId(walFile))
  /\ \A m \in Range(pending) : Below(m.clientId, LastId(pending))
  /\ StateExists => /\ Below(stateFile.clientId, stateFile.nextId - 1)
                    /\ LastId(walFile) < stateFile.nextId
  /\ proc = "up" => /\ Below(state.clientId, LastAllocated)
                    /\ LastId(walFile) <= LastAllocated

\* latestProcessed never leaves the batch it belongs to.
LatestBound ==
  rx # << >> => latest <= dedup[rx[1].clientId] \/ latest <= LastId(rx)

OrderInv == WalShape /\ PipeOrder /\ Identity /\ Allocation /\ LatestBound

-----------------------------------------------------------------------------
(* What has been printed. *)

\* A frame holds every message of the WAL up to its last one that is not yet
\* printed, so the server does not confirm what it has not seen.
FrameClosed ==
  \A F \in Frames : \A m \in Range(walFile), n \in Range(F) :
     m.clientId = n.clientId /\ m.id <= LastId(F) => m \in Range(F) \cup output

\* So does what the consumer sends; messages that it will not send come after.
PipeClosed ==
  cpc \notin {"off", "done"} =>
     \A m \in Range(walFile) :
        \/ m \in Pipe \cup output
        \/ /\ ppc \in {"closing", "done"}
           /\ \A n \in Pipe : n.id < m.id

\* Progress of the server through a batch.
Processed ==
  rx # << >> =>
     LET watermark == dedup[rx[1].clientId] IN
     /\ \A j \in 1 .. pos : rx[j] \in output \/ rx[j].id <= watermark
     /\ pos > 0 => rx[pos].id <= watermark \/ latest = rx[pos].id
     /\ spc = "ack" => LastId(rx) <= watermark

\* dedup.state is never behind the table in memory.
FileCovers == \A c \in ClientIds : dedup[c] <= dedupFile[c]

\* The watermark covers what has been acknowledged.
AckCovered == inbox # << >> \/ cpc = "confirm" =>
                 LastId(Batch) <= dedup[state.clientId]

PrintInv == /\ DedupNeverSwallows
            /\ FrameClosed
            /\ PipeClosed
            /\ Processed
            /\ FileCovers
            /\ AckCovered

-----------------------------------------------------------------------------
(* What is safe. *)

Safe == Kept \cup output

\* What is being sent is still kept or already printed.
Backed == Pipe \cup InFlight \subseteq Safe

\* The lines before the checkpoint are safe, on disk and in memory, and so are
\* those that the producer has passed.
LinesSafe == /\ 1 .. stateFile.fileOffset \subseteq LinesOf(Safe)
             /\ proc = "up" => /\ state.fileOffset <= cur
                               /\ 1 .. cur \subseteq LinesOf(Safe)

SafeInv == Backed /\ LinesSafe /\ IdNeverReused

-----------------------------------------------------------------------------
(* What is printed once. *)

\* The budgets of faults are never exceeded.
WithinBudget == left.client <= MaxClientFaults /\ left.server <= MaxServerFaults

\* Until a server dies or fails to persist, what has been printed is below the
\* watermark or in the part of the batch that has been processed.
PrintedBelow ==
  left.server = MaxServerFaults =>
     /\ reprinted = {}
     /\ \A m \in output : \/ m.id <= dedup[m.clientId]
                          \/ \E j \in 1 .. Len(rx) : j <= pos /\ m = rx[j]

\* No fault of the client's machine so far, every line fits the protocol, and
\* there are more IDs than lines: the producer has no reason to throw.
Undisturbed == left.client = MaxClientFaults /\ Oversized = {} /\ MaxLine < MaxUint64

\* A line has one message; the lines that have one end where the producer is,
\* which is where the checkpoint is whenever the producer may stop.
OneMessage ==
  Undisturbed =>
     /\ \A m, n \in Range(walFile) \cup output : m.line = n.line => m = n
     /\ LastId(walFile) < stateFile.nextId
     /\ proc # "up" =>
           /\ \A m \in Range(walFile) \cup output : m.line <= stateFile.fileOffset
           /\ stateFile.nextId <= stateFile.fileOffset + 1
     /\ proc = "up" =>
           /\ state = stateFile
           /\ \A m \in Range(walFile) \cup output : m.line <= cur
           /\ state.nextId <= IF ppc = "append" THEN cur + 2 ELSE cur + 1
           /\ ppc \in {"read", "push", "closing", "done"} => state.fileOffset = cur

OnceInv == WithinBudget /\ PrintedBelow /\ OneMessage

\* The inductive invariant, in the layers in which it is proved.
Inv == /\ TypeOK /\ ClientShape /\ ServerShape
       /\ ConnInv
       /\ OrderInv
       /\ PrintInv
       /\ SafeInv
       /\ OnceInv

=============================================================================
