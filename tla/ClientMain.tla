----------------------------- MODULE ClientMain -----------------------------
(***************************************************************************)
(* The client program (src/main.cpp): the producer thread that turns log   *)
(* lines into messages, the consumer thread that delivers them in batches, *)
(* the main thread that stops both, and the process that can die anywhere  *)
(* between two steps and be started again.                                 *)
(*                                                                         *)
(* A line of the log file is its number; FileTailReader is represented by  *)
(* what the producer uses of it: the lines that follow the last read, in   *)
(* order, and the position after them (TailProducer has the files).  The   *)
(* queue is the sequential behaviour of BoundedBlockingQueue.              *)
(***************************************************************************)
EXTENDS WriteAheadLog, ClientState, Transport

CONSTANTS SendBatchSize,  \* most messages in one batch frame
          QueueCapacity,  \* capacity of the queue between the threads
          Oversized       \* lines longer than the protocol's content limit

ASSUME BatchAssumption == SendBatchSize \in Nat \ {0}

ASSUME QueueAssumption == QueueCapacity \in Nat \ {0}

ASSUME OversizedAssumption == Oversized \subseteq Line

VARIABLES written,   \* complete lines in the log file
          proc,      \* the process: "down", "loading" (WAL read), "up"
          running,   \* the stop flag shared by the threads
          ppc,       \* where the producer is
          cur,       \* last line the producer has put into the WAL
          readPos,   \* last line its reader has returned
          messages,  \* lines of this round, in the WAL, not yet queued
          queue,     \* the bounded queue between the threads ...
          closed,    \* ... and its closed_ flag
          cpc,       \* where the consumer is
          sending    \* messages sendMessages has still to get acknowledged

producerVars == <<ppc, cur, readPos, messages>>
queueVars    == <<queue, closed>>
consumerVars == <<cpc, sending>>
clientVars   == <<written, proc, running, producerVars, queueVars, consumerVars>>

ProducerPc == {"off", "read", "alloc", "append", "checkpoint", "push",
               "closing", "done"}
ConsumerPc == {"off", "loop", "pop", "fill", "deliver", "send", "await",
               "confirm", "backoff", "done"}

ClientTypeOK == /\ written \in 0 .. MaxLine
                /\ proc \in {"down", "loading", "up"}
                /\ running \in BOOLEAN
                /\ ppc \in ProducerPc
                /\ cur \in 0 .. MaxLine
                /\ readPos \in 0 .. MaxLine
                /\ messages \in Seq(Message)
                /\ queue \in Seq(Message)
                /\ closed \in BOOLEAN
                /\ cpc \in ConsumerPc
                /\ sending \in Seq(Message)

ClientInit == /\ written = 0
              /\ proc = "down"
              /\ running = FALSE
              /\ ppc = "off"
              /\ cur = 0
              /\ readPos = 0
              /\ messages = << >>
              /\ queue = << >>
              /\ closed = FALSE
              /\ cpc = "off"
              /\ sending = << >>

\* Some other program appends a line to the log file.
WriteLine == /\ written < MaxLine
             /\ written' = written + 1
             /\ UNCHANGED <<proc, running, producerVars, queueVars, consumerVars>>
             /\ UNCHANGED <<walVars, stateVars, netVars>>

-----------------------------------------------------------------------------
(* The process: start, stop, death. *)

\* main opens the WAL and copies what it recovered.
StartWal == /\ proc = "down"
            /\ WalLoad
            /\ proc' = "loading"
            /\ UNCHANGED <<written, running, producerVars, queueVars, consumerVars>>
            /\ UNCHANGED <<stateVars, netVars>>

\* Mutant of StartState: the recovered messages are not replayed.
StartStateNoReplay == /\ proc = "loading"
                      /\ StateLoad(pending)
                      /\ proc' = "up"
                      /\ running' = TRUE
                      /\ ppc' = "read"
                      /\ cur' = state'.fileOffset
                      /\ readPos' = state'.fileOffset
                      /\ sending' = << >>
                      /\ cpc' = "loop"
                      /\ UNCHANGED <<written, messages, queueVars>>
                      /\ UNCHANGED <<walVars, netVars>>

\* main opens the client state and starts the threads: the reader begins at
\* the checkpoint, the consumer with the recovered messages.
StartState == /\ proc = "loading"
              /\ StateLoad(pending)
              /\ proc' = "up"
              /\ running' = TRUE
              /\ ppc' = "read"
              /\ cur' = state'.fileOffset
              /\ readPos' = state'.fileOffset
              /\ sending' = pending
              /\ cpc' = IF pending = << >> THEN "loop" ELSE "deliver"
              /\ UNCHANGED <<written, messages, queueVars>>
              /\ UNCHANGED <<walVars, netVars>>

\* SIGINT or SIGTERM reaches the main thread.
StopSignal == /\ proc = "up"
              /\ running
              /\ running' = FALSE
              /\ UNCHANGED <<written, proc, producerVars, queueVars, consumerVars>>
              /\ UNCHANGED <<walVars, stateVars, netVars>>

\* The main thread, out of its loop because running is false.
MainClose == /\ proc = "up"
             /\ ~ running
             /\ ~ closed
             /\ closed' = TRUE
             /\ UNCHANGED <<written, proc, running, producerVars, queue, consumerVars>>
             /\ UNCHANGED <<walVars, stateVars, netVars>>

\* What a dead process leaves: its files, and its socket closed by the kernel.
ClientGone == /\ proc' = "down"
              /\ running' = FALSE
              /\ ppc' = "off"
              /\ cur' = 0
              /\ readPos' = 0
              /\ messages' = << >>
              /\ queue' = << >>
              /\ closed' = FALSE
              /\ cpc' = "off"
              /\ sending' = << >>
              /\ WalForget
              /\ StateForget
              /\ ClientClose
              /\ UNCHANGED <<written, stateFile, usedIds>>

\* main joins both threads and returns.
Exit == /\ proc = "up"
        /\ ~ running
        /\ closed
        /\ ppc = "done"
        /\ cpc = "done"
        /\ ClientGone
        /\ UNCHANGED <<walFile, walTail>>

-----------------------------------------------------------------------------
(* The producer thread. *)

\* The message the producer builds from the ID it has just allocated.
NewMessage == [id |-> state.nextId - 1, clientId |-> state.clientId,
               line |-> cur + 1]

ProducerUnchanged == UNCHANGED <<written, proc, consumerVars, netVars>>

\* readNewLines returns the next lines: up to the end of the file or, in the
\* round that sees a rotation, up to the end of the old file (FileTailReader).
\* A round that finds nothing changes nothing.
ReadNewLines == /\ ppc = "read"
                /\ running
                /\ \E n \in readPos + 1 .. written : readPos' = n
                /\ ppc' = "alloc"
                /\ UNCHANGED <<cur, messages, running, queueVars>>
                /\ ProducerUnchanged
                /\ UNCHANGED <<walVars, stateVars>>

\* running is false at the top of the loop.
ProducerLeavesLoop == /\ ppc = "read"
                      /\ ~ running
                      /\ ppc' = "closing"
                      /\ UNCHANGED <<cur, readPos, messages, running, queueVars>>
                      /\ ProducerUnchanged
                      /\ UNCHANGED <<walVars, stateVars>>

\* Mutant of ProducerThrows: nobody is told to stop.
ProducerThrowsAlone == /\ ppc' = "closing"
                       /\ messages' = << >>
                       /\ UNCHANGED <<cur, readPos, running, queueVars>>
                       /\ ProducerUnchanged

\* The handler of an exception thrown anywhere in the loop: the round is
\* abandoned, everybody is told to stop.
ProducerThrows == /\ running' = FALSE
                  /\ ppc' = "closing"
                  /\ messages' = << >>
                  /\ UNCHANGED <<cur, readPos, queueVars>>
                  /\ ProducerUnchanged

\* readNewLines throws (the file cannot be opened, read or examined).
ReadFails == /\ ppc = "read"
             /\ running
             /\ ProducerThrows
             /\ UNCHANGED <<walVars, stateVars>>

AllocId == /\ ppc = "alloc"
           /\ NextMessageId
           /\ ppc' = "append"
           /\ UNCHANGED <<cur, readPos, messages, running, queueVars>>
           /\ ProducerUnchanged
           /\ UNCHANGED walVars

AllocExhausted == /\ ppc = "alloc"
                  /\ IdsExhausted
                  /\ ProducerThrows
                  /\ UNCHANGED <<walVars, stateVars>>

AllocFails == /\ ppc = "alloc"
              /\ NextMessageIdFails
              /\ ProducerThrows
              /\ UNCHANGED walVars

\* wal.append, then the next line or, after the last, the checkpoint.
AppendMessage == /\ ppc = "append"
                 /\ cur + 1 \notin Oversized
                 /\ WalAppend(NewMessage)
                 /\ messages' = Append(messages, NewMessage)
                 /\ cur' = cur + 1
                 /\ ppc' = IF cur + 1 < readPos THEN "alloc" ELSE "checkpoint"
                 /\ UNCHANGED <<readPos, running, queueVars>>
                 /\ ProducerUnchanged
                 /\ UNCHANGED stateVars

\* serializeLogMessage refuses the line before anything is written.
AppendOversized == /\ ppc = "append"
                   /\ cur + 1 \in Oversized
                   /\ ProducerThrows
                   /\ UNCHANGED <<walVars, stateVars>>

AppendFails == /\ ppc = "append"
               /\ cur + 1 \notin Oversized
               /\ WalAppendFails(NewMessage)
               /\ ProducerThrows
               /\ UNCHANGED stateVars

Checkpoint == /\ ppc = "checkpoint"
              /\ UpdateFileCheckpoint(readPos)
              /\ ppc' = "push"
              /\ UNCHANGED <<cur, readPos, messages, running, queueVars>>
              /\ ProducerUnchanged
              /\ UNCHANGED walVars

CheckpointFails == /\ ppc = "checkpoint"
                   /\ UpdateFileCheckpointFails(readPos)
                   /\ ProducerThrows
                   /\ UNCHANGED walVars

\* queue.push of the next message of the round.
PushMessage == /\ ppc = "push"
               /\ ~ closed
               /\ Len(queue) < QueueCapacity
               /\ queue' = Append(queue, Head(messages))
               /\ messages' = Tail(messages)
               /\ ppc' = IF Len(messages) = 1 THEN "read" ELSE "push"
               /\ UNCHANGED <<cur, readPos, running, closed>>
               /\ ProducerUnchanged
               /\ UNCHANGED <<walVars, stateVars>>

\* push returns false; the thread returns at once.
PushRefused == /\ ppc = "push"
               /\ closed
               /\ messages' = << >>
               /\ ppc' = "done"
               /\ UNCHANGED <<cur, readPos, running, queueVars>>
               /\ ProducerUnchanged
               /\ UNCHANGED <<walVars, stateVars>>

ProducerClose == /\ ppc = "closing"
                 /\ closed' = TRUE
                 /\ ppc' = "done"
                 /\ UNCHANGED <<cur, readPos, messages, running, queue>>
                 /\ ProducerUnchanged
                 /\ UNCHANGED <<walVars, stateVars>>

Producer == \/ ReadNewLines \/ ProducerLeavesLoop
            \/ AllocId \/ AllocExhausted
            \/ AppendMessage \/ AppendOversized
            \/ Checkpoint
            \/ PushMessage \/ PushRefused
            \/ ProducerClose

ProducerFault == ReadFails \/ AllocFails \/ AppendFails \/ CheckpointFails

-----------------------------------------------------------------------------
(* The consumer thread. *)

ConsumerUnchanged == UNCHANGED <<written, proc, running, producerVars, stateVars>>

\* The batch deliverWithRetry works on: the head of what is left to send.
Batch == SubSeq(sending, 1, Smaller(SendBatchSize, Len(sending)))

LoopAgain == /\ cpc = "loop"
             /\ running
             /\ cpc' = "pop"
             /\ UNCHANGED <<sending, queueVars, walVars, netVars>>
             /\ ConsumerUnchanged

\* The thread returns and its locals, the connection among them, are destroyed.
ConsumerEnds == /\ cpc' = "done"
                /\ sending' = << >>
                /\ ClientClose
                /\ UNCHANGED <<queue, walVars>>
                /\ ConsumerUnchanged

ConsumerLeavesLoop == /\ cpc = "loop"
                      /\ ~ running
                      /\ ConsumerEnds
                      /\ UNCHANGED closed

\* popBatch moves the messages that are there; with fewer than it wants and
\* the queue open it waits for more, without the lock.
TakeFromQueue(n) == /\ sending' = sending \o SubSeq(queue, 1, n)
                    /\ queue' = SubSeq(queue, n + 1, Len(queue))
                    /\ cpc' = IF Len(sending) + n < SendBatchSize /\ ~ closed
                              THEN "fill" ELSE "deliver"
                    /\ UNCHANGED <<closed, walVars, netVars>>
                    /\ ConsumerUnchanged

PopBatch == /\ cpc \in {"pop", "fill"}
            /\ queue # << >>
            /\ TakeFromQueue(Smaller(SendBatchSize - Len(sending), Len(queue)))

\* The deadline passes with the queue empty, or the queue is closed.
BatchDeadline == /\ cpc = "fill"
                 /\ queue = << >>
                 /\ cpc' = "deliver"
                 /\ UNCHANGED <<sending, queueVars, walVars, netVars>>
                 /\ ConsumerUnchanged

\* popBatch returns an empty batch.
PopClosed == /\ cpc = "pop"
             /\ queue = << >>
             /\ closed
             /\ ConsumerEnds
             /\ UNCHANGED closed

Connect == /\ cpc = "deliver"
           /\ running
           /\ sock = "none"
           /\ ClientConnect
           /\ cpc' = "send"
           /\ UNCHANGED <<sending, queueVars, walVars>>
           /\ ConsumerUnchanged

\* Mutant of DeliveryThrows: the connection is kept for the retry.
DeliveryThrowsKeepsSocket == /\ cpc' = "backoff"
                             /\ UNCHANGED <<sending, queueVars, netVars>>
                             /\ ConsumerUnchanged

\* The handler in deliverWithRetry: drop the connection, wait, try again.
DeliveryThrows == /\ cpc' = "backoff"
                  /\ ClientClose
                  /\ UNCHANGED <<sending, queueVars>>
                  /\ ConsumerUnchanged

ConnectFails == /\ cpc = "deliver"
                /\ running
                /\ sock = "none"
                /\ ~ listening \/ BacklogFull
                /\ DeliveryThrows
                /\ UNCHANGED walVars

\* At the call of sendLogBatchAndWaitAck, on a new or a kept connection.
AtSend == \/ cpc = "send"
          \/ cpc = "deliver" /\ running /\ sock # "none"

SendBatch == /\ AtSend
             /\ ClientSend(Batch)
             /\ cpc' = "await"
             /\ UNCHANGED <<sending, queueVars, walVars>>
             /\ ConsumerUnchanged

SendToClosed == /\ AtSend
                /\ sock = "broken"
                /\ DeliveryThrows
                /\ UNCHANGED walVars

\* The network fails before the whole frame is out.
SendFails == /\ AtSend
             /\ sock = "open"
             /\ DeliveryThrows
             /\ UNCHANGED walVars

\* receiveAck returns; sendLogBatchAndWaitAck throws on any other ID.
ReceiveAck == /\ cpc = "await"
              /\ inbox # << >>
              /\ IF Head(inbox) = LastId(Batch)
                 THEN /\ ClientReceive
                      /\ cpc' = "confirm"
                      /\ UNCHANGED <<sending, queueVars>>
                      /\ ConsumerUnchanged
                 ELSE DeliveryThrows
              /\ UNCHANGED walVars

ServerClosed == /\ cpc = "await"
                /\ sock = "broken"
                /\ DeliveryThrows
                /\ UNCHANGED walVars

\* Mutant of AckTimesOut: no SO_RCVTIMEO on the socket.
AckNeverTimesOut == FALSE

\* AckTimeout expires; the server may be anywhere between accept and its ACK.
AckTimesOut == /\ cpc = "await"
               /\ inbox = << >>
               /\ DeliveryThrows
               /\ UNCHANGED walVars

\* wal.confirm, then the next batch of sendMessages or the queue again.
ConfirmBatch == /\ cpc = "confirm"
                /\ WalConfirm(LastId(Batch))
                /\ sending' = SubSeq(sending, Len(Batch) + 1, Len(sending))
                /\ cpc' = IF Len(Batch) < Len(sending) THEN "deliver" ELSE "loop"
                /\ UNCHANGED <<queueVars, netVars>>
                /\ ConsumerUnchanged

ConfirmFails == /\ cpc = "confirm"
                /\ WalConfirmFails(LastId(Batch))
                /\ DeliveryThrows

\* waitForRetry has waited.
RetryDelivery == /\ cpc = "backoff"
                 /\ running
                 /\ cpc' = "deliver"
                 /\ UNCHANGED <<sending, queueVars, walVars, netVars>>
                 /\ ConsumerUnchanged

\* deliverWithRetry returns false: close the queue and return.
AbandonDelivery == /\ cpc \in {"deliver", "backoff"}
                   /\ ~ running
                   /\ closed' = TRUE
                   /\ ConsumerEnds

Consumer == \/ LoopAgain \/ ConsumerLeavesLoop
            \/ PopBatch \/ BatchDeadline \/ PopClosed
            \/ Connect \/ ConnectFails
            \/ SendBatch \/ SendToClosed
            \/ ReceiveAck \/ ServerClosed \/ AckTimesOut
            \/ ConfirmBatch
            \/ RetryDelivery \/ AbandonDelivery

Main == StartWal \/ StartState \/ MainClose \/ Exit

-----------------------------------------------------------------------------
(* Faults of the client's machine. *)

\* The process is killed.  If that happens inside appendDurably, the file may
\* be left with part of the record.
Crash == /\ proc # "down"
         /\ ClientGone
         /\ \/ UNCHANGED <<walFile, walTail>>
            \/ /\ ppc = "append"
               /\ cur + 1 \notin Oversized
               /\ WalTornAppend(NewMessage)

\* client.state disappears while the client is down; the constructor of
\* ClientState rebuilds what it can from the recovered messages.
LoseState == /\ proc = "down"
             /\ StateExists
             /\ stateFile' = NoState
             /\ UNCHANGED <<state, usedIds>>
             /\ UNCHANGED <<clientVars, walVars, netVars>>

ClientFault == ProducerFault \/ ConfirmFails \/ Crash \/ LoseState

=============================================================================
