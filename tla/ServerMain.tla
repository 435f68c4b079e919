----------------------------- MODULE ServerMain -----------------------------
(***************************************************************************)
(* The server program (src/ServerMain.cpp): one thread that accepts a      *)
(* connection, and for each batch frame on it prints the messages above    *)
(* the client's watermark, persists the new watermark and acknowledges the *)
(* batch; a signal thread that stops it; and the process that can die      *)
(* anywhere between two steps and be started again.                        *)
(*                                                                         *)
(* The printed log is what the system delivers.  It is kept as the set of  *)
(* messages printed and the set of those printed more than once.           *)
(***************************************************************************)
EXTENDS DedupStore, Transport

VARIABLES spc,       \* where the server thread is
          stopping,  \* the signal thread has stopped the server
          rx,        \* the batch being processed
          pos,       \* messages of rx already processed
          latest,    \* latestProcessed
          output,    \* messages printed, over all runs of the server
          reprinted  \* messages printed more than once

serverVars == <<spc, stopping, rx, pos, latest, output, reprinted>>

ServerPc == {"down", "accept", "receive", "process", "persist", "ack"}

ServerTypeOK == /\ spc \in ServerPc
                /\ stopping \in BOOLEAN
                /\ rx \in Seq(Message)
                /\ pos \in Nat
                /\ latest \in 0 .. MaxUint64 - 1
                /\ output \subseteq Message
                /\ reprinted \subseteq Message

ServerInit == /\ spc = "down"
              /\ stopping = FALSE
              /\ rx = << >>
              /\ pos = 0
              /\ latest = 0
              /\ output = {}
              /\ reprinted = {}

-----------------------------------------------------------------------------
\* main: listen, load the watermarks.
ServerStart == /\ spc = "down"
               /\ ServerListen
               /\ DedupLoad
               /\ spc' = "accept"
               /\ stopping' = FALSE
               /\ UNCHANGED <<rx, pos, latest, output, reprinted>>

AcceptClient == /\ spc = "accept"
                /\ ~ stopping
                /\ conns # << >>
                /\ spc' = "receive"
                /\ UNCHANGED <<stopping, rx, pos, latest, output, reprinted>>
                /\ UNCHANGED <<dedupVars, netVars>>

\* The batch is over, whatever became of it.
NoBatch == rx' = << >> /\ pos' = 0 /\ latest' = 0

\* Mutant of ReceiveBatch: the watermark is persisted before the messages are
\* processed.
ReceiveBatchConfirmsFirst == /\ spc = "receive"
                             /\ ~ stopping
                             /\ ServerReceive
                             /\ rx' = conns[1].frame
                             /\ pos' = 0
                             /\ latest' = LastId(conns[1].frame)
                             /\ DedupConfirm(conns[1].frame[1].clientId, latest')
                             /\ spc' = "process"
                             /\ UNCHANGED <<stopping, output, reprinted>>

\* A batch arrives: latestProcessed starts at the client's watermark.
ReceiveBatch == /\ spc = "receive"
                /\ ~ stopping
                /\ ServerReceive
                /\ rx' = conns[1].frame
                /\ pos' = 0
                /\ latest' = highestConfirmed(conns[1].frame[1].clientId)
                /\ spc' = "process"
                /\ UNCHANGED <<stopping, output, reprinted, dedupVars>>

\* One message of the batch: skipped at or below the watermark, which only
\* the persist step after the loop moves, else printed.
ProcessMessage ==
  LET m == rx[pos + 1] IN
  /\ spc = "process"
  /\ IF m.id <= highestConfirmed(rx[1].clientId)
     THEN UNCHANGED <<latest, output, reprinted>>
     ELSE /\ output' = output \cup {m}
          /\ reprinted' = reprinted \cup ({m} \cap output)
          /\ latest' = m.id
  /\ pos' = pos + 1
  /\ spc' = IF pos + 1 < Len(rx) THEN "process" ELSE "persist"
  /\ UNCHANGED <<stopping, rx, dedupVars, netVars>>

PersistWatermark == /\ spc = "persist"
                    /\ DedupConfirm(rx[1].clientId, latest)
                    /\ spc' = "ack"
                    /\ UNCHANGED <<stopping, rx, pos, latest, output, reprinted>>
                    /\ UNCHANGED netVars

\* The server gives the connection up and returns to accept.  After stop()
\* there is no connection left to close.
BackToAccept == /\ spc' = "accept"
                /\ NoBatch
                /\ IF stopping THEN UNCHANGED netVars ELSE ServerCloseClient
                /\ UNCHANGED <<stopping, output, reprinted>>

\* confirm throws: the handler drops the connection.
ConfirmWatermarkFails == /\ spc = "persist"
                         /\ DedupConfirmFails(rx[1].clientId, latest)
                         /\ BackToAccept

\* The ACK names the last message of the batch, skipped or not.
SendAck == /\ spc = "ack"
           /\ ~ stopping
           /\ ServerAck(LastId(rx))
           /\ spc' = "receive"
           /\ NoBatch
           /\ UNCHANGED <<stopping, output, reprinted, dedupVars>>

\* sendAck throws: no client socket after stop(), or the peer is gone.
SendAckFails == /\ spc = "ack"
                /\ ~ stopping => ~ conns[1].open
                /\ BackToAccept
                /\ UNCHANGED dedupVars

\* End of stream or reset from a client that closed its end; a reset discards
\* a frame not yet read.
ClientDisconnects == /\ spc = "receive"
                     /\ ~ stopping
                     /\ ~ conns[1].open
                     /\ BackToAccept
                     /\ UNCHANGED dedupVars

\* The network breaks a connection that the client still holds.
ConnectionFails == /\ spc \in {"receive", "ack"}
                   /\ ~ stopping
                   /\ conns[1].open
                   /\ BackToAccept
                   /\ UNCHANGED dedupVars

\* running is false and stop() has closed the sockets: the loops end.
ServerExit == /\ stopping
              /\ spc \in {"accept", "receive"}
              /\ spc' = "down"
              /\ stopping' = FALSE
              /\ UNCHANGED <<rx, pos, latest, output, reprinted>>
              /\ UNCHANGED <<dedupVars, netVars>>

Server == \/ ServerStart \/ AcceptClient \/ ReceiveBatch
          \/ ProcessMessage \/ PersistWatermark
          \/ SendAck \/ SendAckFails
          \/ ClientDisconnects \/ ServerExit

-----------------------------------------------------------------------------
\* The signal thread: running = false, then stop().
ServerStopSignal == /\ spc # "down"
                    /\ ~ stopping
                    /\ stopping' = TRUE
                    /\ ServerCloseAll
                    /\ UNCHANGED <<spc, rx, pos, latest, output, reprinted>>
                    /\ UNCHANGED dedupVars

\* The process is killed, or accept fails and main returns.
ServerCrash == /\ spc # "down"
               /\ spc' = "down"
               /\ stopping' = FALSE
               /\ NoBatch
               /\ ServerCloseAll
               /\ UNCHANGED <<output, reprinted, dedupVars>>

ServerFault == ConfirmWatermarkFails \/ ServerCrash

=============================================================================
