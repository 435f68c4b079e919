---------------------------- MODULE WireExchange ----------------------------
(***************************************************************************)
(* The client's messages as bytes, from pending.wal over the connection to *)
(* the server and the acknowledgement back: the producer appends frames to *)
(* the log, the consumer encodes batches of what is in it, sends them and  *)
(* waits for the ACK (src/main.cpp, src/TcpClient.cpp), the server decodes *)
(* a batch and acknowledges it (src/ServerMain.cpp, src/TcpServer.cpp).    *)
(* What the server does with the messages is in LogBridge.                 *)
(***************************************************************************)
EXTENDS WalFormat, FrameTransfer, BatchSizing

CONSTANTS FirstId,     \* the ID the log starts with
          MaxAppends,  \* messages appended
          MaxFaults    \* processes that end, and timeouts

ASSUME ExchangeAssumption == /\ FirstId \in Nat \ {0}
                             /\ {MaxAppends, MaxFaults} \subseteq Nat

VARIABLES batch,   \* the batch deliverWithRetry is called with; or empty
          got,     \* what the server has made of it, as the result of a call
          acked,   \* the ID of the ACK the client has to apply; or 0
          appends,
          faults

vars == <<walVars, connVars, encoderVars, batch, got, acked, appends, faults>>

TypeOK == /\ WalTypeOK
          /\ ConnTypeOK
          /\ EncoderTypeOK
          /\ \A i \in DOMAIN batch : RecordOk(batch[i])
          /\ Len(got) <= 1
          /\ acked \in Nat
          /\ appends \in 0 .. MaxAppends
          /\ faults \in 0 .. MaxFaults

Init == /\ WalInit(FirstId)
        /\ ConnInit
        /\ EncoderInit
        /\ batch = << >>
        /\ got = Throw
        /\ acked = 0
        /\ appends = 0
        /\ faults = 0

-----------------------------------------------------------------------------
(* The producer. *)

ProducerAppends == /\ appends < MaxAppends
                   /\ AppendBegin
                   /\ appends' = appends + 1
                   /\ UNCHANGED <<connVars, encoderVars, batch, got, acked, faults>>

ProducerStored == /\ AppendEnd
                  /\ UNCHANGED <<connVars, encoderVars, batch, got, acked>>
                  /\ UNCHANGED <<appends, faults>>

-----------------------------------------------------------------------------
(* The consumer. *)

ConsumerKeeps == UNCHANGED <<got, appends, faults>>

\* sendMessages takes the next batch: the oldest of what is in the log.
TakeBatch == /\ up
             /\ batch = << >>
             /\ \E n \in BatchLengths :
                  /\ n <= Len(pending)
                  /\ batch' = SubSeq(pending, 1, n)
             /\ UNCHANGED <<walVars, connVars, encoderVars, acked>>
             /\ ConsumerKeeps

\* With a connection, sendLogBatch encodes the batch.
EncodeBatch == /\ side["client"] = "open"
               /\ speaker = "client"
               /\ frame = << >>
               /\ batch # << >>
               /\ acked = 0
               /\ \/ EncodeBegin(Len(batch)) /\ UNCHANGED connVars
                  \/ /\ seen < count
                     /\ EncodeRecord(RecordSize(batch[seen + 1]))
                     /\ UNCHANGED connVars
                  \/ EncodeEnd /\ SendAll(ValueOf(SerializeLogBatch(batch)))
               /\ UNCHANGED <<walVars, batch, acked>>
               /\ ConsumerKeeps

\* The client decodes the ACK.  One for another ID is an error.
ReceiveAck ==
  LET confirmedId == DeserializeAck(buffer)
      expected    == ~ Threw(confirmedId) /\ ValueOf(confirmedId) = Last(batch).id
  IN /\ Listener = "client"
     /\ FrameComplete
     /\ IF expected THEN Understood(<< >>) ELSE Refused
     /\ acked' = IF expected THEN ValueOf(confirmedId) ELSE 0
     /\ UNCHANGED <<walVars, encoderVars, batch>>
     /\ ConsumerKeeps

\* wal.confirm, and deliverWithRetry returns.
ApplyAck == /\ acked # 0
            /\ Confirm(acked)
            /\ acked' = 0
            /\ batch' = << >>
            /\ got' = Throw
            /\ EncoderReset
            /\ UNCHANGED <<connVars, appends, faults>>

-----------------------------------------------------------------------------
(* The server. *)

\* What receiveLogBatch makes of a frame: one message, a batch, or an error.
MessagesIn(bytes) ==
  LET type    == ValueOf(ParseFrameHeader(bytes)).type
      message == DeserializeLogMessage(bytes)
  IN IF type = MessageType.Log /\ ~ Threw(message)
     THEN Result(<<ValueOf(message)>>)
     ELSE IF type = MessageType.LogBatch THEN DeserializeLogBatch(bytes)
     ELSE Throw

\* Mutant of ReceiveLogBatch: only the first message is taken, as from a
\* frame with one message.
ReceiveLogBatchTakesOne ==
  LET messages == MessagesIn(buffer)
  IN /\ Listener = "server"
     /\ FrameComplete
     /\ got' = IF Threw(messages) THEN Throw
               ELSE Result(SubSeq(ValueOf(messages), 1, 1))
     /\ IF Threw(messages) THEN Refused
        ELSE Understood(ValueOf(SerializeAck(Last(ValueOf(messages)).id)))
     /\ UNCHANGED <<walVars, encoderVars, batch, acked, appends, faults>>

\* receiveLogBatch returns the batch; the server acknowledges its last
\* message.
ReceiveLogBatch ==
  LET messages == MessagesIn(buffer)
  IN /\ Listener = "server"
     /\ FrameComplete
     /\ got' = messages
     /\ IF Threw(messages) THEN Refused
        ELSE Understood(ValueOf(SerializeAck(Last(ValueOf(messages)).id)))
     /\ UNCHANGED <<walVars, encoderVars, batch, acked, appends, faults>>

-----------------------------------------------------------------------------
(* The connection and the faults. *)

OffWire == UNCHANGED <<walVars, encoderVars, batch, got, acked, appends, faults>>

\* An ACK that has been received is applied whatever became of the connection.
Connect == /\ up
           /\ acked = 0
           /\ Reconnect
           /\ EncoderReset
           /\ got' = Throw
           /\ UNCHANGED <<walVars, batch, acked, appends, faults>>

\* AckTimeout: send or recv fails, and deliverWithRetry drops the connection.
ClientTimesOut == /\ faults < MaxFaults
                  /\ side["client"] = "open"
                  /\ frame # << >>
                  /\ Leaves("client")
                  /\ faults' = faults + 1
                  /\ UNCHANGED <<speaker, frame, sentBytes, stream, buffer>>
                  /\ UNCHANGED <<walVars, encoderVars, batch, got, acked, appends>>

ClientCrashes == /\ faults < MaxFaults
                 /\ Dies
                 /\ Leaves("client")
                 /\ EncoderReset
                 /\ batch' = << >>
                 /\ acked' = 0
                 /\ got' = Throw
                 /\ faults' = faults + 1
                 /\ UNCHANGED <<speaker, frame, sentBytes, stream, buffer, appends>>

ClientStarts == /\ Reload
                /\ UNCHANGED <<connVars, encoderVars, batch, got, acked>>
                /\ UNCHANGED <<appends, faults>>

ServerCrashes == /\ faults < MaxFaults
                 /\ side["server"] = "open"
                 /\ Leaves("server")
                 /\ faults' = faults + 1
                 /\ UNCHANGED <<speaker, frame, sentBytes, stream, buffer>>
                 /\ UNCHANGED <<walVars, encoderVars, batch, got, acked, appends>>

Wire == \/ \E n \in 1 .. SocketBuffer : RecvSome(n) /\ OffWire
        \/ RecvEnd /\ OffWire
        \/ SendFails /\ OffWire

Next == \/ ProducerAppends \/ ProducerStored
        \/ TakeBatch \/ EncodeBatch \/ ReceiveAck \/ ApplyAck
        \/ ReceiveLogBatch
        \/ \E n \in 1 .. SocketBuffer : SendSome(n) /\ OffWire
        \/ Wire \/ Connect
        \/ ClientTimesOut \/ ClientCrashes \/ ClientStarts \/ ServerCrashes

\* recv and send return when there is something to return.
Spec == Init /\ [][Next]_vars /\ WF_vars(Wire)

-----------------------------------------------------------------------------
\* Whatever pieces the kernel makes and whichever side ends inside a frame,
\* the server decodes messages as the producer appended them, every field, the
\* sign of the timestamp and the largest ID included; and it decodes the batch
\* the client is waiting with, whose messages are in the log until the ACK is
\* applied.
DecodedAsAppended ==
  ~ Threw(got) =>
     /\ \A m \in Range(ValueOf(got)) : m = Message(m.id)
     /\ side["client"] = "open" => /\ got = Result(batch)
                                   /\ IsPrefix(batch, pending)

\* A frame with one byte replaced, lost or added; all kinds of frames.
Damaged(f) == {[f EXCEPT ![i] = b] : i \in DOMAIN f, b \in Byte}
                \cup {Front(f)} \cup {Append(f, b) : b \in Byte}

MadeFrames == {frame} \cup {ValueOf(SerializeLogMessage(m)) : m \in Range(batch)}

\* What a decoder accepts is exactly the encoding of what it returns, also
\* when a byte of a frame that was just made is damaged: no byte goes unread,
\* no field is read from another one's bytes, and a damaged frame is not taken
\* for the one that was made.
AcceptedIsCanonical ==
  sentBytes = 0 /\ frame # << >> =>
    \A f \in UNION {Damaged(g) : g \in MadeFrames} :
      LET canonical(decoded, Serialize(_)) ==
            Threw(decoded) \/ Serialize(ValueOf(decoded)) = Result(f)
      IN /\ canonical(DeserializeLogMessage(f), SerializeLogMessage)
         /\ canonical(DeserializeLogBatch(f), SerializeLogBatch)
         /\ canonical(DeserializeAck(f), SerializeAck)

=============================================================================
