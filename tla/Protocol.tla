------------------------------ MODULE Protocol ------------------------------
(***************************************************************************)
(* The wire format (include/Protocol.h, src/Protocol.cpp): frames of bytes *)
(* for one log message, a batch of them, and an acknowledgement.  The      *)
(* field widths are the code's; a byte has Base values instead of 256 and  *)
(* the limits on lengths are constants, so that small instances reach      *)
(* them.  A call that throws ProtocolError returns the empty sequence, any *)
(* other the sequence of its result.                                       *)
(***************************************************************************)
EXTENDS Integers, Sequences, SequencesExt

CONSTANTS Base,
          Magic,
          MaxClientIdLength,
          MaxSourceLength,
          MaxContentLength,
          MaxBatchMessageCount,
          MaxFramePayloadLength

ASSUME ProtocolAssumption ==
  /\ Base \in Nat \ (0 .. 3)
  /\ Magic \in 0 .. Base ^ 4 - 1
  /\ MaxFramePayloadLength \in 0 .. Base ^ 4 - 1
  /\ {MaxClientIdLength, MaxSourceLength, MaxContentLength} \subseteq Nat
  /\ MaxBatchMessageCount \in Nat

Byte == 0 .. Base - 1

Version            == 2
FrameHeaderSize    == 12
LogRecordFixedSize == 28
AckPayloadSize     == 8
BatchPrefixSize    == 4

MessageType == [Log |-> 1, Ack |-> 2, LogBatch |-> 3]

Throw      == << >>
Result(v)  == <<v>>
Threw(r)   == r = Throw
ValueOf(r) == r[1]

-----------------------------------------------------------------------------
(* Integers and strings. *)

\* appendUint16, appendUint32, appendUint64: most significant byte first.
Uint(width, value) == [k \in 1 .. width |-> (value \div Base ^ (width - k)) % Base]

\* requireBytes: count bytes at offset.
HasBytes(input, offset, count) == count <= Len(input) - offset

BytesAt(input, offset, count) == SubSeq(input, offset + 1, offset + count)

\* readUint8 to readUint64, with the bytes there.
UintAt(input, offset, width) ==
  LET value[n \in 0 .. width] ==
        IF n = 0 THEN 0 ELSE value[n - 1] * Base + input[offset + n]
  IN value[width]

\* bit_cast between the 64-bit timestamp and its unsigned bits.
Unsigned(t) == t % Base ^ 8

Signed(u) == IF 2 * u >= Base ^ 8 THEN u - Base ^ 8 ELSE u

-----------------------------------------------------------------------------
(* The frame header. *)

FrameHeader(type, payloadLength) ==
  Uint(4, Magic) \o <<Version, type>> \o Uint(2, 0) \o Uint(4, payloadLength)

ParseFrameHeader(header) ==
  IF /\ HasBytes(header, 0, FrameHeaderSize)
     /\ UintAt(header, 0, 4) = Magic
     /\ header[5] = Version
     /\ UintAt(header, 6, 2) = 0
     /\ UintAt(header, 8, 4) <= MaxFramePayloadLength
     /\ header[6] \in Range(MessageType)
  THEN Result([type |-> header[6], payloadLength |-> UintAt(header, 8, 4)])
  ELSE Throw

\* The header parses, is of this type, and tells the length of the frame.
FrameIs(frame, type) ==
  LET header == ParseFrameHeader(frame)
  IN /\ ~ Threw(header)
     /\ ValueOf(header).type = type
     /\ Len(frame) = FrameHeaderSize + ValueOf(header).payloadLength

-----------------------------------------------------------------------------
(* A log record. *)

LengthsOk(clientIdLength, sourceLength, contentLength) ==
  /\ clientIdLength \in 1 .. MaxClientIdLength
  /\ sourceLength <= MaxSourceLength
  /\ contentLength <= MaxContentLength

\* logRecordSize does not throw.
RecordOk(m) == /\ m.id # 0
               /\ LengthsOk(Len(m.clientId), Len(m.source), Len(m.content))

RecordSize(m) ==
  LogRecordFixedSize + Len(m.clientId) + Len(m.source) + Len(m.content)

\* appendLogRecord.
LogRecord(m) ==
  Uint(8, m.id) \o Uint(8, Unsigned(m.timestampMs))
    \o Uint(4, Len(m.clientId)) \o Uint(4, Len(m.source)) \o Uint(4, Len(m.content))
    \o m.clientId \o m.source \o m.content

\* readLogRecord: the message at offset and the offset behind it.
ReadLogRecord(input, offset) ==
  LET clientIdLength == UintAt(input, offset + 16, 4)
      sourceLength   == UintAt(input, offset + 20, 4)
      contentLength  == UintAt(input, offset + 24, 4)
      clientId       == offset + LogRecordFixedSize
      source         == clientId + clientIdLength
      content        == source + sourceLength
      end            == content + contentLength
  IN IF /\ HasBytes(input, offset, LogRecordFixedSize)
        /\ UintAt(input, offset, 8) # 0
        /\ LengthsOk(clientIdLength, sourceLength, contentLength)
        /\ end <= Len(input)
     THEN Result([message |-> [id          |-> UintAt(input, offset, 8),
                               timestampMs |-> Signed(UintAt(input, offset + 8, 8)),
                               clientId    |-> BytesAt(input, clientId, clientIdLength),
                               source      |-> BytesAt(input, source, sourceLength),
                               content     |-> BytesAt(input, content, contentLength)],
                  offset  |-> end])
     ELSE Throw

-----------------------------------------------------------------------------
(* The three frames. *)

SerializeLogMessage(m) ==
  IF RecordOk(m)
  THEN Result(FrameHeader(MessageType.Log, RecordSize(m)) \o LogRecord(m))
  ELSE Throw

DeserializeLogMessage(frame) ==
  LET record == ReadLogRecord(frame, FrameHeaderSize)
  IN IF /\ FrameIs(frame, MessageType.Log)
        /\ ~ Threw(record)
        /\ ValueOf(record).offset = Len(frame)
     THEN Result(ValueOf(record).message)
     ELSE Throw

\* One client, IDs strictly increasing, none of them zero.
BatchOk(messages) ==
  \A i \in DOMAIN messages :
     /\ messages[i].clientId = messages[1].clientId
     /\ messages[i].id > IF i = 1 THEN 0 ELSE messages[i - 1].id

\* The number of bytes after the header of a batch frame.
BatchSize(messages) ==
  FoldLeft(LAMBDA size, m : size + RecordSize(m), BatchPrefixSize, messages)

SerializeLogBatch(messages) ==
  IF /\ Len(messages) \in 1 .. MaxBatchMessageCount
     /\ BatchOk(messages)
     /\ \A i \in DOMAIN messages : RecordOk(messages[i])
     /\ BatchSize(messages) <= MaxFramePayloadLength
  THEN Result(FrameHeader(MessageType.LogBatch, BatchSize(messages))
                \o Uint(4, Len(messages))
                \o FlattenSeq([i \in DOMAIN messages |-> LogRecord(messages[i])]))
  ELSE Throw

\* The loop over count records, from the one behind the count.
ReadRecords(frame, count) ==
  LET read(sofar, i) ==
        LET record == ReadLogRecord(frame, ValueOf(sofar).offset)
        IN IF Threw(sofar) \/ Threw(record) THEN Throw
           ELSE Result([messages |-> Append(ValueOf(sofar).messages,
                                            ValueOf(record).message),
                        offset   |-> ValueOf(record).offset])
      none == [messages |-> << >>, offset |-> FrameHeaderSize + BatchPrefixSize]
  IN FoldLeft(read, Result(none), [i \in 1 .. count |-> i])

\* Mutant of DeserializeLogBatch: bytes behind the last record are let pass.
DeserializeLogBatchLax(frame) ==
  LET count   == UintAt(frame, FrameHeaderSize, 4)
      records == ReadRecords(frame, count)
  IN IF /\ FrameIs(frame, MessageType.LogBatch)
        /\ HasBytes(frame, FrameHeaderSize, BatchPrefixSize)
        /\ count \in 1 .. MaxBatchMessageCount
        /\ ~ Threw(records)
        /\ BatchOk(ValueOf(records).messages)
     THEN Result(ValueOf(records).messages)
     ELSE Throw

DeserializeLogBatch(frame) ==
  LET count   == UintAt(frame, FrameHeaderSize, 4)
      records == ReadRecords(frame, count)
  IN IF /\ FrameIs(frame, MessageType.LogBatch)
        /\ HasBytes(frame, FrameHeaderSize, BatchPrefixSize)
        /\ count \in 1 .. MaxBatchMessageCount
        /\ ~ Threw(records)
        /\ BatchOk(ValueOf(records).messages)
        /\ ValueOf(records).offset = Len(frame)
     THEN Result(ValueOf(records).messages)
     ELSE Throw

SerializeAck(confirmedId) ==
  Result(FrameHeader(MessageType.Ack, AckPayloadSize) \o Uint(8, confirmedId))

DeserializeAck(frame) ==
  IF /\ FrameIs(frame, MessageType.Ack)
     /\ Len(frame) = FrameHeaderSize + AckPayloadSize
  THEN Result(UintAt(frame, FrameHeaderSize, 8))
  ELSE Throw

=============================================================================
