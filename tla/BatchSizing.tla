---------------------------- MODULE BatchSizing ----------------------------
(***************************************************************************)
(* The size checks of serializeLogBatch (src/Protocol.cpp), record by      *)
(* record.  deliverWithRetry treats a batch that the encoder refuses like  *)
(* a broken connection and tries the same batch again, for ever; so no     *)
(* batch of records that the write-ahead log has accepted may be refused   *)
(* for its size.                                                           *)
(***************************************************************************)
EXTENDS Protocol, TLAPS

CONSTANT SendBatchSize  \* most messages the client puts into a batch

\* The largest logRecordSize returns.
MaxRecordSize ==
  LogRecordFixedSize + MaxClientIdLength + MaxSourceLength + MaxContentLength

\* What the limits of include/Protocol.h and src/main.cpp have to satisfy.
ASSUME LimitsAgree ==
  /\ SendBatchSize \in 1 .. MaxBatchMessageCount
  /\ BatchPrefixSize + SendBatchSize * MaxRecordSize <= MaxFramePayloadLength

\* They do, with the numbers that are there.
ASSUME CodeLimitsAgree ==
  /\ 10 <= 100
  /\ 4 + 10 * (28 + 128 + 4096 + 1048576) <= 16 * 1024 * 1024

VARIABLES count,       \* messages in the batch
          seen,        \* messages the loop has been over
          payloadSize,
          outcome      \* of the encoder: "idle", "busy", "encoded", "refused"

encoderVars == <<count, seen, payloadSize, outcome>>

EncoderTypeOK == /\ count \in Nat
                 /\ seen \in 0 .. count
                 /\ payloadSize \in Nat
                 /\ outcome \in {"idle", "busy", "encoded", "refused"}

EncoderInit == /\ count = 0
               /\ seen = 0
               /\ payloadSize = 0
               /\ outcome = "idle"

\* Mutant of BatchLengths: all that a restart finds goes into one batch.
BatchLengthsUncut == 1 .. 2 * SendBatchSize

\* sendMessages cuts what it has into batches, popBatch takes no more.
BatchLengths == 1 .. SendBatchSize

EncodeBegin(n) ==
  /\ outcome # "busy"
  /\ count' = n
  /\ seen' = 0
  /\ payloadSize' = BatchPrefixSize
  /\ outcome' = IF n > MaxBatchMessageCount THEN "refused" ELSE "busy"

\* One turn of the loop, for a record of this size.
EncodeRecord(recordSize) ==
  /\ outcome = "busy"
  /\ seen < count
  /\ IF recordSize > MaxFramePayloadLength - payloadSize
     THEN outcome' = "refused" /\ UNCHANGED payloadSize
     ELSE payloadSize' = payloadSize + recordSize /\ UNCHANGED outcome
  /\ seen' = seen + 1
  /\ UNCHANGED count

EncodeEnd == /\ outcome = "busy"
             /\ seen = count
             /\ outcome' = "encoded"
             /\ UNCHANGED <<count, seen, payloadSize>>

EncoderReset == count' = 0 /\ seen' = 0 /\ payloadSize' = 0 /\ outcome' = "idle"

EncoderNext == \/ \E n \in BatchLengths : EncodeBegin(n)
               \/ \E recordSize \in 0 .. MaxRecordSize : EncodeRecord(recordSize)
               \/ EncodeEnd
               \/ EncoderReset

EncoderSpec == EncoderInit /\ [][EncoderNext]_encoderVars

-----------------------------------------------------------------------------
\* serializeLogBatch accepts every batch the client makes, whatever records
\* the log holds: the limits on a record, a batch and a frame agree.
BatchNeverRefused == outcome # "refused"

\* What the loop has added so far cannot exceed the largest records.
SizeInv == /\ EncoderTypeOK
           /\ count <= SendBatchSize
           /\ outcome # "idle" =>
                payloadSize <= BatchPrefixSize + seen * MaxRecordSize
           /\ BatchNeverRefused

\* The client never makes a batch that the encoder refuses for its size.
THEOREM BatchNeverRefusedAlways == EncoderSpec => []BatchNeverRefused
<1> USE DEF SizeInv, EncoderTypeOK, BatchNeverRefused
<1>0. /\ MaxRecordSize \in Nat
      /\ BatchPrefixSize \in Nat
      /\ MaxFramePayloadLength \in Nat
      /\ MaxBatchMessageCount \in Nat
      /\ SendBatchSize \in Nat
      /\ SendBatchSize <= MaxBatchMessageCount
      /\ BatchPrefixSize + SendBatchSize * MaxRecordSize <= MaxFramePayloadLength
  <2>1. /\ MaxClientIdLength \in Nat
        /\ MaxSourceLength \in Nat
        /\ MaxContentLength \in Nat
        /\ MaxBatchMessageCount \in Nat
        /\ MaxFramePayloadLength \in Int
    BY ProtocolAssumption
  <2>2. MaxRecordSize \in Nat /\ BatchPrefixSize \in Nat
    BY <2>1 DEF MaxRecordSize, LogRecordFixedSize, BatchPrefixSize
  <2>3. SendBatchSize \in Nat /\ SendBatchSize <= MaxBatchMessageCount
    BY <2>1, LimitsAgree
  <2>4. MaxFramePayloadLength \in Nat
    BY <2>1, ProtocolAssumption
  <2> QED BY <2>1, <2>2, <2>3, <2>4, LimitsAgree
<1>1. EncoderInit => SizeInv
  BY <1>0 DEF EncoderInit
<1>2. SizeInv /\ [EncoderNext]_encoderVars => SizeInv'
  <2> SUFFICES ASSUME SizeInv, [EncoderNext]_encoderVars
               PROVE  SizeInv'
    OBVIOUS
  <2> USE <1>0
  <2>1. ASSUME NEW n \in BatchLengths, EncodeBegin(n)
        PROVE  SizeInv'
    <3>1. n \in Nat /\ n <= SendBatchSize /\ ~ (n > MaxBatchMessageCount)
      BY DEF BatchLengths
    <3> QED BY <2>1, <3>1 DEF EncodeBegin
  <2>2. ASSUME NEW recordSize \in 0 .. MaxRecordSize, EncodeRecord(recordSize)
        PROVE  SizeInv'
    <3>1. /\ seen \in Nat /\ seen + 1 <= SendBatchSize /\ seen + 1 <= count
          /\ seen' = seen + 1 /\ count' = count /\ outcome = "busy"
      BY <2>2 DEF EncodeRecord
    <3>2. recordSize \in Nat /\ recordSize <= MaxRecordSize
      OBVIOUS
    <3>3. (seen + 1) * MaxRecordSize = seen * MaxRecordSize + MaxRecordSize
      BY <3>1
    <3>4. (seen + 1) * MaxRecordSize <= SendBatchSize * MaxRecordSize
      BY <3>1
    <3>5. payloadSize + recordSize <= BatchPrefixSize + (seen + 1) * MaxRecordSize
      BY <3>1, <3>2, <3>3
    <3>6. ~ (recordSize > MaxFramePayloadLength - payloadSize)
      BY <3>1, <3>2, <3>4, <3>5
    <3>7. payloadSize' = payloadSize + recordSize /\ outcome' = outcome
      BY <2>2, <3>6 DEF EncodeRecord
    <3> QED BY <3>1, <3>2, <3>5, <3>7
  <2>3. CASE EncodeEnd
    BY <2>3 DEF EncodeEnd
  <2>4. CASE EncoderReset
    BY <2>4 DEF EncoderReset
  <2>5. CASE UNCHANGED encoderVars
    BY <2>5 DEF encoderVars
  <2> QED BY <2>1, <2>2, <2>3, <2>4, <2>5 DEF EncoderNext
<1>3. SizeInv => BatchNeverRefused
  OBVIOUS
<1> QED BY <1>1, <1>2, <1>3, PTL DEF EncoderSpec

=============================================================================
