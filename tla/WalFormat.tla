------------------------------ MODULE WalFormat ------------------------------
(***************************************************************************)
(* The bytes of pending.wal: WriteAheadLog::append writes a frame for each *)
(* message, load reads them back (src/WriteAheadLog.cpp).  The process can *)
(* end after any byte of a frame; nobody else looks at the file, so that   *)
(* is where the bytes written so far matter.                               *)
(***************************************************************************)
EXTENDS Protocol

VARIABLES file,      \* the bytes of pending.wal
          unwritten, \* the frame that append is writing
          up,        \* the process runs
          pending,   \* pending_, the messages in memory
          nextId     \* the next message ID, kept in client.state

walVars == <<file, unwritten, up, pending, nextId>>

WalTypeOK == /\ file \in Seq(Byte)
             /\ unwritten \in Seq(Byte)
             /\ up \in BOOLEAN
             /\ \A i \in DOMAIN pending : RecordOk(pending[i])
             /\ nextId \in Nat

\* What the producer has to say under an ID: fields at their limits.
Message(id) == [id |-> id, timestampMs |-> -1, clientId |-> <<1>>,
                source  |-> IF id % 2 = 0 THEN << >> ELSE <<2>>,
                content |-> IF id % 3 = 0 THEN << >> ELSE <<0, 3>>]

-----------------------------------------------------------------------------
\* load: the messages of the file up to its end, or up to a frame that is not
\* all there; torn tells which.  It throws on a frame it cannot parse, on IDs
\* that do not increase and on a second client.
Load(bytes) ==
  LET end(torn) == Result([messages |-> << >>, torn |-> torn])
      from[offset \in 0 .. Len(bytes)] ==
        LET header == ParseFrameHeader(BytesAt(bytes, offset, FrameHeaderSize))
            length == FrameHeaderSize + ValueOf(header).payloadLength
            record == DeserializeLogMessage(BytesAt(bytes, offset, length))
            rest   == from[offset + length]
        IN IF offset = Len(bytes) THEN end(FALSE)
           ELSE IF ~ HasBytes(bytes, offset, FrameHeaderSize) THEN end(TRUE)
           ELSE IF Threw(header) \/ ValueOf(header).type # MessageType.Log THEN Throw
           ELSE IF ~ HasBytes(bytes, offset, length) THEN end(TRUE)
           ELSE IF Threw(record) \/ Threw(rest) THEN Throw
           ELSE Result([ValueOf(rest) EXCEPT !.messages = <<ValueOf(record)>> \o @])
  IN IF Threw(from[0]) \/ ~ BatchOk(ValueOf(from[0]).messages) THEN Throw
     ELSE from[0]

\* rewriteLocked: the file made again from the messages in memory.
Rewritten(messages) ==
  FlattenSeq([i \in DOMAIN messages |-> ValueOf(SerializeLogMessage(messages[i]))])

\* The log a client with two messages in it was started with.
WalInit(firstId) == /\ pending = <<Message(firstId), Message(firstId + 1)>>
                    /\ file = Rewritten(pending)
                    /\ unwritten = << >>
                    /\ up = TRUE
                    /\ nextId = firstId + 2

\* The mutex of the log is free.
Unlocked == up /\ unwritten = << >>

\* append: serializeLogMessage, then appendDurably opens the file.
AppendBegin == /\ Unlocked
               /\ unwritten' = ValueOf(SerializeLogMessage(Message(nextId)))
               /\ nextId' = nextId + 1
               /\ UNCHANGED <<file, up, pending>>

\* All of it is written, and append takes the message into memory.
AppendEnd == /\ up
             /\ unwritten # << >>
             /\ file' = file \o unwritten
             /\ unwritten' = << >>
             /\ pending' = Append(pending, Message(nextId - 1))
             /\ UNCHANGED <<up, nextId>>

\* confirm: the messages up to this ID go, from memory and from the file.
Confirm(id) == /\ Unlocked
               /\ pending' = SelectSeq(pending, LAMBDA m : m.id > id)
               /\ file' = Rewritten(pending')
               /\ UNCHANGED <<unwritten, up, nextId>>

\* The process ends, inside append after any number of bytes.
Dies == /\ up
        /\ up' = FALSE
        /\ \E written \in 0 .. Len(unwritten) :
             /\ file' = file \o SubSeq(unwritten, 1, written)
             /\ pending' = IF unwritten # << >> /\ written = Len(unwritten)
                           THEN Append(pending, Message(nextId - 1)) ELSE pending
        /\ unwritten' = << >>
        /\ UNCHANGED nextId

\* Mutant of Reload: the torn frame is left in the file.
ReloadKeepsTail == /\ ~ up
                   /\ ~ Threw(Load(file))
                   /\ up' = TRUE
                   /\ pending' = ValueOf(Load(file)).messages
                   /\ UNCHANGED <<file, unwritten, nextId>>

\* The next process loads the file, and repairs it when its end is torn.
Reload == /\ ~ up
          /\ ~ Threw(Load(file))
          /\ up' = TRUE
          /\ pending' = ValueOf(Load(file)).messages
          /\ file' = IF ValueOf(Load(file)).torn THEN Rewritten(pending') ELSE file
          /\ UNCHANGED <<unwritten, nextId>>

-----------------------------------------------------------------------------
\* Wherever the writing of a frame ends, load finds exactly the messages whose
\* frames are complete, and sees whether there is part of another: it never
\* throws, and never takes the beginning of a frame for a shorter one.  A
\* running process appends to a file without such a part.
TornTailRecovered ==
  LET loaded == Load(file)
  IN /\ ~ Threw(loaded)
     /\ ValueOf(loaded).messages = pending
     /\ ValueOf(loaded).torn = (file # Rewritten(pending))
     /\ up => ~ ValueOf(loaded).torn

=============================================================================
