---------------------------- MODULE FrameTransfer ----------------------------
(***************************************************************************)
(* sendAll and receiveFrame (src/SocketIO.cpp) on a TCP connection: a      *)
(* stream of bytes without borders, which the kernel takes and hands out   *)
(* in pieces, and which may end anywhere.                                  *)
(*                                                                         *)
(* The two sides take turns, so one stream is enough: the speaker sends a  *)
(* frame, the listener receives it and is the next speaker.                *)
(***************************************************************************)
EXTENDS Protocol

CONSTANT SocketBuffer \* bytes the kernel holds

ASSUME TransferAssumption == SocketBuffer \in Nat \ {0}

Sides == {"client", "server"}

Other(s) == CHOOSE t \in Sides : t # s

VARIABLES speaker,   \* the side whose turn it is to send
          frame,     \* what it has given to sendAll; empty before that
          sentBytes, \* how much of it the kernel has taken
          stream,    \* bytes in the kernel
          buffer,    \* the bytes the listener's receiveExact has put together
          side       \* of each side: "open", or how it ended: "gone" by itself,
                     \* "eof" (nullopt), "threw" or "lost" (no one to send to)

connVars == <<speaker, frame, sentBytes, stream, buffer, side>>

Listener == Other(speaker)

ConnTypeOK == /\ speaker \in Sides
              /\ frame \in Seq(Byte)
              /\ sentBytes \in 0 .. Len(frame)
              /\ stream \in Seq(Byte)
              /\ Len(stream) <= SocketBuffer
              /\ buffer \in Seq(Byte)
              /\ side \in [Sides -> {"open", "gone", "eof", "threw", "lost"}]

\* A new connection.
ConnInit == /\ speaker = "client"
            /\ frame = << >>
            /\ sentBytes = 0
            /\ stream = << >>
            /\ buffer = << >>
            /\ side = [s \in Sides |-> "open"]

\* The sides are no longer there and the client connects again.
Reconnect == /\ \A s \in Sides : side[s] # "open"
             /\ speaker' = "client"
             /\ frame' = << >>
             /\ sentBytes' = 0
             /\ stream' = << >>
             /\ buffer' = << >>
             /\ side' = [s \in Sides |-> "open"]

-----------------------------------------------------------------------------
\* The speaker calls sendAll.
SendAll(data) == /\ side[speaker] = "open"
                 /\ frame = << >>
                 /\ frame' = data
                 /\ UNCHANGED <<speaker, sentBytes, stream, buffer, side>>

\* One turn of the loop in sendAll: send takes n bytes.
SendSome(n) == /\ side[speaker] = "open"
               /\ n \in 1 .. Len(frame) - sentBytes
               /\ Len(stream) + n <= SocketBuffer
               /\ stream' = stream \o BytesAt(frame, sentBytes, n)
               /\ sentBytes' = sentBytes + n
               /\ UNCHANGED <<speaker, frame, buffer, side>>

\* A side closes its end, or its process dies.
Leaves(s) == side' = [side EXCEPT ![s] = IF @ = "open" THEN "gone" ELSE @]

\* A side is in a call that moves bytes: the listener in recv, the speaker in
\* sendAll or waiting for the answer.  A speaker that has nothing to send is
\* in neither.
Busy(s) == s = Listener \/ frame # << >>

\* The speaker finds nobody at the other end: send fails, or there is no
\* answer but the end of the stream.
SendFails == /\ side[speaker] = "open"
             /\ side[Listener] # "open"
             /\ Busy(speaker)
             /\ side' = [side EXCEPT ![speaker] = "lost"]
             /\ UNCHANGED <<speaker, frame, sentBytes, stream, buffer>>

\* receiveFrame cannot make sense of the header.
HeaderRefused(bytes) ==
  Len(bytes) >= FrameHeaderSize /\ Threw(ParseFrameHeader(bytes))

\* How many bytes receiveFrame waits for: the header, then what it says.
Wanted == IF Len(buffer) < FrameHeaderSize
          THEN FrameHeaderSize
          ELSE FrameHeaderSize + ValueOf(ParseFrameHeader(buffer)).payloadLength

\* receiveFrame has all of a frame and returns it.
FrameComplete == /\ side[Listener] = "open"
                 /\ Len(buffer) >= FrameHeaderSize
                 /\ Len(buffer) = Wanted

\* One turn of the loop in receiveExact: recv delivers n bytes, no more than
\* there is left to fill.
RecvSome(n) ==
  LET bytes == buffer \o BytesAt(stream, 0, n)
  IN /\ side[Listener] = "open"
     /\ ~ FrameComplete
     /\ n \in 1 .. Len(stream)
     /\ Len(bytes) <= Wanted
     /\ stream' = BytesAt(stream, n, Len(stream) - n)
     /\ buffer' = bytes
     /\ side' = IF HeaderRefused(bytes)
                THEN [side EXCEPT ![Listener] = "threw"] ELSE side
     /\ UNCHANGED <<speaker, frame, sentBytes>>

\* The listener has understood the frame and answers with the next.
Understood(answer) == /\ FrameComplete
                      /\ buffer' = << >>
                      /\ speaker' = Listener
                      /\ frame' = answer
                      /\ sentBytes' = 0
                      /\ UNCHANGED <<stream, side>>

\* The frame is complete, but the listener throws on it.
Refused == /\ FrameComplete
           /\ side' = [side EXCEPT ![Listener] = "threw"]
           /\ UNCHANGED <<speaker, frame, sentBytes, stream, buffer>>

\* Mutant of RecvEnd: the end of the stream inside a frame is not an error.
RecvEndQuiet == /\ side[Listener] = "open"
                /\ ~ FrameComplete
                /\ stream = << >>
                /\ side[speaker] # "open"
                /\ side' = [side EXCEPT ![Listener] = "eof"]
                /\ UNCHANGED <<speaker, frame, sentBytes, stream, buffer>>

\* Mutant of RecvEnd: recv is called again inside a frame.
RecvEndRetries == /\ side[Listener] = "open"
                  /\ ~ FrameComplete
                  /\ stream = << >>
                  /\ side[speaker] # "open"
                  /\ buffer = << >>
                  /\ side' = [side EXCEPT ![Listener] = "eof"]
                  /\ UNCHANGED <<speaker, frame, sentBytes, stream, buffer>>

\* recv returns 0: between two frames that is the end, inside one an error.
RecvEnd == /\ side[Listener] = "open"
           /\ ~ FrameComplete
           /\ stream = << >>
           /\ side[speaker] # "open"
           /\ side' = [side EXCEPT ![Listener] =
                         IF buffer = << >> THEN "eof" ELSE "threw"]
           /\ UNCHANGED <<speaker, frame, sentBytes, stream, buffer>>

-----------------------------------------------------------------------------
\* The listener throws only when the speaker stopped inside a frame, and then
\* always: a clean end means that no byte of a frame has left the speaker,
\* and bytes that arrive are never refused.
EndTellsTheTruth ==
  /\ side[Listener] = "eof" => sentBytes = 0
  /\ side[Listener] = "threw" => sentBytes \in 1 .. Len(frame) - 1

\* A side that is gone, inside a frame too, does not leave the other one in a
\* call on the connection for ever: that one has a whole frame to work on, or
\* ends as well.  A client with nothing to send makes no call and need not
\* notice that the server is gone before its next batch.
TransferEnds ==
  \A s \in Sides :
     side[s] # "open" /\ Busy(Other(s)) ~> FrameComplete \/ side[Other(s)] # "open"

=============================================================================
