---------------------------- MODULE TailProducer ----------------------------
(***************************************************************************)
(* The producer's loop around FileTailReader (src/main.cpp), with the WAL  *)
(* and the checkpoint of client.state that outlive the process, and the    *)
(* programs that write, rotate and truncate the log file.                  *)
(*                                                                         *)
(* A rotation renames the file and later creates a new one at the path;    *)
(* the writer goes on in the old file until then.  env names what is added *)
(* to that:                                                                *)
(*   "lag"   the writer keeps the old file for a while after the new one   *)
(*           is there;                                                     *)
(*   "down"  the client ends, or is not running, while a file it follows   *)
(*           is rotated away with lines it has not stored.                 *)
(* Three things are outside every run, as the reader cannot see them: a    *)
(* file rotated away before the reader opened it; a truncated file that    *)
(* has grown past the reader's old offset before the reader looks again;   *)
(* and a rotation while client.state still has the offset of the format    *)
(* without identity, which openCurrentFile would apply to the new file.    *)
(***************************************************************************)
EXTENDS FileTailReader, FiniteSets

CONSTANTS MaxLine,       \* lines the writer writes
          MaxFiles,      \* files it writes them to
          MaxTruncate,   \* times it truncates a file
          MaxEnds,       \* times the client ends or forgets its checkpoint
          Environments   \* the values of env

ASSUME TailAssumption == /\ {MaxLine, MaxFiles} \subseteq Nat \ {0}
                         /\ {MaxTruncate, MaxEnds} \subseteq Nat
                         /\ Environments \subseteq SUBSET {"lag", "down"}

VARIABLES pc,        \* where the producer is; "down" when there is no process
          stored,    \* every line put into the WAL
          ckpt,      \* offset and inode in client.state
          writer,    \* the inode the writer has open
          line,      \* the line it is writing or will write next
          midLine,   \* it has begun that line, its newline is not written
          stale,     \* positions not yet corrected after a truncation
          truncated, \* truncations so far
          ends,      \* ends of the process and lost checkpoints so far
          unclean,   \* those after which lines are read again
          env        \* see above; it does not change

producerVars == <<pc, stored, ckpt>>
writerVars   == <<writer, line, midLine, stale, truncated>>
countVars    == <<ends, unclean, env>>
vars         == <<fileVars, readerVars, producerVars, writerVars, countVars>>

Up == pc # "down"

\* The text of line l, and what a reader has of it that saw only its first
\* byte.
Text(l) == <<l, -l>>

Cut(l) == <<l>>

Byte == -MaxLine .. MaxLine

TypeOK == /\ files \in Seq(Seq(Byte))
          /\ Len(files) \in 1 .. MaxFiles
          /\ path \in 0 .. Len(files)
          /\ fd \in 0 .. Len(files)
          /\ offset \in Nat
          /\ pending \in Seq(Byte)
          /\ CommittedOffset >= 0
          /\ switchOnNext \in BOOLEAN
          /\ replaced \in BOOLEAN
          /\ size \in Nat
          /\ lines \in Seq(Seq(Byte))
          /\ pc \in {"down", "top", "fstat", "pread", "store", "checkpoint"}
          /\ stored \in Seq(Seq(Byte))
          /\ ckpt \in [offset : Nat, inode : 0 .. Len(files)]
          /\ writer \in 1 .. Len(files)
          /\ line \in 1 .. MaxLine + 1
          /\ midLine \in BOOLEAN
          /\ stale \subseteq {"reader", "checkpoint"}
          /\ truncated \in 0 .. MaxTruncate
          /\ ends \in 0 .. MaxEnds
          /\ unclean \in 0 .. MaxEnds
          /\ env \in Environments

\* A new client, or one whose state file is of the format without identity
\* and has a line delivered already.
Init == /\ line \in {1, 2}
        /\ files = <<IF line = 1 THEN << >> ELSE Append(Text(1), Newline)>>
        /\ path = 1
        /\ ReaderInit
        /\ pc = "down"
        /\ stored = IF line = 1 THEN << >> ELSE <<Text(1)>>
        /\ ckpt = [offset |-> IF line = 1 THEN 0 ELSE 3, inode |-> 0]
        /\ writer = 1
        /\ midLine = FALSE
        /\ stale = {}
        /\ truncated = 0
        /\ ends = 0
        /\ unclean = 0
        /\ env \in Environments

-----------------------------------------------------------------------------
(* What is in the files. *)

\* The lines of a set of texts, whole or cut.
LinesIn(texts) == {l \in 1 .. MaxLine : Text(l) \in texts \/ Cut(l) \in texts}

Stored == LinesIn(Range(stored))

\* The lines with text in file i, and those with all of it: up to a newline,
\* or to the end of a file that nobody writes to any more.
TextIn(i) == {b \in Range(files[i]) : b > 0}

CompleteIn(i) == TextIn(i) \ (IF i = writer /\ midLine THEN {line} ELSE {})

PositionOf(l, i) == CHOOSE k \in DOMAIN files[i] : files[i][k] = l

Complete == UNION {CompleteIn(i) : i \in DOMAIN files}

\* Everything in the files that are not at the path any more is stored.
RotatedStored == \A i \in DOMAIN files \ {path} : TextIn(i) \subseteq Stored

-----------------------------------------------------------------------------
(* The producer. *)

\* main finds the log file; the thread constructs its reader.
Start == /\ pc = "down"
         /\ OpenCurrentFile(ckpt.offset, ckpt.inode)
         /\ pc' = "top"
         /\ stale' = stale \ {"reader"}
         /\ UNCHANGED <<switchOnNext, replaced, size, lines, fileVars>>
         /\ UNCHANGED <<stored, ckpt, writer, line, midLine, truncated, countVars>>

ProducerKeeps == UNCHANGED <<writer, line, midLine, truncated, countVars>>

ReadNewLines == /\ pc = "top"
                /\ SwitchFile \/ StatPath
                /\ pc' = "fstat"
                /\ UNCHANGED <<stored, ckpt, stale>>
                /\ ProducerKeeps

ReadFstat == /\ pc = "fstat"
             /\ Fstat
             /\ pc' = "pread"
             /\ stale' = stale \ {"reader"}
             /\ UNCHANGED <<stored, ckpt>>
             /\ ProducerKeeps

ReadPread == /\ pc = "pread"
             /\ Pread
             /\ pc' = "store"
             /\ UNCHANGED <<stored, ckpt, stale>>
             /\ ProducerKeeps

\* wal.append of the next line of the round.
StoreLine == /\ pc = "store"
             /\ lines # << >>
             /\ stored' = Append(stored, Head(lines))
             /\ lines' = Tail(lines)
             /\ UNCHANGED <<fd, offset, pending, switchOnNext, replaced, size, fileVars>>
             /\ UNCHANGED <<pc, ckpt, stale>>
             /\ ProducerKeeps

RoundStored == /\ pc = "store"
               /\ lines = << >>
               /\ pc' = "checkpoint"
               /\ UNCHANGED <<stored, ckpt, stale, readerVars, fileVars>>
               /\ ProducerKeeps

\* A reader that has not noticed a truncation saves a wrong position.
StaleCheckpoint == stale' = IF "reader" \in stale THEN {"reader", "checkpoint"}
                                                   ELSE {}

\* Mutant of Checkpoint: the offset that includes the unfinished line.
CheckpointOffset == /\ pc = "checkpoint"
                    /\ ckpt' = [offset |-> offset, inode |-> fd]
                    /\ StaleCheckpoint
                    /\ pc' = "top"
                    /\ UNCHANGED <<stored, readerVars, fileVars>>
                    /\ ProducerKeeps

\* Mutant of Checkpoint: the position is not written to client.state.
CheckpointInMemory == /\ pc = "checkpoint"
                      /\ pc' = "top"
                      /\ UNCHANGED <<stored, ckpt, stale, readerVars, fileVars>>
                      /\ ProducerKeeps

\* state.updateFileCheckpoint, the queue, and the next round.
Checkpoint == /\ pc = "checkpoint"
              /\ ckpt' = [offset |-> CommittedOffset, inode |-> fd]
              /\ StaleCheckpoint
              /\ pc' = "top"
              /\ UNCHANGED <<stored, readerVars, fileVars>>
              /\ ProducerKeeps

\* The process is gone; its files stay.
Gone == /\ pc' = "down"
        /\ fd' = 0
        /\ offset' = 0
        /\ pending' = << >>
        /\ switchOnNext' = FALSE
        /\ replaced' = FALSE
        /\ size' = 0
        /\ lines' = << >>
        /\ stale' = stale \ {"reader"}
        /\ UNCHANGED <<fileVars, stored, ckpt, writer, line, midLine, truncated>>

\* The new file disappeared again before the reader came to open it: open
\* throws and the client stops.
SwitchFails == /\ pc = "top"
               /\ switchOnNext
               /\ path = 0
               /\ Gone
               /\ UNCHANGED countVars

MayEnd == \/ "down" \in env
          \/ path # 0 /\ RotatedStored

\* running is false at the top of the loop.
Stop == /\ pc = "top"
        /\ ends < MaxEnds
        /\ MayEnd
        /\ Gone
        /\ ends' = ends + 1
        /\ UNCHANGED <<unclean, env>>

\* The process is killed, or one of the round's calls throws.
Crash == /\ Up
         /\ ends < MaxEnds
         /\ MayEnd
         /\ Gone
         /\ ends' = ends + 1
         /\ unclean' = IF pc \in {"store", "checkpoint"} THEN unclean + 1 ELSE unclean
         /\ UNCHANGED env

\* client.state is lost, or the client is started with another log path and
\* then with this one again.
ForgetCheckpoint == /\ pc = "down"
                    /\ ends < MaxEnds
                    /\ ckpt.offset > 0
                    /\ ckpt' = [offset |-> 0, inode |-> 0]
                    /\ ends' = ends + 1
                    /\ unclean' = unclean + 1
                    /\ stale' = stale \ {"checkpoint"}
                    /\ UNCHANGED <<pc, stored, writer, line, midLine, truncated, env>>
                    /\ UNCHANGED <<readerVars, fileVars>>

Producer == \/ Start \/ ReadNewLines \/ ReadFstat \/ ReadPread
            \/ StoreLine \/ RoundStored \/ Checkpoint \/ SwitchFails

-----------------------------------------------------------------------------
(* The programs that own the log file. *)

EnvKeeps == UNCHANGED <<readerVars, producerVars, countVars>>

StalePositions ==
  (IF "reader" \in stale THEN {offset, CommittedOffset} ELSE {}) \cup
  (IF "checkpoint" \in stale THEN {ckpt.offset} ELSE {})

\* A write keeps the file shorter than the positions that a truncation made
\* wrong, and goes to a file the reader has or will open.
MayWrite ==
  /\ \A p \in StalePositions \ {0} : Len(files[writer]) + 1 < p
  /\ \/ writer \in {path, fd}
     \/ "lag" \in env
     \/ "down" \in env /\ ckpt.inode = writer

WriteByte(b) == /\ MayWrite
                /\ files' = [files EXCEPT ![writer] = Append(@, b)]
                /\ UNCHANGED <<path, writer, stale, truncated>>
                /\ EnvKeeps

WriteText == /\ ~ midLine
             /\ line <= MaxLine
             /\ WriteByte(line)
             /\ midLine' = TRUE
             /\ UNCHANGED line

LastByte(i) == files[i][Len(files[i])]

WriteRest == /\ midLine
             /\ LastByte(writer) = line
             /\ WriteByte(-line)
             /\ UNCHANGED <<midLine, line>>

WriteNewline == /\ midLine
                /\ LastByte(writer) = -line
                /\ WriteByte(Newline)
                /\ midLine' = FALSE
                /\ line' = line + 1

\* A file is renamed away while the reader has it open, or when all of it is
\* stored.
MoveAway == /\ path # 0
            /\ Len(files) < MaxFiles
            /\ ckpt.inode # 0 \/ ckpt.offset = 0
            /\ \/ fd = path
               \/ TextIn(path) \subseteq Stored
               \/ "down" \in env /\ pc = "down" /\ ckpt.inode = path
            /\ path' = 0
            /\ UNCHANGED <<files, writerVars>>
            /\ EnvKeeps

\* The writer turns to the file at the path; a line it leaves unfinished is
\* complete as it is.
WriterTurnsTo(i) == /\ writer' = i
                    /\ midLine' = FALSE
                    /\ line' = IF midLine THEN line + 1 ELSE line

CreateNew == /\ path = 0
             /\ files' = Append(files, << >>)
             /\ path' = Len(files) + 1
             /\ \/ WriterTurnsTo(Len(files) + 1)
                \/ "lag" \in env /\ UNCHANGED <<writer, midLine, line>>
             /\ UNCHANGED <<stale, truncated>>
             /\ EnvKeeps

Reopen == /\ path \notin {0, writer}
          /\ WriterTurnsTo(path)
          /\ UNCHANGED <<fileVars, stale, truncated>>
          /\ EnvKeeps

\* The writer empties the file and gives up the line it was writing.
Truncate == /\ truncated < MaxTruncate
            /\ path = writer
            /\ files[writer] # << >>
            /\ files' = [files EXCEPT ![writer] = << >>]
            /\ stale' = (IF fd = writer THEN {"reader"} ELSE {}) \cup
                        (IF ckpt.inode \in {0, writer} /\ ckpt.offset > 0
                         THEN {"checkpoint"} ELSE {})
            /\ truncated' = truncated + 1
            /\ midLine' = FALSE
            /\ line' = IF midLine THEN line + 1 ELSE line
            /\ UNCHANGED <<path, writer>>
            /\ EnvKeeps

Environment == \/ WriteText \/ WriteRest \/ WriteNewline
               \/ MoveAway \/ CreateNew \/ Reopen \/ Truncate
               \/ Stop \/ Crash \/ ForgetCheckpoint

Next == Producer \/ Environment

\* The producer polls, a stopped client is started again, and a rotation that
\* has renamed the file creates the new one.
Spec == Init /\ [][Next]_vars /\ WF_vars(Producer) /\ WF_vars(CreateNew)

-----------------------------------------------------------------------------
(* Properties. *)

\* Line l of file i is still in front of the reader: returned in this round,
\* not yet committed in the open file, or in the file it will open next.  A
\* file that has shrunk is all in front of it.
AheadOfReader(l, i) ==
  \/ l \in LinesIn(Range(lines))
  \/ /\ i = fd
     /\ \/ PositionOf(l, i) > CommittedOffset
        \/ Len(files[i]) < offset
  \/ i = path /\ fd # path

\* Line l of file i is in front of a reader started from the checkpoint.
AheadOfCheckpoint(l, i) ==
  i = path /\ PositionOf(l, i) > StartOffset(ckpt.offset, ckpt.inode)

\* Nothing happens to the file that the reader has no means to see.
Orderly == env = {}

\* A line that was completed and is still in some file is stored, or it is in
\* front of the running reader, or, without one, of the checkpoint: no orderly
\* rotation, no truncation, half line or restart makes readNewLines pass over
\* it.
NoLineMissed ==
  Orderly => \A i \in DOMAIN files : \A l \in CompleteIn(i) \ Stored :
               IF Up THEN AheadOfReader(l, i) ELSE AheadOfCheckpoint(l, i)

\* The process may end at any moment: what it has not stored of the file at
\* the path is always in front of the checkpoint on disk, although that is
\* written after the lines and may be of another file or a longer one.
CheckpointBehindStored ==
  path # 0 => \A l \in CompleteIn(path) \ Stored : AheadOfCheckpoint(l, path)

\* readNewLines returns lines as they were written, none empty, none glued to
\* another across a truncation or a rotation, and cut at one place only: at
\* the end of a rotated file, where the writer has left its line as it is, or,
\* when it still has the rotated file open, may go on with it.
LinesWhole ==
  \A text \in Range(stored) : \E l \in 1 .. MaxLine :
     \/ text = Text(l)
     \/ /\ text = Cut(l)
        /\ \E i \in DOMAIN files \ {path} :
              /\ l \in TextIn(i)
              /\ Orderly => i # writer /\ LastByte(i) = l

\* The lines are stored in the order they were written, each once; each step
\* back is explained by a process that ended between storing lines and saving
\* the checkpoint, or by a lost checkpoint.
RepeatsOnlyAfterCrash ==
  Cardinality({k \in DOMAIN stored : k > 1 /\ stored[k][1] <= stored[k - 1][1]})
    <= unclean

\* When the reader closes a rotated file for the new one, every line of the
\* old one has been stored.
DrainedBeforeSwitch ==
  [][SwitchFile => CompleteIn(fd) \subseteq Stored]_vars

\* A completed line is stored in the end, unless a truncation erases it.
EveryLineStored ==
  \A l \in 1 .. MaxLine :
     Orderly /\ l \in Complete ~> l \in Stored \/ l \notin Complete

=============================================================================
