--------------------------- MODULE FileTailReader ---------------------------
(***************************************************************************)
(* The reader that follows a log file (src/FileTailReader.cpp), over the   *)
(* files it may find at its path.                                          *)
(*                                                                         *)
(* A file is an inode and its bytes.  The text of a line is two bytes, the *)
(* number of the line and its negative, and a newline is a byte too: a     *)
(* text can be half written and half read, and be whole with its newline   *)
(* missing.  One call of readNewLines is three system calls that other     *)
(* programs can come between: stat of the path, fstat of the open file,    *)
(* pread.                                                                  *)
(***************************************************************************)
EXTENDS Integers, Sequences, SequencesExt

VARIABLES files,        \* the bytes of inode 1, 2, ...
          path,         \* the inode at path_; 0 when there is none
          fd,           \* the inode that fileFd_ has open (inode_)
          offset,       \* offset_
          pending,      \* pending_
          switchOnNext, \* switchOnNextRead_
          replaced,     \* what the stat of this round found
          size,         \* what the fstat of this round found
          lines         \* lines this round returned, not yet in the WAL

fileVars   == <<files, path>>
readerVars == <<fd, offset, pending, switchOnNext, replaced, size, lines>>

Newline == 0

ReaderInit == /\ fd = 0
              /\ offset = 0
              /\ pending = << >>
              /\ switchOnNext = FALSE
              /\ replaced = FALSE
              /\ size = 0
              /\ lines = << >>

-----------------------------------------------------------------------------
(* Splitting bytes at the newlines. *)

Newlines(bytes) == {k \in DOMAIN bytes : bytes[k] = Newline}

\* The positions of the first newline, the second, and so on.
LineEnds(bytes) ==
  [n \in 1 .. Cardinality(Newlines(bytes)) |->
     CHOOSE k \in Newlines(bytes) :
        Cardinality({j \in Newlines(bytes) : j <= k}) = n]

LineStart(bytes, n) == IF n = 1 THEN 1 ELSE LineEnds(bytes)[n - 1] + 1

CompleteLines(bytes) ==
  [n \in DOMAIN LineEnds(bytes) |->
     SubSeq(bytes, LineStart(bytes, n), LineEnds(bytes)[n] - 1)]

Unfinished(bytes) ==
  SubSeq(bytes, LineStart(bytes, Len(LineEnds(bytes)) + 1), Len(bytes))

-----------------------------------------------------------------------------
\* Where openCurrentFile starts in the file now at the path: at the offset
\* asked for, unless that is another file's or beyond the end.
StartOffset(initialOffset, expectedInode) ==
  IF /\ expectedInode \in {0, path}
     /\ initialOffset <= Len(files[path])
  THEN initialOffset ELSE 0

OpenCurrentFile(initialOffset, expectedInode) ==
  /\ path # 0
  /\ fd' = path
  /\ offset' = StartOffset(initialOffset, expectedInode)
  /\ pending' = << >>

CommittedOffset == offset - Len(pending)

\* readNewLines after a rotation was seen: close the old file, open the new.
SwitchFile == /\ switchOnNext
              /\ OpenCurrentFile(0, 0)
              /\ switchOnNext' = FALSE
              /\ replaced' = FALSE
              /\ UNCHANGED <<size, lines, fileVars>>

\* Mutant of StatPath: a new file at the path is opened at once.
StatPathAndSwitch == /\ ~ switchOnNext
                     /\ replaced' = FALSE
                     /\ IF path \notin {0, fd}
                        THEN OpenCurrentFile(0, 0)
                        ELSE UNCHANGED <<fd, offset, pending>>
                     /\ UNCHANGED <<switchOnNext, size, lines, fileVars>>

\* Mutant of StatPath: the identity of the file at the path is not looked at.
StatPathBlind == /\ ~ switchOnNext
                 /\ replaced' = FALSE
                 /\ UNCHANGED <<fd, offset, pending, switchOnNext, size, lines>>
                 /\ UNCHANGED fileVars

\* readNewLines otherwise: does the path still name the open file?  A path
\* that names nothing (ENOENT) does not count as replaced.
StatPath == /\ ~ switchOnNext
            /\ replaced' = (path \notin {0, fd})
            /\ UNCHANGED <<fd, offset, pending, switchOnNext, size, lines, fileVars>>

\* The beginning of readFromOpenFile: a file that has shrunk is read again
\* from its start.
Fstat == /\ size' = Len(files[fd])
         /\ IF Len(files[fd]) < offset
            THEN offset' = 0 /\ pending' = << >>
            ELSE UNCHANGED <<offset, pending>>
         /\ UNCHANGED <<fd, switchOnNext, replaced, lines, fileVars>>

\* The bytes pread delivers: up to the size seen, or the end if that is nearer.
Chunk == SubSeq(files[fd], offset + 1, Min({size, Len(files[fd])}))

\* Mutant of Pread: an unfinished line is returned in every round.
PreadFlushes ==
  LET bytes == pending \o Chunk
      flush == Unfinished(bytes) # << >>
  IN /\ offset' = offset + Len(Chunk)
     /\ lines' = CompleteLines(bytes)
                   \o IF flush THEN <<Unfinished(bytes)>> ELSE << >>
     /\ pending' = << >>
     /\ switchOnNext' = replaced
     /\ replaced' = FALSE
     /\ size' = 0
     /\ UNCHANGED <<fd, fileVars>>

\* The rest of readFromOpenFile and, when the path names another file, the
\* end of the round: the unfinished line is returned as it is, the switch
\* left to the next round.
Pread ==
  LET bytes == pending \o Chunk
      flush == replaced /\ Unfinished(bytes) # << >>
  IN /\ offset' = offset + Len(Chunk)
     /\ lines' = CompleteLines(bytes)
                   \o IF flush THEN <<Unfinished(bytes)>> ELSE << >>
     /\ pending' = IF flush THEN << >> ELSE Unfinished(bytes)
     /\ switchOnNext' = replaced
     /\ replaced' = FALSE
     /\ size' = 0
     /\ UNCHANGED <<fd, fileVars>>

=============================================================================
