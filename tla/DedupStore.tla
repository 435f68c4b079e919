----------------------------- MODULE DedupStore -----------------------------
(***************************************************************************)
(* The server's table of the highest message ID it has confirmed to each   *)
(* client (src/DedupStore.cpp), kept in memory and in dedup.state, which   *)
(* is replaced as a whole by storage::writeAtomically.                     *)
(*                                                                         *)
(* A client that has no entry has watermark 0, as highestConfirmed says;   *)
(* confirm refuses 0, so 0 never stands for an entry.                      *)
(***************************************************************************)
EXTENDS LogMessage

VARIABLES dedup,     \* confirmed_: the table in memory
          dedupFile  \* the table in dedup.state

dedupVars == <<dedup, dedupFile>>

NoWatermarks == [c \in ClientIds |-> 0]

DedupTypeOK == /\ dedup \in [ClientIds -> 0 .. MaxUint64 - 1]
               /\ dedupFile \in [ClientIds -> 0 .. MaxUint64 - 1]

DedupInit == /\ dedup = NoWatermarks
             /\ dedupFile = NoWatermarks

\* Mutant of highestConfirmed: the last confirmed message is not covered.
highestConfirmedBut1(c) == IF dedup[c] = 0 THEN 0 ELSE dedup[c] - 1

highestConfirmed(c) == dedup[c]

\* Mutant of DedupConfirm: the table is not persisted.
DedupConfirmInMemory(c, id) ==
  /\ dedup' = IF id <= dedup[c] THEN dedup ELSE [dedup EXCEPT ![c] = id]
  /\ UNCHANGED dedupFile

\* Mutant of DedupConfirm: a lower value overwrites the watermark.
DedupConfirmAnyValue(c, id) == /\ dedupFile' = [dedup EXCEPT ![c] = id]
                               /\ dedup' = dedupFile'

\* confirm: a value at or below the watermark changes nothing; otherwise a copy
\* of the table is persisted and only then becomes the table in memory.
DedupConfirm(c, id) ==
  IF id <= dedup[c]
  THEN UNCHANGED dedupVars
  ELSE /\ dedupFile' = [dedup EXCEPT ![c] = id]
       /\ dedup' = dedupFile'

\* confirm throws out of persist.  The file keeps its contents, or has already
\* been replaced when only the sync of its directory fails; the table in
\* memory is the old one in both cases.
DedupConfirmFails(c, id) ==
  /\ id > dedup[c]
  /\ \/ UNCHANGED dedupFile
     \/ dedupFile' = [dedup EXCEPT ![c] = id]
  /\ UNCHANGED dedup

\* The constructor of a new server process: load.
DedupLoad == /\ dedup' = dedupFile
             /\ UNCHANGED dedupFile

=============================================================================
