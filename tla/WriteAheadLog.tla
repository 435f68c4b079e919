--------------------------- MODULE WriteAheadLog ---------------------------
(***************************************************************************)
(* The client's log of messages not yet acknowledged                       *)
(* (src/WriteAheadLog.cpp): a vector in memory and the file pending.wal.   *)
(* The file grows by appendDurably and is replaced as a whole by           *)
(* rewriteLocked.  It is abstracted to its complete records and what       *)
(* follows the last of them.  Every operation holds mutex_ throughout and  *)
(* is therefore one step.                                                  *)
(***************************************************************************)
EXTENDS LogMessage

VARIABLES pending,  \* pending_: the messages in memory
          walFile,  \* the complete records of pending.wal, in file order
          walTail   \* what follows them: "clean" nothing, "torn" part of a
                    \* record, "corrupt" records written behind a torn one

walVars == <<pending, walFile, walTail>>

WalTypeOK == /\ pending \in Seq(Message)
             /\ walFile \in Seq(Message)
             /\ walTail \in {"clean", "torn", "corrupt"}

WalInit == /\ pending = << >>
           /\ walFile = << >>
           /\ walTail = "clean"

-----------------------------------------------------------------------------
\* The number of leading messages of s whose ID does not exceed confirmedId.
Confirmed(s, confirmedId) ==
  CHOOSE n \in 0 .. Len(s) :
     /\ \A i \in 1 .. n : s[i].id <= confirmedId
     /\ n < Len(s) => s[n + 1].id > confirmedId

\* What remove_if keeps.  IDs increase along s (a part of LogBridgeInv!Inv), so it
\* is a suffix; LogBridgeTypeProofs!UnconfirmedFacts proves that nothing else is kept.
Unconfirmed(s, confirmedId) == SubSeq(s, Confirmed(s, confirmedId) + 1, Len(s))

\* append: the record reaches the disk before the message is pending.
WalAppend(m) == /\ walFile' = Append(walFile, m)
                /\ walTail' = IF walTail = "clean" THEN "clean" ELSE "corrupt"
                /\ pending' = Append(pending, m)

\* The file after appendDurably was cut short by an error or a crash: nothing
\* of the record, a part of it, or all of it (only the sync failed).
WalTornAppend(m) == \/ UNCHANGED <<walFile, walTail>>
                    \/ UNCHANGED walFile /\ walTail' = "torn"
                    \/ walFile' = Append(walFile, m) /\ UNCHANGED walTail

\* append throws out of appendDurably: pending_ is not reached.
WalAppendFails(m) == /\ WalTornAppend(m)
                     /\ UNCHANGED pending

\* Mutant of WalConfirm: an ACK empties the log.
WalConfirmAll(confirmedId) == /\ pending' = << >>
                              /\ walFile' = << >>
                              /\ walTail' = "clean"

\* confirm: drop the confirmed messages from memory, then rewrite the file; do
\* neither when there is nothing to drop.
WalConfirm(confirmedId) ==
  LET kept == Unconfirmed(pending, confirmedId) IN
  IF kept = pending
  THEN UNCHANGED walVars
  ELSE /\ pending' = kept
       /\ walFile' = kept
       /\ walTail' = "clean"

\* confirm throws out of rewriteLocked: the messages have left the memory, the
\* file is the old one or (directory sync failed) already the new one.
WalConfirmFails(confirmedId) ==
  LET kept == Unconfirmed(pending, confirmedId) IN
  /\ kept # pending
  /\ pending' = kept
  /\ \/ UNCHANGED <<walFile, walTail>>
     \/ walFile' = kept /\ walTail' = "clean"

\* load accepts the file: every record parses, IDs increase, one client.
WalLoadable == /\ walTail # "corrupt"
               /\ Increasing(walFile)
               /\ \A m \in Range(walFile) : m.clientId = walFile[1].clientId

\* Mutant of WalLoad: a torn tail is ignored and left in the file.
WalLoadKeepsTail == /\ WalLoadable
                    /\ pending' = walFile
                    /\ UNCHANGED <<walFile, walTail>>

\* The constructor: load, which rewrites the file when its tail is torn.
WalLoad == /\ WalLoadable
           /\ pending' = walFile
           /\ walTail' = "clean"
           /\ UNCHANGED walFile

\* The process ends: only the file stays.
WalForget == pending' = << >>

=============================================================================
