----------------------------- MODULE Persistence -----------------------------
(***************************************************************************)
(* appendDurably and writeAtomically (src/Persistence.cpp) one system call *)
(* at a time, used as the write-ahead log uses them, on a machine that can *)
(* lose power.                                                             *)
(*                                                                         *)
(* A record is two halves, each written by one write, so it can be torn.   *)
(* The kernel shows processes one content of the file; after a power       *)
(* failure the disk may have less: a file not synced since its last write  *)
(* keeps any prefix that reaches the synced part, and a directory not      *)
(* synced since a name was created or renamed may still have the old       *)
(* entry.  This is what POSIX fsync promises; a disk that leaves garbage   *)
(* behind the end of a file, or forgets what it failed to write, is not    *)
(* considered.                                                             *)
(*                                                                         *)
(* ensureParentDirectory makes the data directory when there is none, and  *)
(* nothing ever syncs the directory above it: a power failure may take the *)
(* data directory away, with all that was synced in it.                    *)
(*                                                                         *)
(* dedup.state and client.state only use writeAtomically; for them a       *)
(* record is one version of the file.                                      *)
(***************************************************************************)
EXTENDS Integers, Sequences, FiniteSets, SequencesExt

CONSTANTS MaxRecord,  \* records appended
          MaxFaults,  \* failing calls, killed processes, power failures
          NoFile      \* the content of a file that does not exist

ASSUME PersistenceAssumption ==
  /\ MaxRecord \in Nat \ {0}
  /\ MaxFaults \in Nat
  /\ NoFile \notin Seq(1 .. MaxRecord)

VARIABLES file,     \* content at path, NoFile when there is none
          synced,   \* how much of it is on the disk
          old,      \* what else the entry on disk may still name
          tmp,      \* content at path.tmp, NoFile when there is none
          tmpSynced,
          directory,\* the data directory: "none", "new" when its own entry
                    \* has not been synced, "old"
          pc,       \* the next system call; "idle" between calls, "down"
          caller,   \* who called: "append", "confirm" or "load"
          todo,     \* halves that writeAll has still to write
          mem,      \* pending_ of the write-ahead log
          broken,   \* an append of this process has thrown
          again,    \* a confirm has thrown and is to be repeated
          next,     \* the record to append next
          promised, \* records whose append returned, not let go by a confirm
          dropped,  \* records a confirm that returned has removed
          undone,   \* records removed from memory by a confirm whose rewrite
                    \* of the file is not known to be on disk
          faults

diskVars == <<file, synced, old, tmp, tmpSynced, directory>>
callVars == <<pc, caller, todo>>
walVars  == <<mem, broken, again, next, promised, dropped, undone>>
vars     == <<diskVars, callVars, walVars, faults>>

\* The bytes of a sequence of records, the records of some bytes.
Bytes(recs) == [k \in 1 .. 2 * Len(recs) |-> recs[(k + 1) \div 2]]

Exists == file # NoFile

Content == IF Exists THEN file ELSE << >>

Records(bytes) == [k \in 1 .. Len(bytes) \div 2 |-> bytes[2 * k]]

\* The file is complete records, then at most one half.
Loadable(bytes) == \A k \in 1 .. Len(bytes) \div 2 : bytes[2 * k - 1] = bytes[2 * k]

OnDisk == {SubSeq(file, 1, n) : n \in synced .. Len(file)}

\* What the entry of the file in its directory can name on disk.
Entry == old \cup IF Exists THEN OnDisk ELSE {NoFile}

\* Everything the file can be after a power failure.
AfterPower == Entry \cup IF directory = "new" THEN {NoFile} ELSE {}

TypeOK == /\ Content \in Seq(1 .. MaxRecord)
          /\ synced \in 0 .. Len(Content)
          /\ old \subseteq Seq(1 .. MaxRecord) \cup {NoFile}
          /\ tmp \in Seq(1 .. MaxRecord) \cup {NoFile}
          /\ tmp # NoFile => tmpSynced \in 0 .. Len(tmp)
          /\ directory \in {"none", "new", "old"}
          /\ pc \in {"down", "idle", "write", "fsync", "dirsync",
                     "tmpwrite", "rename"}
          /\ caller \in {"append", "confirm", "load"}
          /\ todo \in Seq(1 .. MaxRecord)
          /\ mem \in Seq(1 .. MaxRecord)
          /\ broken \in BOOLEAN
          /\ again \in BOOLEAN
          /\ next \in 1 .. MaxRecord + 1
          /\ promised \subseteq 1 .. MaxRecord
          /\ dropped \subseteq 1 .. MaxRecord
          /\ undone \subseteq 1 .. MaxRecord
          /\ faults \in 0 .. MaxFaults

Init == /\ file = NoFile
        /\ synced = 0
        /\ old = {}
        /\ tmp = NoFile
        /\ tmpSynced = 0
        /\ directory \in {"none", "old"}
        /\ pc = "down"
        /\ caller = "load"
        /\ todo = << >>
        /\ mem = << >>
        /\ broken = FALSE
        /\ again = FALSE
        /\ next = 1
        /\ promised = {}
        /\ dropped = {}
        /\ undone = {}
        /\ faults = 0

-----------------------------------------------------------------------------
(* The callers. *)

\* ensureParentDirectory.
EnsureDirectory == directory' = IF directory = "none" THEN "new" ELSE directory

\* appendDurably opens the file, creating it.
AppendOpen == /\ pc = "idle"
              /\ ~ broken
              /\ next <= MaxRecord
              /\ EnsureDirectory
              /\ file' = Content
              /\ synced' = IF Exists THEN synced ELSE 0
              /\ old' = IF Exists THEN old ELSE old \cup {NoFile}
              /\ pc' = "write"
              /\ caller' = "append"
              /\ todo' = <<next, next>>
              /\ next' = next + 1
              /\ UNCHANGED <<tmp, tmpSynced, mem, broken, again, promised,
                             dropped, undone, faults>>

\* writeAtomically opens the temporary file, emptying it.
OpenTmp(recs) == /\ EnsureDirectory
                 /\ tmp' = << >>
                 /\ tmpSynced' = 0
                 /\ pc' = "tmpwrite"
                 /\ todo' = Bytes(recs)
                 /\ UNCHANGED <<file, synced, old, next, dropped, faults>>

\* confirm finds messages to remove: it takes them out of memory and rewrites
\* the file.
ConfirmOpen == /\ pc = "idle"
               /\ ~ again
               /\ mem # << >>
               /\ \E k \in 1 .. Len(mem) : mem' = SubSeq(mem, k + 1, Len(mem))
               /\ OpenTmp(mem')
               /\ caller' = "confirm"
               /\ promised' = promised \cap Range(mem')
               /\ undone' = undone \cup (Range(mem) \ Range(mem'))
               /\ UNCHANGED <<broken, again>>

\* deliverWithRetry repeats the batch whose confirm has thrown: its messages
\* are no longer in memory, and confirm returns without a rewrite.
ConfirmAgain == /\ pc = "idle"
                /\ again
                /\ again' = FALSE
                /\ dropped' = dropped \cup (undone \ Range(mem))
                /\ UNCHANGED <<diskVars, callVars, mem, broken, next, promised,
                               undone, faults>>

\* Mutant of Load: the half record at the end is left in the file.
LoadKeepsTail == /\ pc = "down"
                 /\ Loadable(Content)
                 /\ mem' = Records(Content)
                 /\ broken' = FALSE
                 /\ again' = FALSE
                 /\ caller' = "load"
                 /\ pc' = "idle"
                 /\ UNCHANGED <<diskVars, todo, next, promised, dropped, undone,
                                faults>>

\* A process starts: load reads the file, and rewrites it when the last
\* record is torn.
Load == /\ pc = "down"
        /\ Loadable(Content)
        /\ mem' = Records(Content)
        /\ broken' = FALSE
        /\ again' = FALSE
        /\ caller' = "load"
        /\ IF Len(Content) % 2 = 1
           THEN OpenTmp(mem')
           ELSE /\ pc' = "idle"
                /\ UNCHANGED <<diskVars, todo, next, dropped, faults>>
        /\ UNCHANGED <<promised, undone>>

\* The process stops between two calls.
Stop == /\ pc = "idle"
        /\ pc' = "down"
        /\ mem' = << >>
        /\ UNCHANGED <<diskVars, caller, todo, broken, again, next, promised,
                       dropped, undone, faults>>

\* The call returns to its caller.
Return == /\ pc' = "idle"
          /\ todo' = << >>
          /\ mem' = IF caller = "append" THEN Append(mem, next - 1) ELSE mem
          /\ promised' = IF caller = "append" THEN promised \cup {next - 1}
                                              ELSE promised
          /\ IF caller = "confirm"
             THEN /\ dropped' = dropped \cup ((1 .. next - 1) \ Range(mem))
                  /\ undone' = undone \cap Range(mem)
             ELSE UNCHANGED <<dropped, undone>>
          /\ UNCHANGED <<caller, broken, again, next>>

\* It throws: an append stops the producer for good, a confirm is tried again
\* later, a load ends the process.
Throw == /\ pc' = IF caller = "load" THEN "down" ELSE "idle"
         /\ todo' = << >>
         /\ broken' = (broken \/ caller = "append")
         /\ again' = (again \/ caller = "confirm")
         /\ mem' = IF caller = "load" THEN << >> ELSE mem
         /\ UNCHANGED <<caller, next, promised, dropped, undone>>

-----------------------------------------------------------------------------
(* The system calls. *)

Write == /\ pc = "write"
         /\ file' = Append(file, Head(todo))
         /\ todo' = Tail(todo)
         /\ pc' = IF Len(todo) = 1 THEN "fsync" ELSE "write"
         /\ UNCHANGED <<synced, old, tmp, tmpSynced, directory, caller, walVars,
                        faults>>

\* Mutant of Fsync: appendDurably leaves the directory alone.
FsyncOnly == /\ pc = "fsync"
             /\ synced' = Len(file)
             /\ Return
             /\ UNCHANGED <<file, old, tmp, tmpSynced, directory, faults>>

Fsync == /\ pc = "fsync"
         /\ synced' = Len(file)
         /\ pc' = "dirsync"
         /\ UNCHANGED <<file, old, tmp, tmpSynced, directory, caller, todo, walVars,
                        faults>>

TmpWrite == /\ pc = "tmpwrite"
            /\ todo # << >>
            /\ tmp' = Append(tmp, Head(todo))
            /\ todo' = Tail(todo)
            /\ UNCHANGED <<file, synced, old, tmpSynced, directory, pc, caller,
                           walVars, faults>>

TmpSync == /\ pc = "tmpwrite"
           /\ todo = << >>
           /\ tmpSynced' = Len(tmp)
           /\ pc' = "rename"
           /\ UNCHANGED <<file, synced, old, tmp, directory, caller, todo, walVars,
                          faults>>

\* Mutant of Rename: writeAtomically leaves the directory alone.
RenameOnly == /\ pc = "rename"
              /\ old' = Entry
              /\ file' = tmp
              /\ synced' = tmpSynced
              /\ tmp' = NoFile
              /\ Return
              /\ UNCHANGED <<tmpSynced, directory, faults>>

\* The renamed file takes the place of the old one, on disk only perhaps.
Rename == /\ pc = "rename"
          /\ old' = Entry
          /\ file' = tmp
          /\ synced' = tmpSynced
          /\ tmp' = NoFile
          /\ pc' = "dirsync"
          /\ UNCHANGED <<tmpSynced, directory, caller, todo, walVars, faults>>

\* syncParentDirectory: the name and the file it has now are on disk.
DirSync == /\ pc = "dirsync"
           /\ old' = {}
           /\ Return
           /\ UNCHANGED <<file, synced, tmp, tmpSynced, directory, faults>>

Call == Write \/ Fsync \/ TmpWrite \/ TmpSync \/ Rename \/ DirSync

-----------------------------------------------------------------------------
(* Faults. *)

Fault == faults < MaxFaults /\ faults' = faults + 1

\* Any of the calls fails; writeAtomically removes its temporary file.
CallFails == /\ pc \notin {"down", "idle"}
             /\ tmp' = IF pc \in {"tmpwrite", "rename"} THEN NoFile ELSE tmp
             /\ Throw
             /\ Fault
             /\ UNCHANGED <<file, synced, old, tmpSynced, directory>>

\* The process ends; the kernel keeps what it has seen.
Kill == /\ pc # "down"
        /\ pc' = "down"
        /\ todo' = << >>
        /\ mem' = << >>
        /\ Fault
        /\ UNCHANGED <<diskVars, caller, broken, again, next, promised, dropped,
                       undone>>

\* The machine loses power and comes back with what its disk has: the data
\* directory with one of the contents its entry may name, or no directory.
PowerFailure == /\ \/ /\ \E bytes \in Entry :
                           /\ file' = bytes
                           /\ synced' = IF bytes = NoFile THEN 0 ELSE Len(bytes)
                      /\ tmp' \in {NoFile, tmp}
                      /\ directory' = IF directory = "new" THEN "old" ELSE directory
                      /\ UNCHANGED promised
                   \/ /\ directory = "new"
                      /\ file' = NoFile
                      /\ synced' = 0
                      /\ tmp' = NoFile
                      /\ directory' = "none"
                      /\ promised' = {}
                /\ old' = {}
                /\ tmpSynced' = 0
                /\ pc' = "down"
                /\ todo' = << >>
                /\ mem' = << >>
                /\ Fault
                /\ UNCHANGED <<caller, broken, again, next, dropped, undone>>

Next == \/ AppendOpen \/ ConfirmOpen \/ ConfirmAgain \/ Load \/ Stop
        \/ Call
        \/ CallFails \/ Kill \/ PowerFailure

Spec == Init /\ [][Next]_vars

-----------------------------------------------------------------------------
(* Properties. *)

Survivors(bytes) == IF bytes = NoFile THEN {} ELSE Range(Records(bytes))

\* A record whose append returned is in the file, and in every content the
\* disk may come back with, until it is confirmed: also when the file has
\* been created or renamed by a process that was killed before it could sync
\* the directory.  The one exception is a data directory that this program
\* has created: it may be gone as a whole, for its own entry is never synced.
PromisedSurvives ==
  \A bytes \in AfterPower \cup {file} :
     \/ promised \subseteq Survivors(bytes)
     \/ bytes = NoFile /\ directory = "new"

\* A record that a confirm has removed, and returned, comes back only when
\* the rewrite of the confirm that took it out of memory had failed, so that
\* the confirm that returned was the repeated one, which writes nothing.
DroppedStaysDropped ==
  \A bytes \in AfterPower \cup {file} : (dropped \ undone) \cap Survivors(bytes) = {}

\* Whatever failed, and wherever the power went, the next load finds complete
\* records in the order they were appended, and at most a half one behind
\* them.
AlwaysLoadable ==
  \A bytes \in (AfterPower \cup {file}) \ {NoFile} :
     /\ Loadable(bytes)
     /\ \A i, j \in DOMAIN Records(bytes) :
           i < j => Records(bytes)[i] < Records(bytes)[j]

=============================================================================
