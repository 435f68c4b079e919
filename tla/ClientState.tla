----------------------------- MODULE ClientState -----------------------------
(***************************************************************************)
(* The client's identity, its next message ID and its position in the log  *)
(* file (src/ClientState.cpp), kept in memory and in client.state, which   *)
(* is replaced as a whole by storage::writeAtomically.                     *)
(*                                                                         *)
(* The position (byte offset, device, inode) is abstracted to the number   *)
(* of lines before it.  The log path given to the program does not change. *)
(***************************************************************************)
EXTENDS LogMessage

VARIABLES state,      \* the members of the ClientState object
          stateFile,  \* client.state; clientId = NoClient when it is missing
          usedIds     \* identities generated so far: random 128-bit numbers,
                      \* taken never to collide

stateVars == <<state, stateFile, usedIds>>

ClientStateType == [clientId   : ClientIds \cup {NoClient},
                    nextId     : 1 .. MaxUint64,
                    fileOffset : 0 .. MaxLine]

\* The default member initializers.
NoState == [clientId |-> NoClient, nextId |-> 1, fileOffset |-> 0]

StateTypeOK == /\ state \in ClientStateType
               /\ stateFile \in ClientStateType
               /\ usedIds \subseteq ClientIds

StateInit == /\ state = NoState
             /\ stateFile = NoState
             /\ usedIds = {}

-----------------------------------------------------------------------------
StateExists == stateFile.clientId # NoClient

\* clientId_ of the new object: from the file, from the recovered messages, or
\* generated.
ChosenClientIds(recovered) ==
  IF StateExists THEN {stateFile.clientId}
  ELSE IF recovered # << >> THEN {recovered[1].clientId}
  ELSE ClientIds \ usedIds

\* The constructor does not throw.
StateLoadable(recovered) ==
  /\ \A m \in Range(recovered) :
        m.clientId = IF StateExists THEN stateFile.clientId
                                    ELSE recovered[1].clientId
  /\ LastId(recovered) # MaxUint64

\* Mutant of StateLoad: the next ID is raised to the last one recovered.
StateLoadAtLastId(recovered) ==
  /\ StateLoadable(recovered)
  /\ \E c \in ChosenClientIds(recovered) :
       /\ state' = [clientId   |-> c,
                    nextId     |-> IF stateFile.nextId <= LastId(recovered)
                                   THEN LastId(recovered)
                                   ELSE stateFile.nextId,
                    fileOffset |-> stateFile.fileOffset]
       /\ usedIds' = usedIds \cup {c}
  /\ stateFile' = state'

\* The constructor: the next ID is raised above every recovered message; the
\* file is written when anything changed.
StateLoad(recovered) ==
  /\ StateLoadable(recovered)
  /\ \E c \in ChosenClientIds(recovered) :
       /\ state' = [clientId   |-> c,
                    nextId     |-> IF stateFile.nextId <= LastId(recovered)
                                   THEN LastId(recovered) + 1
                                   ELSE stateFile.nextId,
                    fileOffset |-> stateFile.fileOffset]
       /\ usedIds' = usedIds \cup {c}
  /\ stateFile' = state'

\* The process ends: only the file stays.
StateForget == state' = NoState

\* persist throws: the members are rolled back; the file is the old one or
\* (directory sync failed) already the new one.
PersistFails(new) == /\ stateFile' \in {stateFile, new}
                     /\ UNCHANGED <<state, usedIds>>

Persist(new) == /\ state' = new
                /\ stateFile' = new
                /\ UNCHANGED usedIds

-----------------------------------------------------------------------------
IdsExhausted == state.nextId = MaxUint64

Allocated == [state EXCEPT !.nextId = @ + 1]

\* Mutant of NextMessageId: no check for the end of the range.
NextMessageIdUnchecked == Persist(Allocated)

\* nextMessageId: the ID it returns is the state.nextId - 1 of the new state.
NextMessageId == /\ ~ IdsExhausted
                 /\ Persist(Allocated)

NextMessageIdFails == /\ ~ IdsExhausted
                      /\ PersistFails(Allocated)

AtOffset(n) == [state EXCEPT !.fileOffset = n]

\* Mutant of UpdateFileCheckpoint: the new position stays in memory.
UpdateFileCheckpointInMemory(n) == /\ state' = AtOffset(n)
                                   /\ UNCHANGED <<stateFile, usedIds>>

UpdateFileCheckpoint(n) == IF n = state.fileOffset THEN UNCHANGED stateVars
                                                   ELSE Persist(AtOffset(n))

UpdateFileCheckpointFails(n) == /\ n # state.fileOffset
                                /\ PersistFails(AtOffset(n))

=============================================================================
