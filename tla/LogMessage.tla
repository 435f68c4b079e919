----------------------------- MODULE LogMessage -----------------------------
(***************************************************************************)
(* The message that travels from a log file to the server                  *)
(* (include/LogMessage.h).  Of its five fields the model keeps the two the *)
(* protocol acts on, id and clientId; timestamp, source and content are    *)
(* abstracted to the position of the line in the log file, which is what   *)
(* "the same log line" means to the properties.                            *)
(***************************************************************************)
EXTENDS Integers, Sequences, Functions

CONSTANTS ClientIds,  \* client identities that generateClientId can draw
          NoClient,   \* the empty clientId_ of a ClientState not yet loaded
          MaxUint64,  \* the largest std::uint64_t: a message ID never reaches it
          MaxLine     \* bound: number of lines ever written to the log file

ASSUME ClientAssumption == NoClient \notin ClientIds

ASSUME BoundAssumption == /\ MaxUint64 \in Nat \ {0, 1}
                          /\ MaxLine \in Nat

Line == 1 .. MaxLine

MessageId == 1 .. MaxUint64 - 1

Message == [id : MessageId, clientId : ClientIds, line : Line]

-----------------------------------------------------------------------------
(* Messages only ever travel in runs of increasing IDs. *)

LastId(s) == IF s = << >> THEN 0 ELSE s[Len(s)].id

Increasing(s) == \A i, j \in 1 .. Len(s) : i < j => s[i].id < s[j].id

LinesOf(S) == {m.line : m \in S}

Smaller(a, b) == IF a < b THEN a ELSE b

=============================================================================
