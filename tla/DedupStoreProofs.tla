-------------------------- MODULE DedupStoreProofs --------------------------
(* Proofs about DedupStoreSpec, for any set of clients and any width of ID. *)
EXTENDS DedupStoreSpec, TLAPS

\* The table, the file and the history hold watermarks: 0, or a message ID that
\* some call of confirm was given.
THEOREM DedupTypeCorrect == DSpec => []DTypeOK
<1>1. DInit => DTypeOK
  BY BoundAssumption
     DEF DInit, DedupInit, NoWatermarks, DTypeOK, DedupTypeOK
<1>2. DTypeOK /\ [DNext]_dvars => DTypeOK'
  <2> SUFFICES ASSUME DTypeOK, [DNext]_dvars PROVE DTypeOK'
    OBVIOUS
  <2> USE BoundAssumption DEF DTypeOK, DedupTypeOK, MessageId
  <2>1. ASSUME NEW c \in ClientIds, NEW id \in MessageId, Confirm(c, id)
        PROVE  DTypeOK'
    BY <2>1 DEF Confirm, DedupConfirm, dedupVars
  <2>2. ASSUME NEW c \in ClientIds, NEW id \in MessageId, ConfirmThrows(c, id)
        PROVE  DTypeOK'
    BY <2>2 DEF ConfirmThrows, DedupConfirmFails
  <2>3. CASE Restart
    BY <2>3 DEF Restart, DedupLoad
  <2>4. CASE UNCHANGED dvars
    BY <2>4 DEF dvars, dedupVars
  <2> QED
    BY <2>1, <2>2, <2>3, <2>4 DEF DNext
<1> QED
  BY <1>1, <1>2, PTL DEF DSpec

\* What an ACK promised is never forgotten: promised, memory and file stay in
\* order through every confirm, every failing write and every restart.
THEOREM PromiseKeptAlways == DSpec => []PromiseKept
<1>1. DInit => PromiseKept
  BY DEF DInit, DedupInit, NoWatermarks, PromiseKept
<1>2. DTypeOK /\ PromiseKept /\ [DNext]_dvars => PromiseKept'
  <2> SUFFICES ASSUME DTypeOK, PromiseKept, [DNext]_dvars PROVE PromiseKept'
    OBVIOUS
  <2> USE BoundAssumption DEF DTypeOK, DedupTypeOK, MessageId, PromiseKept
  <2>1. ASSUME NEW c \in ClientIds, NEW id \in MessageId, Confirm(c, id)
        PROVE  PromiseKept'
    BY <2>1 DEF Confirm, DedupConfirm, dedupVars
  <2>2. ASSUME NEW c \in ClientIds, NEW id \in MessageId, ConfirmThrows(c, id)
        PROVE  PromiseKept'
    BY <2>2 DEF ConfirmThrows, DedupConfirmFails
  <2>3. CASE Restart
    BY <2>3 DEF Restart, DedupLoad
  <2>4. CASE UNCHANGED dvars
    BY <2>4 DEF dvars, dedupVars
  <2> QED
    BY <2>1, <2>2, <2>3, <2>4 DEF DNext
<1> QED
  BY <1>1, <1>2, DedupTypeCorrect, PTL DEF DSpec

\* The reported watermark only rises: confirm raises it, a failing confirm
\* leaves it, and a restart reads a file that is never behind the memory.
THEOREM WatermarkNeverFalls == DSpec => WatermarkMonotone
<1> DEFINE Rises == \A c \in ClientIds : dedup[c] <= dedup'[c]
<1>1. DTypeOK /\ PromiseKept /\ [DNext]_dvars => [Rises]_dvars
  <2> SUFFICES ASSUME DTypeOK, PromiseKept, DNext PROVE Rises
    OBVIOUS
  <2> USE BoundAssumption DEF DTypeOK, DedupTypeOK, MessageId, PromiseKept
  <2>1. ASSUME NEW c \in ClientIds, NEW id \in MessageId, Confirm(c, id)
        PROVE  Rises
    BY <2>1 DEF Confirm, DedupConfirm, dedupVars
  <2>2. ASSUME NEW c \in ClientIds, NEW id \in MessageId, ConfirmThrows(c, id)
        PROVE  Rises
    BY <2>2 DEF ConfirmThrows, DedupConfirmFails
  <2>3. CASE Restart
    BY <2>3 DEF Restart, DedupLoad
  <2> QED
    BY <2>1, <2>2, <2>3 DEF DNext
<1> QED
  BY <1>1, DedupTypeCorrect, PromiseKeptAlways, PTL
     DEF DSpec, WatermarkMonotone

=============================================================================
