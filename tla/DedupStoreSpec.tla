--------------------------- MODULE DedupStoreSpec ---------------------------
(***************************************************************************)
(* DedupStore on its own, for any number of clients: confirm is called     *)
(* with any ID, may fail, and the server may be killed and started again   *)
(* at any time.  promised is the history the clients remember: the highest *)
(* watermark that confirm has returned for each of them.                   *)
(***************************************************************************)
EXTENDS DedupStore

VARIABLE promised

dvars == <<dedupVars, promised>>

DTypeOK == DedupTypeOK /\ promised \in [ClientIds -> 0 .. MaxUint64 - 1]

DInit == DedupInit /\ promised = NoWatermarks

\* The call returns the watermark it leaves.
Confirm(c, id) == /\ DedupConfirm(c, id)
                  /\ promised' = [promised EXCEPT ![c] = dedup'[c]]

ConfirmThrows(c, id) == DedupConfirmFails(c, id) /\ UNCHANGED promised

Restart == DedupLoad /\ UNCHANGED promised

DNext == \/ \E c \in ClientIds, id \in MessageId : \/ Confirm(c, id)
                                                   \/ ConfirmThrows(c, id)
         \/ Restart

DSpec == DInit /\ [][DNext]_dvars

-----------------------------------------------------------------------------
\* A watermark that was returned to a client survives failing writes, the
\* confirms of other clients and restarts: neither the table in memory nor the
\* file ever falls below it, and the file never falls below the memory.
PromiseKept == \A c \in ClientIds : /\ promised[c] <= dedup[c]
                                    /\ dedup[c] <= dedupFile[c]

\* The watermark that highestConfirmed reports never moves backward, across
\* restarts too.
WatermarkMonotone == [][\A c \in ClientIds : dedup[c] <= dedup'[c]]_dvars

=============================================================================
