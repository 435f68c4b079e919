------------------------------ MODULE LogBridge ------------------------------
(***************************************************************************)
(* One client and one server of LogBridge and the connections between      *)
(* them: the composition of ClientMain and ServerMain.                     *)
(*                                                                         *)
(* Faults are drawn from a budget per kind, so that a behaviour has        *)
(* finitely many of them; the budgets are parameters.                      *)
(***************************************************************************)
EXTENDS ClientMain, ServerMain

CONSTANTS MaxClientFaults,  \* client crashes, failing writes, lost state file
          MaxServerFaults,  \* server crashes and failing writes
          MaxNetFaults,     \* broken connections
          MaxStops          \* stop signals to either program

FaultBudget == [client |-> MaxClientFaults, server |-> MaxServerFaults,
                net |-> MaxNetFaults, stop |-> MaxStops]

ASSUME BudgetAssumption == /\ MaxClientFaults \in Nat
                           /\ MaxServerFaults \in Nat
                           /\ MaxNetFaults \in Nat
                           /\ MaxStops \in Nat

VARIABLE left  \* faults that may still happen, by kind

vars == <<clientVars, walVars, stateVars, netVars, dedupVars, serverVars, left>>

TypeOK == /\ ClientTypeOK
          /\ WalTypeOK
          /\ StateTypeOK
          /\ NetTypeOK
          /\ DedupTypeOK
          /\ ServerTypeOK
          /\ left \in [client : Nat, server : Nat, net : Nat, stop : Nat]

Init == /\ ClientInit
        /\ WalInit
        /\ StateInit
        /\ NetInit
        /\ DedupInit
        /\ ServerInit
        /\ left = FaultBudget

-----------------------------------------------------------------------------
ServerIdle == UNCHANGED <<serverVars, dedupVars>>
ClientIdle == UNCHANGED <<clientVars, walVars, stateVars>>

NoFault == UNCHANGED left
UseUp(kind) == left[kind] > 0 /\ left' = [left EXCEPT ![kind] = @ - 1]

LogGrows     == WriteLine /\ ServerIdle /\ NoFault
MainStep     == Main /\ ServerIdle /\ NoFault
ProducerStep == Producer /\ ServerIdle /\ NoFault
ConsumerStep == Consumer /\ ServerIdle /\ NoFault
ServerStep   == Server /\ ClientIdle /\ NoFault

Fault == \/ ClientFault /\ ServerIdle /\ UseUp("client")
         \/ SendFails /\ ServerIdle /\ UseUp("net")
         \/ StopSignal /\ ServerIdle /\ UseUp("stop")
         \/ ServerFault /\ ClientIdle /\ UseUp("server")
         \/ ConnectionFails /\ ClientIdle /\ UseUp("net")
         \/ ServerStopSignal /\ ClientIdle /\ UseUp("stop")

Next == \/ LogGrows
        \/ MainStep
        \/ ProducerStep
        \/ ConsumerStep
        \/ ServerStep
        \/ Fault

Spec == Init /\ [][Next]_vars

\* The client's threads run when they can, and the program is started again
\* after it has ended; the server may hang or stay down.
ClientFairness == /\ WF_vars(MainStep)
                  /\ WF_vars(ProducerStep)
                  /\ WF_vars(ConsumerStep)

ClientFairSpec == Spec /\ ClientFairness

\* Moreover the server runs and is restarted, and from some time on it answers
\* a waiting client before AckTimeout expires.
FairSpec == /\ ClientFairSpec
            /\ WF_vars(ServerStep)
            /\ <>[][~ AckTimesOut]_vars

-----------------------------------------------------------------------------
(* Safety. *)

\* A line before the durable checkpoint will not be read again; it is still in
\* the WAL file or the server has printed it.
NoLineLost == 1 .. stateFile.fileOffset \subseteq
                 LinesOf(Range(walFile)) \cup LinesOf(output)

\* A message in the WAL file at or below the server's watermark for its client,
\* in memory or on disk, would be skipped when it is sent: it must have been
\* printed.
DedupNeverSwallows ==
  \A m \in Range(walFile) :
     m.id <= dedup[m.clientId] \/ m.id <= dedupFile[m.clientId] => m \in output

\* Whatever crash or failing write came before, neither constructor refuses the
\* files: the client can always be started.
RestartNeverRefused == /\ proc = "down" => WalLoadable
                       /\ proc = "loading" => StateLoadable(pending)

\* The server knows a message by (client, ID) alone: no crash, failing write or
\* lost state file makes the client give the same pair to two messages that are
\* in the WAL or printed.
IdNeverReused == \A m, n \in Range(walFile) \cup output :
                    m.clientId = n.clientId /\ m.id = n.id => m = n

\* An ACK that the client reads is the one for the batch it is waiting for, even
\* after timeouts left older batches behind on other connections.
AckMatchesBatch == cpc = "await" /\ inbox # << >> => Head(inbox) = LastId(Batch)

\* What the client is told to forget is durable at the server: the watermark on
\* its disk covers every ACK on the way and the one the client acts on.
AckedIsDurable == /\ \A a \in Range(inbox) : a <= dedupFile[state.clientId]
                  /\ cpc = "confirm" => LastId(Batch) <= dedupFile[state.clientId]

\* Skipping by watermark makes the printed log free of repeats as long as the
\* server neither crashes nor fails to persist; stop signals are harmless.
NoReprint == left.server = MaxServerFaults => reprinted = {}

\* Without a client fault a line gets one message: stopping the client cleanly
\* at any point does not make it read a line twice.
LinesPrintedOnce == left.client = MaxClientFaults =>
                       \A m, n \in output : m.line = n.line => m = n

\* A client that says it is running has both its threads at work.
RunningMeansWorking == proc = "up" /\ running =>
                          /\ ppc \notin {"off", "closing", "done"}
                          /\ cpc \notin {"off", "done"}
                          /\ ~ closed

-----------------------------------------------------------------------------
(* What the system as a whole implements. *)

Reliable == INSTANCE ReliableLog WITH
              Lines     <- Line,
              held      <- LinesOf(Range(walFile)),
              delivered <- LinesOf(output),
              upto      <- stateFile.fileOffset

\* Client and server together implement the abstract log: a line is durable in
\* the WAL before it is printed, leaves the WAL only printed or still to be
\* read, and the checkpoint passes only lines that are safe.
ImplementsReliableLog == Reliable!RSpec

-----------------------------------------------------------------------------
(* Liveness. *)

\* "At least once": every line the protocol can carry is printed once it is
\* written, whatever faults the budget allows.
AtLeastOnce == \A l \in Line \ Oversized : written >= l ~> l \in LinesOf(output)

\* A client told to stop stops, even while the server does not answer.
ShutdownCompletes == (proc = "up" /\ ~ running) ~> proc = "down"

=============================================================================
