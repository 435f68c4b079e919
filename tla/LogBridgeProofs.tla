-------------------------- MODULE LogBridgeProofs --------------------------
(***************************************************************************)
(* Safety of LogBridge, for every value of its constants, in layers: what  *)
(* can be on a connection (ConnInv), in which order and under which        *)
(* identity message IDs exist (OrderInv), and on these the log, the store  *)
(* and the acknowledgements.                                               *)
(***************************************************************************)
EXTENDS LogBridgeTypeProofs

-----------------------------------------------------------------------------
(* Connections. *)

\* The fields of the connections after one of them was changed.
LEMMA ConnsFields ==
  ASSUME NEW s \in Seq(Connection), NEW i, NEW v, NEW j \in 1 .. Len(s)
  PROVE  /\ [s EXCEPT ![i].open = v][j].frame = s[j].frame
         /\ [s EXCEPT ![i].open = v][j].open = IF j = i THEN v ELSE s[j].open
         /\ [s EXCEPT ![i].frame = v][j].open = s[j].open
         /\ [s EXCEPT ![i].frame = v][j].frame = IF j = i THEN v ELSE s[j].frame
<1>1. j \in DOMAIN s /\ s[j] \in Connection
  BY LenProperties, ElementOfSeq
<1> QED
  BY <1>1 DEF Connection

\* The client gives its connection up: none is open any more.
LEMMA ClosedByClient ==
  ASSUME NetTypeOK, NetShape, ClientClose
  PROVE  /\ Len(conns') = Len(conns)
         /\ \A i \in 1 .. Len(conns) : ~ conns'[i].open /\ conns'[i].frame = conns[i].frame
         /\ inbox' = << >>
<1>1. Len(conns') = Len(conns) /\ inbox' = << >>
  BY ClientCloseType DEF ClientClose
<1>2. ASSUME NEW i \in 1 .. Len(conns)
      PROVE  ~ conns'[i].open /\ conns'[i].frame = conns[i].frame
  <2>1. CASE sock = "open"
    <3>1. PICK b \in BOOLEAN : ~ b /\ conns' = [conns EXCEPT ![Len(conns)].open = b]
      BY <2>1 DEF ClientClose
    <3>2. /\ conns'[i].frame = conns[i].frame
          /\ conns'[i].open = IF i = Len(conns) THEN b ELSE conns[i].open
      BY <3>1, ConnsFields DEF NetTypeOK
    <3>3. CASE i = Len(conns)
      <4>1. conns'[i].open = b
        BY <3>2, <3>3
      <4> QED
        BY <3>1, <3>2, <4>1
    <3>4. CASE i # Len(conns)
      <4>1. ~ conns[i].open
        BY <3>4 DEF NetShape
      <4>2. conns'[i].open = conns[i].open
        BY <3>2, <3>4
      <4> QED
        BY <3>2, <4>1, <4>2
    <3> QED
      BY <3>3, <3>4
  <2>2. CASE sock # "open"
    BY <2>2 DEF ClientClose, NetShape
  <2> QED
    BY <2>1, <2>2
<1> QED
  BY <1>1, <1>2

\* While the client does not wait for an ACK, nothing is on the open connection.
LEMMA NothingUnderWay ==
  ASSUME ConnInv, cpc # "await"
  PROVE  /\ \A i \in 1 .. Len(conns) : conns[i].open => conns[i].frame = << >>
         /\ ~ Answering
         /\ inbox = << >>
BY DEF ConnInv, Exchange

\* A step of the client that leaves the network alone.
LEMMA ConnQuiet ==
  ASSUME ConnInv, ServerIdle, UNCHANGED netVars,
         cpc # "await" \/ UNCHANGED <<cpc, sending>>
  PROVE  ConnInv'
<1>1. UNCHANGED <<spc, stopping, rx, conns, sock, inbox>>
  BY DEF ServerIdle, serverVars, netVars
<1>2. NetShape'
  BY <1>1 DEF ConnInv, NetShape
<1>3. Answering' = Answering
  BY <1>1 DEF Answering, Serving
<1>4. CASE UNCHANGED <<cpc, sending>>
  <2>1. Batch' = Batch
    BY <1>4 DEF Batch
  <2>2. Exchange'
    BY <1>1, <1>3, <1>4, <2>1 DEF ConnInv, Exchange
  <2> QED
    BY <1>2, <2>2 DEF ConnInv
<1>5. CASE cpc # "await"
  <2>1. Exchange'
    BY <1>1, <1>3, <1>5, NothingUnderWay DEF Exchange
  <2> QED
    BY <1>2, <2>1 DEF ConnInv
<1> QED
  BY <1>4, <1>5

\* A step in which the client gives its connection up, whatever else it does.
LEMMA ConnClosed ==
  ASSUME TypeInv, ConnInv, ServerIdle, ClientClose
  PROVE  ConnInv'
<1>1. UNCHANGED <<spc, stopping, rx>> /\ NetTypeOK
  BY DEF ServerIdle, serverVars, TypeInv, TypeOK
<1>2. /\ Len(conns') = Len(conns)
      /\ \A i \in 1 .. Len(conns) : ~ conns'[i].open
      /\ inbox' = << >>
  BY <1>1, ClosedByClient DEF ConnInv
<1>3. ~ Answering'
  <2> SUFFICES ASSUME Answering' PROVE FALSE
    OBVIOUS
  <2>1. Serving
    BY <1>1 DEF Answering, Serving
  <2>2. 1 \in 1 .. Len(conns)
    BY <1>1, <2>1, EmptyIffLen, LenProperties DEF TypeInv, ServerShape, NetTypeOK
  <2> QED
    BY <1>2, <2>2 DEF Answering
<1> QED
  BY <1>2, <1>3 DEF ConnInv, NetShape, Exchange

\* The client's steps, by what they do to the network.
LEMMA ClientNetSteps ==
  ASSUME TypeInv,
         \/ WriteLine \/ Main \/ StopSignal \/ Crash \/ LoseState
         \/ Producer \/ ProducerFault
         \/ Consumer \/ SendFails \/ ConfirmFails
  PROVE  \/ UNCHANGED netVars /\ (cpc # "await" \/ UNCHANGED <<cpc, sending>>)
         \/ ClientClose
         \/ Connect
         \/ SendBatch
         \/ ReceiveAck /\ Head(inbox) = LastId(Batch)
<1>1. CASE WriteLine \/ Main \/ StopSignal \/ Crash \/ LoseState
  <2>1. CASE WriteLine \/ StartWal \/ StopSignal \/ MainClose \/ LoseState
    BY <2>1 DEF WriteLine, StartWal, StopSignal, MainClose, LoseState, clientVars,
                consumerVars
  <2>2. CASE StartState
    BY <2>2 DEF StartState, TypeInv, ClientShape
  <2>3. CASE Exit \/ Crash
    BY <2>3 DEF Exit, Crash, ClientGone
  <2> QED
    BY <1>1, <2>1, <2>2, <2>3 DEF Main
<1>2. CASE Producer \/ ProducerFault
  <2>1. ProducerUnchanged
    BY <1>2 DEF Producer, ProducerFault, ReadNewLines, ProducerLeavesLoop, AllocId,
                AllocExhausted, AppendMessage, AppendOversized, Checkpoint,
                PushMessage, PushRefused, ProducerClose, ReadFails, AllocFails,
                AppendFails, CheckpointFails, ProducerThrows
  <2> QED
    BY <2>1 DEF ProducerUnchanged, consumerVars
<1>3. CASE LoopAgain \/ PopBatch \/ BatchDeadline \/ ConfirmBatch \/ RetryDelivery
  BY <1>3 DEF LoopAgain, PopBatch, TakeFromQueue, BatchDeadline, ConfirmBatch,
              RetryDelivery
<1>4. CASE ConsumerLeavesLoop \/ PopClosed \/ AbandonDelivery
  BY <1>4 DEF ConsumerLeavesLoop, PopClosed, AbandonDelivery, ConsumerEnds
<1>5. CASE \/ ConnectFails \/ SendToClosed \/ SendFails \/ ServerClosed
           \/ AckTimesOut \/ ConfirmFails
  BY <1>5 DEF ConnectFails, SendToClosed, SendFails, ServerClosed, AckTimesOut,
              ConfirmFails, DeliveryThrows
<1>6. CASE ReceiveAck
  BY <1>6 DEF ReceiveAck, DeliveryThrows
<1> QED
  BY <1>1, <1>2, <1>3, <1>4, <1>5, <1>6 DEF Consumer

\* A new connection carries nothing yet.
LEMMA ConnOpens ==
  ASSUME TypeInv, ConnInv, ServerIdle, Connect
  PROVE  ConnInv'
<1>1. /\ UNCHANGED <<spc, stopping, rx>>
      /\ cpc # "await" /\ sock = "none" /\ sock' = "open" /\ inbox' = << >>
      /\ conns \in Seq(Connection)
      /\ conns' = Append(conns, [frame |-> << >>, open |-> TRUE])
  BY DEF ServerIdle, serverVars, Connect, ClientConnect, TypeInv, TypeOK, NetTypeOK
<1>2. [frame |-> << >>, open |-> TRUE] \in Connection
  BY EmptySeq DEF Connection
<1>3. /\ Len(conns) \in Nat
      /\ Len(conns') = Len(conns) + 1
      /\ \A i \in 1 .. Len(conns) : conns'[i] = conns[i]
      /\ conns'[Len(conns) + 1] = [frame |-> << >>, open |-> TRUE]
  BY <1>1, <1>2, AppendProperties, LenProperties
<1>4. \A i \in 1 .. Len(conns) : ~ conns'[i].open
  BY <1>1, <1>3 DEF ConnInv, NetShape
<1>5. \A i \in 1 .. Len(conns') : i \in 1 .. Len(conns) \/ i = Len(conns')
  BY <1>3
<1>6. NetShape'
  BY <1>1, <1>4, <1>5 DEF NetShape
<1>7. \A i \in 1 .. Len(conns') : conns'[i].open => conns'[i].frame = << >>
  BY <1>3, <1>4, <1>5
<1>8. ~ Answering'
  <2> SUFFICES ASSUME Answering' PROVE FALSE
    OBVIOUS
  <2>1. Serving
    BY <1>1 DEF Answering, Serving
  <2>2. 1 \in 1 .. Len(conns)
    BY <1>1, <1>3, <2>1, EmptyIffLen DEF TypeInv, ServerShape
  <2> QED
    BY <1>4, <2>2 DEF Answering
<1> QED
  BY <1>1, <1>6, <1>7, <1>8 DEF ConnInv, Exchange

\* The batch enters an open connection on which nothing is under way.
LEMMA ConnSends ==
  ASSUME TypeInv, ConnInv, ServerIdle, SendBatch
  PROVE  ConnInv'
<1>1. /\ UNCHANGED <<spc, stopping, rx, sock, inbox, sending>>
      /\ cpc # "await" /\ cpc' = "await"
      /\ conns \in Seq(Connection)
      /\ conns' = IF sock = "open" THEN [conns EXCEPT ![Len(conns)].frame = Batch]
                                   ELSE conns
  BY DEF ServerIdle, serverVars, SendBatch, AtSend, ClientSend, TypeInv, TypeOK, NetTypeOK
<1>2. sending # << >> /\ sending \in Seq(Message)
  BY DEF SendBatch, AtSend, TypeInv, TypeOK, ClientTypeOK, ClientShape
<1>3. Batch \in Seq(Message) /\ Batch' = Batch
  BY <1>1, <1>2, BatchFacts DEF Batch
<1>4. Len(conns') = Len(conns) /\ Len(conns) \in Nat
  BY <1>1, <1>3, ConnsUpdate, LenProperties
<1>5. \A i \in 1 .. Len(conns) :
        /\ conns'[i].open = conns[i].open
        /\ conns'[i].frame \in {conns[i].frame, Batch}
  <2>1. CASE sock = "open"
    BY <1>1, <2>1, ConnsFields
  <2>2. CASE sock # "open"
    BY <1>1, <2>2
  <2> QED
    BY <2>1, <2>2
<1>6. NetShape'
  BY <1>1, <1>4, <1>5 DEF ConnInv, NetShape
<1>7. ~ Answering'
  <2> SUFFICES ASSUME Answering' PROVE FALSE
    OBVIOUS
  <2>1. Serving /\ rx # << >>
    BY <1>1 DEF Answering, Serving
  <2>2. 1 \in 1 .. Len(conns)
    BY <1>1, <1>4, <2>1, EmptyIffLen DEF TypeInv, ServerShape
  <2>3. Answering
    BY <1>5, <2>1, <2>2 DEF Answering
  <2> QED
    BY <1>1, <2>3, NothingUnderWay
<1>8. inbox' = << >>
  BY <1>1, NothingUnderWay
<1>9. \A i \in 1 .. Len(conns') :
        conns'[i].open /\ conns'[i].frame # << >> => conns'[i].frame = Batch'
  BY <1>1, <1>3, <1>4, <1>5, NothingUnderWay
<1> QED
  BY <1>1, <1>6, <1>7, <1>8, <1>9 DEF ConnInv, Exchange

\* Its ACK leaves the connection empty.
LEMMA ConnAcked ==
  ASSUME TypeInv, ConnInv, ServerIdle, ReceiveAck, Head(inbox) = LastId(Batch)
  PROVE  ConnInv'
<1>1. /\ UNCHANGED <<spc, stopping, rx, sock, conns>>
      /\ inbox # << >>
      /\ inbox' = Tail(inbox)
  BY DEF ServerIdle, serverVars, ReceiveAck, ClientReceive
<1>2. NetShape'
  BY <1>1 DEF ConnInv, NetShape
<1>3. Answering' = Answering
  BY <1>1 DEF Answering, Serving
<1>4. inbox = <<LastId(Batch)>>
  BY <1>1 DEF ConnInv, Exchange
<1>5. Tail(inbox) = << >>
  BY <1>4
<1> QED
  BY <1>1, <1>2, <1>3, <1>5 DEF ConnInv, Exchange

\* The server's steps: it takes the frame, works on it, answers, or gives the
\* connection up.
LEMMA ServerConn ==
  ASSUME TypeInv, ConnInv, ClientIdle,
         Server \/ ServerFault \/ ConnectionFails \/ ServerStopSignal
  PROVE  ConnInv'
<1>0. UNCHANGED <<cpc, sending>>
  BY DEF ClientIdle, clientVars, consumerVars
<1>a. Batch' = Batch
  BY <1>0 DEF Batch
<1>b. conns \in Seq(Connection) /\ Len(conns) \in Nat
  BY LenProperties DEF TypeInv, TypeOK, NetTypeOK
<1>c. Serving => conns # << >> /\ 1 \in 1 .. Len(conns)
  BY <1>b, EmptyIffLen DEF TypeInv, ServerShape
<1>d. ASSUME ~ Answering', UNCHANGED inbox, NetShape',
             \A i \in 1 .. Len(conns') :
               conns'[i].open /\ conns'[i].frame # << >> =>
                 \E j \in 1 .. Len(conns) :
                   conns[j].open /\ conns[j].frame = conns'[i].frame
      PROVE  ConnInv'
  BY <1>0, <1>a, <1>d DEF ConnInv, Exchange
<1>1. CASE ServerStart \/ AcceptClient \/ ServerExit
  <2>1. UNCHANGED <<rx, conns, inbox>> /\ rx = << >> /\ (sock = "open" => sock' = "open")
    BY <1>1 DEF ServerStart, ServerListen, AcceptClient, ServerExit, netVars, TypeInv,
                ServerShape
  <2> QED
    BY <1>d, <2>1 DEF Answering, ConnInv, NetShape
<1>2. CASE ReceiveBatch
  <2>1. /\ Serving /\ conns[1].frame # << >> /\ rx' = conns[1].frame
        /\ UNCHANGED <<sock, inbox, stopping>> /\ rx = << >>
        /\ conns' = [conns EXCEPT ![1].frame = << >>]
    BY <1>2 DEF ReceiveBatch, ServerReceive, Serving, TypeInv, ServerShape
  <2>2. PICK f \in Seq(Message) : f = << >> /\ conns' = [conns EXCEPT ![1].frame = f]
    BY <2>1, EmptySeq
  <2>3. Len(conns') = Len(conns)
    BY <1>b, <2>2, ConnsUpdate
  <2>4. \A i \in 1 .. Len(conns) :
          /\ conns'[i].open = conns[i].open
          /\ conns'[i].frame = IF i = 1 THEN << >> ELSE conns[i].frame
    BY <1>b, <2>2, ConnsFields
  <2>5. NetShape'
    BY <2>1, <2>3, <2>4 DEF ConnInv, NetShape
  <2>6. CASE conns[1].open
    <3>1. Len(conns) = 1
      BY <1>c, <2>1, <2>6 DEF ConnInv, NetShape
    <3>2. cpc = "await" /\ conns[1].frame = Batch /\ inbox = << >>
      BY <1>c, <2>1, <2>6 DEF ConnInv, Exchange
    <3>3. \A i \in 1 .. Len(conns') : conns'[i].frame = << >>
      BY <2>3, <2>4, <3>1
    <3> QED
      BY <1>0, <1>a, <2>1, <2>5, <3>2, <3>3 DEF ConnInv, Exchange
  <2>7. CASE ~ conns[1].open
    <3>1. ~ Answering'
      BY <1>c, <2>1, <2>4, <2>7 DEF Answering
    <3> QED
      BY <1>d, <2>1, <2>3, <2>4, <2>5, <3>1
  <2> QED
    BY <2>6, <2>7
<1>3. CASE ProcessMessage \/ PersistWatermark
  <2>1. /\ UNCHANGED <<rx, stopping, conns, sock, inbox>>
        /\ spc \in {"process", "persist"} /\ spc' \in {"process", "persist", "ack"}
    BY <1>3 DEF ProcessMessage, PersistWatermark, netVars
  <2>2. Answering' = Answering
    BY <2>1 DEF Answering, Serving
  <2> QED
    BY <1>0, <1>a, <2>1, <2>2 DEF ConnInv, NetShape, Exchange
<1>4. CASE SendAck
  <2>1. /\ Serving /\ rx # << >> /\ rx' = << >> /\ UNCHANGED <<conns, sock>>
        /\ inbox' = IF conns[1].open THEN Append(inbox, LastId(rx)) ELSE inbox
    BY <1>4 DEF SendAck, ServerAck, NoBatch, Serving, TypeInv, ServerShape
  <2>2. ~ Answering' /\ NetShape'
    BY <2>1 DEF Answering, ConnInv, NetShape
  <2>3. CASE conns[1].open
    <3>1. Answering
      BY <2>1, <2>3 DEF Answering
    <3>2. cpc = "await" /\ rx = Batch /\ inbox = << >>
      BY <3>1 DEF ConnInv, Exchange
    <3>3. inbox' = <<LastId(Batch)>>
      BY <2>1, <2>3, <3>2
    <3>4. \A i \in 1 .. Len(conns) : ~ (conns[i].open /\ conns[i].frame # << >>)
      BY <3>1 DEF ConnInv, Exchange
    <3> QED
      BY <1>0, <1>a, <2>1, <2>2, <3>2, <3>3, <3>4 DEF ConnInv, Exchange
  <2>4. CASE ~ conns[1].open
    BY <1>d, <2>1, <2>2, <2>4
  <2> QED
    BY <2>3, <2>4
<1>5. CASE ConfirmWatermarkFails \/ SendAckFails \/ ClientDisconnects \/ ConnectionFails
  <2>1. BackToAccept /\ spc \in {"receive", "persist", "ack"}
    BY <1>5 DEF ConfirmWatermarkFails, SendAckFails, ClientDisconnects, ConnectionFails
  <2>2. ~ Answering'
    BY <2>1 DEF BackToAccept, NoBatch, Answering
  <2>3. CASE stopping
    BY <1>d, <2>1, <2>2, <2>3 DEF BackToAccept, netVars, ConnInv, NetShape
  <2>4. CASE ~ stopping
    <3>1. /\ conns # << >> /\ conns' = Tail(conns) /\ UNCHANGED inbox
          /\ sock' = IF conns[1].open THEN "broken" ELSE sock
      BY <1>c, <2>1, <2>4 DEF BackToAccept, ServerCloseClient, Serving
    <3>2. /\ Len(conns') = Len(conns) - 1
          /\ \A i \in 1 .. Len(conns') : conns'[i] = conns[i + 1]
      BY <1>b, <3>1, HeadTailProperties
    <3>3. \A i \in 1 .. Len(conns') : i + 1 \in 1 .. Len(conns) /\ i + 1 # 1
      BY <1>b, <3>2
    <3>4. ASSUME NEW i \in 1 .. Len(conns'), conns'[i].open
          PROVE  sock' = "open" /\ i = Len(conns')
      <4>1. sock = "open" /\ i + 1 = Len(conns)
        BY <3>2, <3>3, <3>4 DEF ConnInv, NetShape
      <4>2. ~ conns[1].open
        BY <1>c, <2>1, <2>4, <3>3, <4>1 DEF ConnInv, NetShape, Serving
      <4>3. sock' = "open"
        BY <3>1, <4>1, <4>2
      <4>4. i = Len(conns')
        BY <1>b, <3>2, <4>1
      <4> QED
        BY <4>3, <4>4
    <3>5. NetShape'
      BY <3>4 DEF NetShape
    <3> QED
      BY <1>d, <2>2, <3>1, <3>2, <3>3, <3>5
  <2> QED
    BY <2>3, <2>4 DEF TypeInv, TypeOK, ServerTypeOK
<1>6. CASE ServerStopSignal \/ ServerCrash
  <2>1. conns' = << >> /\ UNCHANGED inbox /\ ~ Answering'
    BY <1>6 DEF ServerStopSignal, ServerCrash, ServerCloseAll, Answering, Serving
  <2>2. \A i \in 1 .. Len(conns') : FALSE
    BY <2>1
  <2>3. NetShape'
    BY <2>2 DEF NetShape
  <2> QED
    BY <1>d, <2>1, <2>2, <2>3
<1> QED
  BY <1>1, <1>2, <1>3, <1>4, <1>5, <1>6 DEF Server, ServerFault

-----------------------------------------------------------------------------
(* The cases of Next, as the proofs below take them. *)

ClientMoves == /\ \/ WriteLine \/ Main \/ StopSignal \/ Crash \/ LoseState
                  \/ Producer \/ ProducerFault
                  \/ Consumer \/ SendFails \/ ConfirmFails
               /\ ServerIdle

ServerMoves == /\ Server \/ ServerFault \/ ConnectionFails \/ ServerStopSignal
               /\ ClientIdle

\* Every step of the system is one of the client, one of the server, or none.
LEMMA NextMoves ==
  ASSUME [Next]_vars
  PROVE  ClientMoves \/ ServerMoves \/ UNCHANGED vars
<1>1. CASE LogGrows \/ MainStep \/ ProducerStep \/ ConsumerStep \/ ServerStep
  BY <1>1 DEF LogGrows, MainStep, ProducerStep, ConsumerStep, ServerStep,
              ClientMoves, ServerMoves
<1>2. CASE Fault
  BY <1>2 DEF Fault, ClientFault, ClientMoves, ServerMoves
<1> QED
  BY <1>1, <1>2 DEF Next

\* Whatever times out, breaks or is left behind, the connection the client
\* holds carries its present batch or the ACK for it, and nothing else.
THEOREM ConnInvariance == Spec => []ConnInv
<1>1. Init => ConnInv
  <2> SUFFICES ASSUME Init PROVE ConnInv
    OBVIOUS
  <2>1. conns = << >> /\ inbox = << >> /\ spc = "down"
    BY DEF Init, NetInit, ServerInit
  <2>2. \A i \in 1 .. Len(conns) : FALSE
    BY <2>1
  <2> QED
    BY <2>1, <2>2 DEF ConnInv, NetShape, Exchange, Answering, Serving
<1>2. TypeInv /\ ConnInv /\ [Next]_vars => ConnInv'
  <2> SUFFICES ASSUME TypeInv, ConnInv, [Next]_vars PROVE ConnInv'
    OBVIOUS
  <2>1. CASE ClientMoves
    <3>1. \/ UNCHANGED netVars /\ (cpc # "await" \/ UNCHANGED <<cpc, sending>>)
          \/ ClientClose
          \/ Connect
          \/ SendBatch
          \/ ReceiveAck /\ Head(inbox) = LastId(Batch)
      BY <2>1, ClientNetSteps DEF ClientMoves
    <3> QED
      BY <2>1, <3>1, ConnQuiet, ConnClosed, ConnOpens, ConnSends, ConnAcked
         DEF ClientMoves
  <2>2. CASE ServerMoves
    BY <2>2, ServerConn DEF ServerMoves
  <2>3. CASE UNCHANGED vars
    BY <2>3, ConnQuiet DEF vars, clientVars, consumerVars, ServerIdle
  <2> QED
    BY <2>1, <2>2, <2>3, NextMoves
<1> QED
  BY <1>1, <1>2, TypeInvariance, PTL DEF Spec

\* An ACK that the client reads is the one for the batch it is waiting for:
\* sendLogBatchAndWaitAck never throws because of an ACK left over from an
\* earlier batch.
THEOREM AckMatchesBatchAlways == Spec => []AckMatchesBatch
<1>1. ConnInv => AckMatchesBatch
  BY DEF ConnInv, Exchange, AckMatchesBatch
<1> QED
  BY <1>1, ConnInvariance, PTL

-----------------------------------------------------------------------------
(* Where messages go. *)

\* The batch is the low end of what is to be sent.
LEMMA BatchOrder ==
  ASSUME sending \in Seq(Message), sending # << >>, Increasing(sending)
  PROVE  LET rest == SubSeq(sending, Len(Batch) + 1, Len(sending)) IN
         /\ Batch \in Seq(Message) /\ Batch # << >> /\ Increasing(Batch)
         /\ rest \in Seq(Message) /\ Increasing(rest)
         /\ LastId(Batch) \in MessageId
         /\ Range(Batch) = {m \in Range(sending) : m.id <= LastId(Batch)}
         /\ Range(rest) = {m \in Range(sending) : m.id > LastId(Batch)}
<1> DEFINE n == Smaller(SendBatchSize, Len(sending))
           rest == SubSeq(sending, n + 1, Len(sending))
<1>1. Batch = SubSeq(sending, 1, n)
  BY DEF Batch
<1>2. n \in 0 .. Len(sending)
  BY LenProperties, BatchAssumption DEF Smaller
<1>3. Len(Batch) = n
  BY <1>1, <1>2, SplitType
<1> HIDE DEF n
<1>4. /\ Batch \in Seq(Message) /\ rest \in Seq(Message)
      /\ Increasing(Batch) /\ Increasing(rest)
      /\ Range(sending) = Range(Batch) \cup Range(rest)
      /\ \A x \in Range(Batch), y \in Range(rest) : x.id < y.id
  BY <1>1, <1>2, IncreasingSplit
<1>5. Batch # << >>
  BY BatchFacts
<1>6. LastId(Batch) \in MessageId
  BY BatchLastIdType
<1> HIDE DEF rest
<1>7. /\ \A m \in Range(Batch) : m.id <= LastId(Batch)
      /\ \E m \in Range(Batch) : m.id = LastId(Batch)
  BY <1>4, <1>5, LastIdIsMax
<1>8. \A m \in Range(sending) : m.id \in Int
  BY ElementAt
<1>9. \A y \in Range(rest) : y.id > LastId(Batch)
  BY <1>4, <1>7
<1>10. \A y \in Range(sending) : ~ (y.id > LastId(Batch) /\ y.id <= LastId(Batch))
  BY <1>6, <1>8, BoundAssumption DEF MessageId
<1> QED
  BY <1>3, <1>4, <1>5, <1>6, <1>7, <1>9, <1>10 DEF rest

Known == InFlight \cup Pipe \cup output

\* Frames on connections and the messages known outside the WAL are well typed.
LEMMA KnownTypes ==
  ASSUME TypeInv
  PROVE  /\ \A F \in Frames : F \in Seq(Message)
         /\ \A i \in 1 .. Len(conns) : conns[i] \in Connection
         /\ Known \subseteq Message
         /\ \A m \in Known : m.id \in MessageId /\ m.id \in Int /\ m.clientId \in ClientIds
<1>1. \A i \in 1 .. Len(conns) : conns[i] \in Connection
  BY ElementOfSeq DEF TypeInv, TypeOK, NetTypeOK
<1>2. \A F \in Frames : F \in Seq(Message)
  BY <1>1 DEF Frames, Connection, TypeInv, TypeOK, ServerTypeOK
<1>3. \A F \in Frames : Range(F) \subseteq Message
  BY <1>2, RangeIsElements
<1>4. InFlight \subseteq Message
  BY <1>3 DEF InFlight
<1>5. Pipe \subseteq Message
  BY RangeIsElements DEF Pipe, TypeInv, TypeOK, ClientTypeOK
<1>6. Known \subseteq Message
  BY <1>4, <1>5 DEF Known, TypeInv, TypeOK, ServerTypeOK
<1> QED
  BY <1>1, <1>2, <1>6, MessageFields

\* The client adds to the frames only the batch it sends.
LEMMA ClientFrames ==
  ASSUME TypeInv, ClientMoves
  PROVE  /\ UNCHANGED <<spc, stopping, rx, pos, latest, output, reprinted, dedup, dedupFile>>
         /\ \/ Frames' \subseteq Frames \cup {<< >>}
            \/ SendBatch /\ Frames' \subseteq Frames \cup {Batch}
<1>1. UNCHANGED <<spc, stopping, rx, pos, latest, output, reprinted, dedup, dedupFile>>
  BY DEF ClientMoves, ServerIdle, serverVars, dedupVars
<1>2. conns \in Seq(Connection) /\ Len(conns) \in Nat
  BY LenProperties DEF TypeInv, TypeOK, NetTypeOK
<1>3. CASE UNCHANGED conns
  BY <1>1, <1>3 DEF Frames
<1>4. CASE ClientClose
  <2>1. Len(conns') = Len(conns)
    BY <1>4, ClientCloseType DEF TypeInv, TypeOK
  <2>2. \A i \in 1 .. Len(conns) : conns'[i].frame = conns[i].frame
    <3>1. CASE sock = "open"
      <4>1. PICK b \in BOOLEAN : conns' = [conns EXCEPT ![Len(conns)].open = b]
        BY <1>4, <3>1 DEF ClientClose
      <4> QED
        BY <1>2, <4>1, ConnsFields
    <3>2. CASE sock # "open"
      BY <1>4, <3>2 DEF ClientClose
    <3> QED
      BY <3>1, <3>2
  <2> QED
    BY <1>1, <2>1, <2>2 DEF Frames
<1>5. CASE Connect
  <2>0. [frame |-> << >>, open |-> TRUE] \in Connection
    BY EmptySeq DEF Connection
  <2>1. /\ Len(conns') = Len(conns) + 1
        /\ \A i \in 1 .. Len(conns) : conns'[i] = conns[i]
        /\ conns'[Len(conns) + 1] = [frame |-> << >>, open |-> TRUE]
    BY <1>2, <1>5, <2>0, AppendProperties DEF Connect, ClientConnect
  <2>2. \A i \in 1 .. Len(conns') : i \in 1 .. Len(conns) \/ i = Len(conns) + 1
    BY <1>2, <2>1
  <2>3. \A i \in 1 .. Len(conns') : conns'[i].frame \in Frames \cup {<< >>}
    BY <2>1, <2>2 DEF Frames
  <2> QED
    BY <1>1, <2>3 DEF Frames
<1>6. CASE SendBatch
  <2>1. sending \in Seq(Message) /\ sending # << >>
    BY <1>6 DEF SendBatch, AtSend, TypeInv, TypeOK, ClientTypeOK, ClientShape
  <2>2. Batch \in Seq(Message)
    BY <2>1, BatchFacts
  <2>3. /\ Len(conns') = Len(conns)
        /\ \A i \in 1 .. Len(conns) : conns'[i].frame \in {conns[i].frame, Batch}
    <3>1. CASE sock = "open"
      <4>1. conns' = [conns EXCEPT ![Len(conns)].frame = Batch]
        BY <1>6, <3>1 DEF SendBatch, ClientSend
      <4> QED
        BY <1>2, <2>2, <4>1, ConnsFields, ConnsUpdate
    <3>2. CASE sock # "open"
      BY <1>6, <3>2 DEF SendBatch, ClientSend
    <3> QED
      BY <3>1, <3>2
  <2>4. Frames' \subseteq Frames \cup {Batch}
    BY <1>1, <2>3 DEF Frames
  <2> QED
    BY <1>1, <1>6, <2>4
<1>7. CASE ReceiveAck /\ Head(inbox) = LastId(Batch)
  BY <1>3, <1>7 DEF ReceiveAck, ClientReceive
<1> QED
  BY <1>1, <1>3, <1>4, <1>5, <1>6, <1>7, ClientNetSteps DEF ClientMoves, netVars

\* The server adds nothing to the frames.
LEMMA ServerFrames ==
  ASSUME TypeInv, ServerMoves
  PROVE  Frames' \subseteq Frames \cup {<< >>}
<1>1. conns \in Seq(Connection) /\ Len(conns) \in Nat
  BY LenProperties DEF TypeInv, TypeOK, NetTypeOK
<1>2. Serving => conns # << >> /\ 1 \in 1 .. Len(conns)
  BY <1>1, EmptyIffLen DEF TypeInv, ServerShape
<1>3. CASE UNCHANGED conns /\ rx' \in {rx, << >>}
  BY <1>3 DEF Frames
<1>4. CASE ReceiveBatch
  <2>1. Serving /\ rx' = conns[1].frame /\ conns' = [conns EXCEPT ![1].frame = << >>]
    BY <1>4 DEF ReceiveBatch, ServerReceive, Serving
  <2>2. PICK f \in Seq(Message) : f = << >> /\ conns' = [conns EXCEPT ![1].frame = f]
    BY <2>1, EmptySeq
  <2>3. Len(conns') = Len(conns)
    BY <1>1, <2>2, ConnsUpdate
  <2>4. \A i \in 1 .. Len(conns) : conns'[i].frame \in {conns[i].frame, << >>}
    BY <1>1, <2>2, ConnsFields
  <2> QED
    BY <1>2, <2>1, <2>3, <2>4 DEF Frames
<1>5. CASE ConfirmWatermarkFails \/ SendAckFails \/ ClientDisconnects \/ ConnectionFails
  <2>1. BackToAccept /\ spc \in {"receive", "persist", "ack"}
    BY <1>5 DEF ConfirmWatermarkFails, SendAckFails, ClientDisconnects, ConnectionFails
  <2>2. CASE stopping
    BY <1>3, <2>1, <2>2 DEF BackToAccept, NoBatch, netVars
  <2>3. CASE ~ stopping
    <3>1. conns # << >> /\ conns' = Tail(conns) /\ rx' = << >>
      BY <1>2, <2>1, <2>3 DEF BackToAccept, NoBatch, ServerCloseClient, Serving
    <3>2. /\ Len(conns') = Len(conns) - 1
          /\ \A i \in 1 .. Len(conns') : conns'[i] = conns[i + 1]
      BY <1>1, <3>1, HeadTailProperties
    <3>3. \A i \in 1 .. Len(conns') : i + 1 \in 1 .. Len(conns)
      BY <1>1, <3>2
    <3> QED
      BY <3>1, <3>2, <3>3 DEF Frames
  <2> QED
    BY <2>2, <2>3
<1>6. CASE ServerStopSignal \/ ServerCrash
  <2>1. conns' = << >> /\ rx' \in {rx, << >>}
    BY <1>6 DEF ServerStopSignal, ServerCrash, ServerCloseAll, NoBatch
  <2> QED
    BY <2>1 DEF Frames
<1>7. CASE \/ ServerStart \/ AcceptClient \/ ProcessMessage \/ PersistWatermark
           \/ SendAck \/ ServerExit
  BY <1>3, <1>7 DEF ServerStart, ServerListen, AcceptClient, ProcessMessage,
                    PersistWatermark, SendAck, ServerAck, NoBatch, ServerExit, netVars
<1> QED
  BY <1>4, <1>5, <1>6, <1>7 DEF ServerMoves, Server, ServerFault

\* Parts of the pipe may disappear.
LEMMA PipeWithin ==
  ASSUME PipeOrder,
         Increasing(sending'), Range(sending') \subseteq Range(sending),
         Increasing(queue'), Range(queue') \subseteq Range(queue),
         Increasing(messages'), Range(messages') \subseteq Range(messages)
  PROVE  PipeOrder' /\ Pipe' \subseteq Pipe
<1>1. PipeOrder'
  BY DEF PipeOrder, Ordered
<1>2. Pipe' \subseteq Pipe
  BY DEF Pipe
<1> QED
  BY <1>1, <1>2

\* A message leaves the pipe with its thread, with the rest of a round that is
\* abandoned, or when its batch is confirmed.
PipeLoss ==
  \A m \in Pipe \ Pipe' :
     \/ cpc' \in {"off", "done"}
     \/ /\ UNCHANGED <<sending, queue>>
        /\ m \in Range(messages) /\ messages' = << >>
        /\ ppc' \in {"closing", "done"}
     \/ ConfirmBatch /\ m \in Range(Batch)

\* Messages move along the pipe in order, from the round through the queue to
\* the batch; only an append and the start add to it.
LEMMA ClientPipe ==
  ASSUME TypeInv, PipeOrder, ClientMoves, ~ AppendMessage, ~ StartState
  PROVE  PipeOrder' /\ Pipe' \subseteq Pipe /\ PipeLoss
<1>0. messages \in Seq(Message) /\ queue \in Seq(Message) /\ sending \in Seq(Message)
  BY DEF TypeInv, TypeOK, ClientTypeOK
<1>1. CASE /\ sending' \in {sending, << >>}
           /\ queue' \in {queue, << >>}
           /\ messages' \in {messages, << >>}
           /\ \/ UNCHANGED <<sending, queue, messages>>
              \/ cpc' \in {"off", "done"}
              \/ UNCHANGED <<sending, queue>> /\ ppc' \in {"closing", "done"}
  <2>1. PipeOrder' /\ Pipe' \subseteq Pipe
    BY <1>1, PipeWithin, EmptyRun DEF PipeOrder
  <2>2. PipeLoss
    BY <1>1 DEF PipeLoss, Pipe
  <2> QED
    BY <2>1, <2>2
<1>2. CASE PushMessage
  <2>1. /\ messages # << >>
        /\ queue' = Append(queue, Head(messages))
        /\ messages' = Tail(messages)
        /\ sending' = sending
    BY <1>2 DEF PushMessage, ProducerUnchanged, consumerVars, TypeInv, ClientShape
  <2>2. /\ Head(messages) \in Message
        /\ Increasing(Tail(messages))
        /\ Range(messages) = {Head(messages)} \cup Range(Tail(messages))
        /\ \A y \in Range(Tail(messages)) : Head(messages).id < y.id
    BY <1>0, <2>1, IncreasingTail DEF PipeOrder
  <2>3. \A n \in Range(queue) : n.id < Head(messages).id
    BY <2>2 DEF PipeOrder, Ordered
  <2>4. Increasing(queue') /\ Range(queue') = Range(queue) \cup {Head(messages)}
    BY <1>0, <2>1, <2>2, <2>3, IncreasingAppend DEF PipeOrder
  <2>5. PipeOrder'
    BY <2>1, <2>2, <2>4 DEF PipeOrder, Ordered
  <2> QED
    BY <2>1, <2>2, <2>4, <2>5 DEF Pipe, PipeLoss
<1>3. CASE PopBatch
  <2>1. PICK n : TakeFromQueue(n) /\ n \in 0 .. Len(queue)
    <3>1. Smaller(SendBatchSize - Len(sending), Len(queue)) \in 0 .. Len(queue)
      <4>1. Len(queue) \in Nat /\ Len(sending) \in Nat
        BY <1>0, LenProperties
      <4>2. Len(sending) < SendBatchSize
        <5>1. cpc = "pop" => Len(sending) = 0
          BY <1>0, EmptyIffLen DEF TypeInv, ClientShape
        <5> QED
          BY <1>3, <5>1, BatchAssumption DEF PopBatch, TypeInv, ClientShape
      <4> QED
        BY <4>1, <4>2, BatchAssumption DEF Smaller
    <3> QED
      BY <1>3, <3>1 DEF PopBatch
  <2> DEFINE a == SubSeq(queue, 1, n)
             b == SubSeq(queue, n + 1, Len(queue))
  <2>2. /\ a \in Seq(Message) /\ Increasing(a) /\ Increasing(b)
        /\ Range(queue) = Range(a) \cup Range(b)
        /\ \A x \in Range(a), y \in Range(b) : x.id < y.id
    BY <1>0, <2>1, IncreasingSplit DEF PipeOrder
  <2>3. sending' = sending \o a /\ queue' = b /\ messages' = messages
    BY <2>1 DEF TakeFromQueue, ConsumerUnchanged, producerVars
  <2> HIDE DEF a, b
  <2>4. Increasing(sending') /\ Range(sending') = Range(sending) \cup Range(a)
    BY <1>0, <2>2, <2>3, IncreasingConcat DEF PipeOrder, Ordered
  <2>5. PipeOrder'
    BY <2>2, <2>3, <2>4 DEF PipeOrder, Ordered
  <2> QED
    BY <2>2, <2>3, <2>4, <2>5 DEF Pipe, PipeLoss
<1>4. CASE ConfirmBatch
  <2>1. /\ sending # << >> /\ UNCHANGED <<queue, messages>>
        /\ sending' = SubSeq(sending, Len(Batch) + 1, Len(sending))
    BY <1>4 DEF ConfirmBatch, queueVars, ConsumerUnchanged, producerVars, TypeInv,
                ClientShape
  <2>2. /\ Increasing(sending') /\ Range(sending') \subseteq Range(sending)
        /\ Range(sending) \subseteq Range(Batch) \cup Range(sending')
    <3>1. /\ Increasing(sending')
          /\ LastId(Batch) \in MessageId
          /\ Range(Batch) = {m \in Range(sending) : m.id <= LastId(Batch)}
          /\ Range(sending') = {m \in Range(sending) : m.id > LastId(Batch)}
      BY <1>0, <2>1, BatchOrder DEF PipeOrder
    <3>2. \A m \in Range(sending) : m.id \in Int
      BY <1>0, ElementAt
    <3>3. \A m \in Range(sending) : m.id <= LastId(Batch) \/ m.id > LastId(Batch)
      BY <3>1, <3>2, BoundAssumption DEF MessageId
    <3> QED
      BY <3>1, <3>3
  <2>3. PipeOrder' /\ Pipe' \subseteq Pipe
    BY <2>1, <2>2, PipeWithin DEF PipeOrder
  <2>4. PipeLoss
    BY <1>4, <2>1, <2>2 DEF Pipe, PipeLoss
  <2> QED
    BY <2>3, <2>4
<1>5. CASE WriteLine \/ StartWal \/ MainClose \/ StopSignal \/ LoseState
  <2>1. UNCHANGED <<sending, queue, messages>>
    BY <1>5 DEF WriteLine, StartWal, MainClose, StopSignal, LoseState, clientVars,
                producerVars, queueVars, consumerVars
  <2> QED
    BY <1>1, <2>1
<1>6. CASE Exit \/ Crash
  BY <1>1, <1>6 DEF Exit, Crash, ClientGone
<1>7. CASE \/ ReadNewLines \/ ProducerLeavesLoop \/ AllocId \/ Checkpoint \/ ProducerClose
           \/ PushRefused
  <2>1. /\ UNCHANGED <<sending, queue>>
        /\ messages' = messages \/ (messages' = << >> /\ ppc' = "done")
    BY <1>7 DEF ReadNewLines, ProducerLeavesLoop, AllocId, Checkpoint, ProducerClose,
                PushRefused, ProducerUnchanged, consumerVars, queueVars
  <2> QED
    BY <1>1, <2>1
<1>8. CASE AllocExhausted \/ AppendOversized \/ ProducerFault
  <2>1. ProducerThrows
    BY <1>8 DEF AllocExhausted, AppendOversized, ProducerFault, ReadFails, AllocFails,
                AppendFails, CheckpointFails
  <2> QED
    BY <1>1, <2>1 DEF ProducerThrows, ProducerUnchanged, queueVars, consumerVars
<1>9. CASE LoopAgain \/ BatchDeadline \/ Connect \/ SendBatch \/ RetryDelivery
  <2>1. UNCHANGED <<sending, queue, messages>>
    BY <1>9 DEF LoopAgain, BatchDeadline, Connect, SendBatch, RetryDelivery, queueVars,
                ConsumerUnchanged, producerVars
  <2> QED
    BY <1>1, <2>1
<1>10. CASE ConsumerLeavesLoop \/ PopClosed \/ AbandonDelivery
  <2>1. sending' = << >> /\ UNCHANGED <<queue, messages>> /\ cpc' = "done"
    BY <1>10 DEF ConsumerLeavesLoop, PopClosed, AbandonDelivery, ConsumerEnds,
                 ConsumerUnchanged, producerVars
  <2> QED
    BY <1>1, <2>1
<1>11. CASE \/ ConnectFails \/ SendToClosed \/ SendFails \/ ReceiveAck \/ ServerClosed
            \/ AckTimesOut \/ ConfirmFails
  <2>1. UNCHANGED <<sending, queue, messages>>
    BY <1>11 DEF ConnectFails, SendToClosed, SendFails, ReceiveAck, ServerClosed,
                 AckTimesOut, ConfirmFails, DeliveryThrows, queueVars,
                 ConsumerUnchanged, producerVars
  <2> QED
    BY <1>1, <2>1
<1> QED
  BY <1>2, <1>3, <1>4, <1>5, <1>6, <1>7, <1>8, <1>9, <1>10, <1>11
     DEF ClientMoves, Main, Producer, Consumer

-----------------------------------------------------------------------------
(* Bounds on the IDs in circulation. *)

\* An ID that does not exceed what is in circulation for client c.
Reached(c, id) == \/ id <= dedup[c]
                  \/ id <= dedupFile[c]
                  \/ \E m \in Known : m.clientId = c /\ id <= m.id

\* The step puts at most the messages of S into circulation.
OnlyNew(S) == /\ Known' \subseteq Known \cup S
              /\ \A c \in ClientIds : Reached(c, dedup'[c]) /\ Reached(c, dedupFile'[c])

\* What holds of those in circulation and of the new ones holds afterwards.
LEMMA BelowKept ==
  ASSUME TypeInv, TypeInv', NEW S, OnlyNew(S), NEW c \in ClientIds, NEW b \in Int,
         Below(c, b), \A m \in S : m.clientId = c => m.id <= b
  PROVE  Below(c, b)'
<1>1. /\ dedup[c] \in Int /\ dedupFile[c] \in Int
      /\ dedup'[c] \in Int /\ dedupFile'[c] \in Int
  BY BoundAssumption DEF TypeInv, TypeOK, DedupTypeOK
<1>2. \A m \in Known : m.id \in Int
  BY KnownTypes
<1>3. dedup[c] <= b /\ dedupFile[c] <= b /\ \A m \in Known : m.clientId = c => m.id <= b
  BY DEF Below, Known
<1>4. \A id \in Int : Reached(c, id) => id <= b
  BY <1>1, <1>2, <1>3 DEF Reached
<1>5. dedup'[c] <= b /\ dedupFile'[c] <= b
  BY <1>1, <1>4 DEF OnlyNew
<1>6. \A m \in Known' : m.clientId = c => m.id <= b
  BY <1>3 DEF OnlyNew
<1> QED
  BY <1>5, <1>6 DEF Below, Known

\* A bound on the IDs that a client has used may be raised.
LEMMA BelowMore ==
  ASSUME TypeInv, NEW c \in ClientIds, NEW a \in Int, NEW b \in Int, Below(c, a), a <= b
  PROVE  Below(c, b)
<1>1. dedup[c] \in Int /\ dedupFile[c] \in Int
  BY BoundAssumption DEF TypeInv, TypeOK, DedupTypeOK
<1>2. \A m \in Known : m.id \in Int
  BY KnownTypes
<1> QED
  BY <1>1, <1>2 DEF Below, Known

\* Every frame is a run of IDs of one client.
FrameOrder == \A F \in Frames : Increasing(F) /\ SameClient(Range(F))

\* What the client puts into circulation.
LEMMA ClientOnlyNew ==
  ASSUME TypeInv, PipeOrder, FrameOrder, ClientMoves,
         proc = "up" => \A m \in Pipe : m.clientId = state.clientId
  PROVE  /\ FrameOrder'
         /\ ~ AppendMessage /\ ~ StartState => OnlyNew({})
         /\ AppendMessage => OnlyNew({NewMessage}) /\ Pipe' = Pipe \cup {NewMessage}
         /\ StartState => OnlyNew(Range(pending)) /\ Pipe' = Range(pending)
<1>1. UNCHANGED <<output, dedup, dedupFile>>
  BY ClientFrames
<1>2. \A c \in ClientIds : dedup[c] \in Int /\ dedupFile[c] \in Int
  BY BoundAssumption DEF TypeInv, TypeOK, DedupTypeOK
<1>3. \A c \in ClientIds : Reached(c, dedup'[c]) /\ Reached(c, dedupFile'[c])
  BY <1>1, <1>2 DEF Reached
<1>4. FrameOrder' /\ InFlight' \subseteq InFlight \cup Pipe
  <2>1. CASE Frames' \subseteq Frames \cup {<< >>}
    BY <2>1, EmptyRun DEF FrameOrder, InFlight, SameClient
  <2>2. CASE SendBatch /\ Frames' \subseteq Frames \cup {Batch}
    <3>1. /\ sending \in Seq(Message) /\ sending # << >> /\ Increasing(sending)
          /\ proc = "up"
      BY <2>2 DEF SendBatch, AtSend, TypeInv, TypeOK, ClientTypeOK, ClientShape, PipeOrder
    <3>2. Increasing(Batch) /\ Range(Batch) \subseteq Range(sending)
      BY <3>1, BatchOrder
    <3>3. SameClient(Range(Batch)) /\ Range(Batch) \subseteq Pipe
      BY <3>1, <3>2 DEF SameClient, Pipe
    <3> QED
      BY <2>2, <3>2, <3>3 DEF FrameOrder, InFlight
  <2> QED
    BY <2>1, <2>2, ClientFrames
<1>5. ASSUME ~ AppendMessage, ~ StartState PROVE OnlyNew({})
  <2>1. Pipe' \subseteq Pipe
    BY <1>5, ClientPipe
  <2> QED
    BY <1>1, <1>3, <1>4, <2>1 DEF OnlyNew, Known
<1>6. ASSUME AppendMessage PROVE OnlyNew({NewMessage}) /\ Pipe' = Pipe \cup {NewMessage}
  <2>1. /\ UNCHANGED <<sending, queue>>
        /\ messages' = Append(messages, NewMessage)
        /\ ppc = "append"
    BY <1>6 DEF AppendMessage, ProducerUnchanged, consumerVars, queueVars
  <2>2. NewMessage \in Message /\ messages \in Seq(Message)
    BY <2>1, NewMessageType DEF TypeInv, TypeOK, ClientSideType, ClientTypeOK
  <2>3. Range(messages') = Range(messages) \cup {NewMessage}
    BY <2>1, <2>2, RangeAppend
  <2>4. Pipe' = Pipe \cup {NewMessage}
    BY <2>1, <2>3 DEF Pipe
  <2> QED
    BY <1>1, <1>3, <1>4, <2>4 DEF OnlyNew, Known
<1>7. ASSUME StartState PROVE OnlyNew(Range(pending)) /\ Pipe' = Range(pending)
  <2>1. /\ UNCHANGED <<queue, messages>> /\ sending' = pending
        /\ queue = << >> /\ messages = << >>
    BY <1>7 DEF StartState, queueVars, TypeInv, ClientShape
  <2>2. Pipe' = Range(pending)
    BY <2>1, EmptyRun DEF Pipe
  <2> QED
    BY <1>1, <1>3, <1>4, <2>2 DEF OnlyNew, Known
<1> QED
  BY <1>4, <1>5, <1>6, <1>7

\* The client's steps, by what they do to its files.
Over == {"off", "closing", "done"}

FilesQuiet == /\ UNCHANGED <<walVars, stateVars, proc, cur>>
              /\ ppc' = ppc \/ ppc' # "append"
              /\ ppc \in Over => ppc' \in Over

\* The actions of the client that change its files or its IDs, by name.
LEMMA ClientFileSteps ==
  ASSUME TypeInv, ClientMoves
  PROVE  \/ FilesQuiet
         \/ ConfirmBatch \/ ConfirmFails
         \/ AllocId \/ AllocFails \/ Checkpoint \/ CheckpointFails
         \/ AppendMessage \/ AppendFails
         \/ StartWal \/ StartState \/ LoseState
         \/ Exit \/ Crash
<1>1. CASE WriteLine \/ StopSignal \/ MainClose
  BY <1>1 DEF WriteLine, StopSignal, MainClose, producerVars, FilesQuiet
<1>2. CASE \/ ReadNewLines \/ ProducerLeavesLoop \/ PushMessage \/ PushRefused
           \/ ProducerClose
  BY <1>2 DEF ReadNewLines, ProducerLeavesLoop, PushMessage, PushRefused, ProducerClose,
              ProducerUnchanged, FilesQuiet, Over
<1>3. CASE AllocExhausted \/ AppendOversized \/ ReadFails
  BY <1>3 DEF AllocExhausted, AppendOversized, ReadFails, ProducerThrows,
              ProducerUnchanged, FilesQuiet, Over
<1>4. CASE (Consumer \/ SendFails) /\ ~ ConfirmBatch
  <2>1. ConsumerUnchanged /\ UNCHANGED walVars
    BY <1>4 DEF Consumer, LoopAgain, ConsumerLeavesLoop, PopBatch, TakeFromQueue,
                BatchDeadline, PopClosed, Connect, ConnectFails, SendBatch,
                SendToClosed, ReceiveAck, ServerClosed, AckTimesOut, RetryDelivery,
                AbandonDelivery, SendFails, ConsumerEnds, DeliveryThrows
  <2> QED
    BY <2>1 DEF ConsumerUnchanged, producerVars, FilesQuiet
<1> QED
  BY <1>1, <1>2, <1>3, <1>4 DEF ClientMoves, Main, Producer, ProducerFault, Consumer

-----------------------------------------------------------------------------
(* The files. *)

\* Who a running client is.
LEMMA RunningIdentity ==
  ASSUME TypeInv, OrderInv, proc = "up"
  PROVE  /\ StateExists /\ state.clientId = stateFile.clientId
         /\ state.clientId \in ClientIds /\ state.clientId \in usedIds
         /\ state.nextId \in 1 .. MaxUint64 /\ stateFile.nextId \in 1 .. MaxUint64
         /\ state.nextId <= stateFile.nextId
         /\ LastAllocated \in Int /\ LastAllocated <= state.nextId - 1
         /\ Below(state.clientId, LastAllocated)
         /\ LastId(walFile) <= LastAllocated
         /\ \A m \in Range(walFile) \cup Range(pending) \cup Pipe : m.clientId = state.clientId
<1>1. state.clientId = stateFile.clientId /\ state.clientId \in ClientIds
  BY DEF OrderInv, Identity, TypeInv, ClientShape
<1>2. StateExists
  BY <1>1, ClientAssumption DEF StateExists
<1>3. state.nextId \in 1 .. MaxUint64 /\ stateFile.nextId \in 1 .. MaxUint64
  BY DEF TypeInv, TypeOK, StateTypeOK, ClientStateType
<1>4. LastAllocated \in Int /\ LastAllocated <= state.nextId - 1
  BY <1>3, BoundAssumption DEF LastAllocated
<1> QED
  BY <1>1, <1>2, <1>3, <1>4 DEF OrderInv, Identity, Allocation, WalShape

\* The message under construction is new everywhere.
LEMMA NewMessageFacts ==
  ASSUME TypeInv, OrderInv, ppc = "append"
  PROVE  /\ NewMessage \in Message
         /\ NewMessage.id = state.nextId - 1
         /\ NewMessage.clientId = state.clientId
         /\ proc = "up"
         /\ LastAllocated = state.nextId - 2
         /\ \A n \in Range(walFile) \cup Range(pending) \cup Pipe : n.id < NewMessage.id
         /\ LET s == Append(walFile, NewMessage) IN
            /\ Increasing(s) /\ LastId(s) = state.nextId - 1
            /\ Range(s) = Range(walFile) \cup {NewMessage}
         /\ LET s == Append(pending, NewMessage) IN
            /\ Increasing(s) /\ LastId(s) = state.nextId - 1
            /\ Range(s) = Range(pending) \cup {NewMessage}
<1>1. NewMessage \in Message
  BY NewMessageType DEF TypeInv, TypeOK, ClientSideType
<1>2. NewMessage.id = state.nextId - 1 /\ NewMessage.clientId = state.clientId
  BY DEF NewMessage
<1>3. proc = "up" /\ LastAllocated = state.nextId - 2
  BY DEF TypeInv, ClientShape, LastAllocated
<1>4. state.nextId \in Int
  BY <1>3, RunningIdentity, BoundAssumption
<1>5. walFile \in Seq(Message) /\ pending \in Seq(Message)
  BY DEF TypeInv, TypeOK, WalTypeOK
<1>6. Increasing(walFile) /\ Increasing(pending) /\ Range(pending) \subseteq Range(walFile)
  BY DEF OrderInv, WalShape
<1>7. LastId(walFile) \in Int /\ \A m \in Range(walFile) : m.id <= LastId(walFile) /\ m.id \in Int
  BY <1>5, <1>6, LastIdIsMax, ElementAt, BoundAssumption
<1>8. \A n \in Range(walFile) \cup Range(pending) : n.id < NewMessage.id
  <2>1. LastId(walFile) <= LastAllocated
    BY <1>3, RunningIdentity
  <2> QED
    BY <1>2, <1>3, <1>4, <1>6, <1>7, <2>1
<1>9. \A n \in Pipe : n.id < NewMessage.id
  <2>1. \A n \in Pipe : n.id \in Int
    BY KnownTypes DEF Known
  <2>2. \A n \in Pipe : n.id <= LastAllocated
    BY <1>3, RunningIdentity DEF Below
  <2> QED
    BY <1>2, <1>3, <1>4, <2>1, <2>2
<1>10. LET s == Append(walFile, NewMessage) IN
       /\ Increasing(s) /\ LastId(s) = state.nextId - 1
       /\ Range(s) = Range(walFile) \cup {NewMessage}
  BY <1>1, <1>2, <1>5, <1>6, <1>8, IncreasingAppend
<1>11. LET s == Append(pending, NewMessage) IN
       /\ Increasing(s) /\ LastId(s) = state.nextId - 1
       /\ Range(s) = Range(pending) \cup {NewMessage}
  BY <1>1, <1>2, <1>5, <1>6, <1>8, IncreasingAppend
<1> QED
  BY <1>1, <1>2, <1>3, <1>8, <1>9, <1>10, <1>11

\* What a confirm keeps.
LEMMA KeptFacts ==
  ASSUME TypeInv, OrderInv, cpc = "confirm"
  PROVE  LET kept == Unconfirmed(pending, LastId(Batch)) IN
         /\ proc = "up"
         /\ kept \in Seq(Message) /\ Increasing(kept)
         /\ Range(kept) = {m \in Range(pending) : m.id > LastId(Batch)}
         /\ Range(kept) \subseteq Range(pending) /\ Range(kept) \subseteq Range(walFile)
         /\ kept # << >> => LastId(kept) = LastId(pending)
         /\ LastId(kept) <= LastId(walFile)
<1> DEFINE kept == Unconfirmed(pending, LastId(Batch))
<1>1. sending # << >> /\ sending \in Seq(Message) /\ proc = "up"
  BY DEF TypeInv, ClientShape, TypeOK, ClientTypeOK
<1>2. LastId(Batch) \in Int
  BY <1>1, BatchLastIdType
<1>3. pending \in Seq(Message) /\ walFile \in Seq(Message)
  BY DEF TypeInv, TypeOK, WalTypeOK
<1>4. Increasing(walFile) /\ Increasing(pending) /\ Range(pending) \subseteq Range(walFile)
  BY DEF OrderInv, WalShape
<1>5. /\ kept \in Seq(Message) /\ Increasing(kept)
      /\ Range(kept) = {m \in Range(pending) : m.id > LastId(Batch)}
      /\ kept # << >> => LastId(kept) = LastId(pending)
  BY <1>2, <1>3, <1>4, UnconfirmedFacts
<1> HIDE DEF kept
<1>6. Range(kept) \subseteq Range(pending) /\ Range(kept) \subseteq Range(walFile)
  BY <1>4, <1>5
<1>7. LastId(kept) <= LastId(walFile)
  BY <1>3, <1>4, <1>5, <1>6, LastIdWithin
<1> QED
  BY <1>1, <1>5, <1>6, <1>7 DEF kept

\* The WAL in memory and on disk after any step of the client.
LEMMA WalEffects ==
  ASSUME TypeInv, OrderInv, ClientMoves
  PROVE  LET kept == Unconfirmed(pending, LastId(Batch)) IN
         /\ \/ walFile' = walFile
            \/ /\ ppc = "append" /\ walFile' = Append(walFile, NewMessage)
               /\ AppendMessage \/ AppendFails \/ proc' = "down"
            \/ cpc = "confirm" /\ walFile' = kept
         /\ AppendMessage => /\ walFile' = Append(walFile, NewMessage)
                             /\ pending' = Append(pending, NewMessage)
         /\ \/ pending' = pending
            \/ pending' = << >>
            \/ pending' = walFile /\ proc = "down"
            \/ AppendMessage
            \/ cpc = "confirm" /\ pending' = kept
<1> DEFINE kept == Unconfirmed(pending, LastId(Batch))
           Goal == /\ \/ walFile' = walFile
                      \/ /\ ppc = "append" /\ walFile' = Append(walFile, NewMessage)
                         /\ AppendMessage \/ AppendFails \/ proc' = "down"
                      \/ cpc = "confirm" /\ walFile' = kept
                   /\ \/ pending' = pending
                      \/ pending' = << >>
                      \/ pending' = walFile /\ proc = "down"
                      \/ AppendMessage
                      \/ cpc = "confirm" /\ pending' = kept
<1>0. AppendMessage => /\ walFile' = Append(walFile, NewMessage)
                       /\ pending' = Append(pending, NewMessage)
  BY DEF AppendMessage, WalAppend
<1>1. CASE FilesQuiet
  <2>1. Goal
    BY <1>1 DEF FilesQuiet, walVars
  <2> QED
    BY <1>0, <2>1
<1>2. CASE ConfirmBatch \/ ConfirmFails
  <2>1. Goal
    BY <1>2 DEF ConfirmBatch, ConfirmFails, WalConfirm, WalConfirmFails, walVars
  <2> QED
    BY <1>0, <2>1
<1>3. CASE AllocId \/ AllocFails \/ Checkpoint \/ CheckpointFails
  <2>1. Goal
    BY <1>3 DEF AllocId, AllocFails, Checkpoint, CheckpointFails, walVars
  <2> QED
    BY <1>0, <2>1
<1>4. CASE AppendMessage \/ AppendFails
  <2>1. Goal
    BY <1>4 DEF AppendMessage, AppendFails, WalAppend, WalAppendFails, WalTornAppend
  <2> QED
    BY <1>0, <2>1
<1>5. CASE StartWal \/ StartState \/ LoseState
  <2>1. Goal
    BY <1>5 DEF StartWal, StartState, LoseState, WalLoad, walVars
  <2> QED
    BY <1>0, <2>1
<1>6. CASE Exit \/ Crash
  <2>1. Goal
    BY <1>6 DEF Exit, Crash, ClientGone, WalForget, WalTornAppend
  <2> QED
    BY <1>0, <2>1
<1> QED
  BY <1>0, <1>1, <1>2, <1>3, <1>4, <1>5, <1>6, ClientFileSteps

\* IDs increase along the WAL, and what is pending is on disk.
LEMMA ClientWalShape ==
  ASSUME TypeInv, OrderInv, ClientMoves
  PROVE  WalShape'
<1>0. WalShape
  BY DEF OrderInv
<1>a. proc # "up" => ppc \in Over
  BY DEF TypeInv, ClientShape, Over
<1>1. Increasing(walFile') /\ Increasing(pending')
  BY <1>0, WalEffects, NewMessageFacts, KeptFacts, EmptyRun DEF WalShape, AppendMessage
<1>2. CASE FilesQuiet
  BY <1>0, <1>2 DEF FilesQuiet, walVars, WalShape, Over
<1>3. CASE ConfirmBatch \/ ConfirmFails
  <2>1. UNCHANGED <<proc, ppc>> /\ proc = "up"
    BY <1>3 DEF ConfirmBatch, ConfirmFails, DeliveryThrows, ConsumerUnchanged,
                producerVars, TypeInv, ClientShape
  <2>2. walTail' \in {walTail, "clean"}
    BY <1>3 DEF ConfirmBatch, ConfirmFails, WalConfirm, WalConfirmFails, walVars
  <2>3. Range(pending') \subseteq Range(walFile')
    BY <1>0, <1>3, KeptFacts
       DEF ConfirmBatch, ConfirmFails, WalConfirm, WalConfirmFails, walVars, WalShape
  <2> QED
    BY <1>0, <1>1, <2>1, <2>2, <2>3 DEF WalShape
<1>4. CASE AllocId \/ AllocFails \/ Checkpoint \/ CheckpointFails
  <2>1. UNCHANGED <<walVars, proc>> /\ ppc \in {"alloc", "checkpoint"}
    BY <1>4 DEF AllocId, AllocFails, Checkpoint, CheckpointFails, ProducerThrows,
                ProducerUnchanged
  <2> QED
    BY <1>0, <2>1 DEF walVars, WalShape
<1>5. CASE AppendMessage
  <2>1. /\ ppc = "append" /\ proc = "up" /\ proc' = "up"
        /\ walFile' = Append(walFile, NewMessage)
        /\ pending' = Append(pending, NewMessage)
        /\ walTail' = IF walTail = "clean" THEN "clean" ELSE "corrupt"
    BY <1>5, NewMessageFacts DEF AppendMessage, WalAppend, ProducerUnchanged
  <2>2. walTail = "clean"
    BY <1>0, <2>1 DEF WalShape, TypeInv, TypeOK, WalTypeOK
  <2>3. Range(pending') \subseteq Range(walFile')
    BY <1>0, <2>1, NewMessageFacts DEF WalShape
  <2> QED
    BY <1>1, <2>1, <2>2, <2>3 DEF WalShape
<1>6. CASE AppendFails
  <2>1. /\ ppc = "append" /\ proc = "up" /\ proc' = "up" /\ ppc' = "closing"
        /\ walFile' \in {walFile, Append(walFile, NewMessage)}
        /\ pending' = pending
        /\ walTail' \in {walTail, "torn"}
    BY <1>6, NewMessageFacts DEF AppendFails, WalAppendFails, WalTornAppend,
                                 ProducerThrows, ProducerUnchanged
  <2>2. Range(pending') \subseteq Range(walFile')
    BY <1>0, <2>1, NewMessageFacts DEF WalShape
  <2> QED
    BY <1>0, <1>1, <2>1, <2>2 DEF WalShape
<1>7. CASE StartWal \/ StartState \/ LoseState
  BY <1>0, <1>1, <1>7 DEF StartWal, StartState, LoseState, WalLoad, walVars, clientVars,
                          producerVars, WalShape
<1>8. CASE Exit \/ Crash
  <2>1. /\ proc' = "down" /\ ppc' = "off" /\ pending' = << >>
        /\ walTail' \in {walTail, "torn"}
    BY <1>8 DEF Exit, Crash, ClientGone, WalForget, WalTornAppend
  <2> QED
    BY <1>0, <1>1, <2>1, EmptyRun DEF WalShape
<1> QED
  BY <1>2, <1>3, <1>4, <1>5, <1>6, <1>7, <1>8, ClientFileSteps

\* The state in memory and on disk after any step of the client but its start:
\* one identity, and IDs that never go back.
LEMMA StateEffects ==
  ASSUME TypeInv, OrderInv, ClientMoves, ~ StartState, ~ LoseState
  PROVE  /\ usedIds' = usedIds
         /\ proc' = "up" => /\ proc = "up"
                            /\ state'.clientId = state.clientId
                            /\ state'.nextId <= stateFile'.nextId
                            /\ LastAllocated' \in Int
                            /\ LastAllocated <= LastAllocated'
                            /\ LastAllocated' <= state'.nextId - 1
                            /\ AppendMessage \/ AppendFails =>
                                  LastAllocated' = state.nextId - 1
         /\ \/ stateFile' = stateFile
            \/ /\ proc = "up"
               /\ stateFile'.clientId = state.clientId
               /\ stateFile'.nextId \in Int
               /\ stateFile'.nextId >= state.nextId
<1>0. state \in ClientStateType /\ stateFile \in ClientStateType
  BY DEF TypeInv, TypeOK, StateTypeOK
<1>1. state.nextId \in 1 .. MaxUint64 /\ stateFile.nextId \in 1 .. MaxUint64
  BY <1>0 DEF ClientStateType
<1>2. proc = "up" => state.nextId <= stateFile.nextId
  BY DEF OrderInv, Identity
<1>3. ppc \notin Over => proc = "up"
  BY DEF TypeInv, ClientShape, Over
<1>4. CASE FilesQuiet
  BY <1>1, <1>2, <1>4, BoundAssumption
     DEF FilesQuiet, stateVars, LastAllocated, AppendMessage, AppendFails, ProducerThrows
<1>5. CASE ConfirmBatch \/ ConfirmFails
  <2>1. UNCHANGED <<proc, ppc, state, stateFile, usedIds>>
    BY <1>5 DEF ConfirmBatch, ConfirmFails, DeliveryThrows, ConsumerUnchanged,
                producerVars, stateVars
  <2> QED
    BY <1>1, <1>2, <2>1, BoundAssumption
       DEF LastAllocated, AppendMessage, AppendFails, ProducerThrows
<1>6. CASE AllocId \/ AllocFails
  <2>1. /\ ppc = "alloc" /\ proc' = proc /\ usedIds' = usedIds /\ proc = "up"
        /\ state' = IF AllocId THEN Allocated ELSE state
        /\ stateFile' \in {stateFile, Allocated}
        /\ AllocId => stateFile' = Allocated
        /\ ppc' = IF AllocId THEN "append" ELSE "closing"
        /\ ~ IdsExhausted
    BY <1>3, <1>6 DEF Over, AllocId, AllocFails, NextMessageId, NextMessageIdFails,
                      Persist, PersistFails, ProducerThrows, ProducerUnchanged
  <2>2. /\ Allocated.clientId = state.clientId
        /\ Allocated.nextId = state.nextId + 1
    BY <1>0, <2>1, AllocatedType
  <2>3. LastAllocated = state.nextId - 1
    BY <2>1 DEF LastAllocated
  <2>4. LastAllocated' = state.nextId - 1
    BY <1>1, <2>1, <2>2, BoundAssumption DEF LastAllocated
  <2> QED
    BY <1>1, <1>2, <2>1, <2>2, <2>3, <2>4, BoundAssumption DEF AppendMessage, AppendFails
<1>7. CASE Checkpoint \/ CheckpointFails
  <2>1. /\ AtOffset(readPos).clientId = state.clientId
        /\ AtOffset(readPos).nextId = state.nextId
    BY <1>0 DEF AtOffset, ClientStateType
  <2>2. /\ ppc = "checkpoint" /\ proc' = proc /\ usedIds' = usedIds /\ proc = "up"
        /\ ppc' \in {"push", "closing"}
        /\ \/ UNCHANGED <<state, stateFile>>
           \/ state' = AtOffset(readPos) /\ stateFile' = state'
           \/ state' = state /\ stateFile' = AtOffset(readPos)
    BY <1>3, <1>7 DEF Over, Checkpoint, CheckpointFails, UpdateFileCheckpoint,
                      UpdateFileCheckpointFails, Persist, PersistFails, stateVars,
                      ProducerThrows, ProducerUnchanged
  <2>3. LastAllocated = state.nextId - 1 /\ LastAllocated' = state'.nextId - 1
    BY <2>2 DEF LastAllocated
  <2> QED
    BY <1>1, <1>2, <2>1, <2>2, <2>3, BoundAssumption DEF AppendMessage, AppendFails
<1>8. CASE AppendMessage \/ AppendFails
  <2>1. /\ UNCHANGED <<proc, state, stateFile, usedIds>> /\ proc = "up"
        /\ ppc = "append" /\ ppc' # "append"
    BY <1>3, <1>8 DEF Over, AppendMessage, AppendFails, stateVars, ProducerThrows,
                      ProducerUnchanged
  <2>2. LastAllocated = state.nextId - 2 /\ LastAllocated' = state.nextId - 1
    BY <2>1 DEF LastAllocated
  <2> QED
    BY <1>1, <1>2, <2>1, <2>2, BoundAssumption
<1>9. CASE StartWal \/ Exit \/ Crash
  BY <1>9 DEF StartWal, stateVars, Exit, Crash, ClientGone
<1> QED
  BY <1>4, <1>5, <1>6, <1>7, <1>8, <1>9, ClientFileSteps

\* The WAL file grows by the message under construction only.
LEMMA WalWithin ==
  ASSUME TypeInv, OrderInv, ClientMoves
  PROVE  /\ \/ Range(walFile') \subseteq Range(walFile)
            \/ ppc = "append" /\ Range(walFile') \subseteq Range(walFile) \cup {NewMessage}
         /\ Range(pending') \subseteq Range(walFile')
BY WalEffects, NewMessageFacts, KeptFacts, ClientWalShape DEF WalShape

\* What the constructor of ClientState arrives at.
LEMMA StartFacts ==
  ASSUME TypeInv, OrderInv, StartState
  PROVE  \E c \in ClientIds :
           /\ usedIds' = usedIds \cup {c}
           /\ state'.clientId = c /\ stateFile' = state'
           /\ state'.nextId \in Int
           /\ LastId(pending) < state'.nextId
           /\ walFile' = walFile /\ pending' = walFile /\ pending = walFile
           /\ proc' = "up" /\ LastAllocated' = state'.nextId - 1
           /\ \A m \in Range(walFile) : m.clientId = c
           /\ Below(c, state'.nextId - 1)
<1>1. pending = walFile /\ walFile \in Seq(Message) /\ Increasing(walFile)
  BY DEF StartState, OrderInv, WalShape, TypeInv, TypeOK, WalTypeOK
<1>2. UNCHANGED walVars /\ proc' = "up" /\ ppc' = "read" /\ StateLoad(pending)
  BY DEF StartState
<1>3. stateFile.nextId \in 1 .. MaxUint64
  BY DEF TypeInv, TypeOK, StateTypeOK, ClientStateType
<1>4. PICK c \in ChosenClientIds(pending) :
        /\ state' = [clientId   |-> c,
                     nextId     |-> IF stateFile.nextId <= LastId(pending)
                                    THEN LastId(pending) + 1
                                    ELSE stateFile.nextId,
                     fileOffset |-> stateFile.fileOffset]
        /\ usedIds' = usedIds \cup {c}
  BY <1>2 DEF StateLoad
<1>5. /\ stateFile' = state' /\ state'.clientId = c
      /\ state'.nextId = IF stateFile.nextId <= LastId(pending)
                         THEN LastId(pending) + 1 ELSE stateFile.nextId
  BY <1>2, <1>4 DEF StateLoad
<1>6. LastId(pending) \in 0 .. MaxUint64 - 1
  BY <1>1, LastIdType
<1>7. /\ state'.nextId \in Int /\ LastId(pending) < state'.nextId
      /\ stateFile.nextId <= state'.nextId /\ LastId(pending) <= state'.nextId - 1
      /\ 0 <= state'.nextId - 1
  BY <1>3, <1>5, <1>6, BoundAssumption
<1>8. LastAllocated' = state'.nextId - 1
  BY <1>2 DEF LastAllocated
<1>9. /\ c \in ClientIds
      /\ \A m \in Range(walFile) : m.clientId = c
      /\ Below(c, state'.nextId - 1)
  <2>1. CASE StateExists
    <3>1. c = stateFile.clientId /\ c \in ClientIds
      BY <1>4, <2>1 DEF ChosenClientIds, StateExists, TypeInv, TypeOK, StateTypeOK,
                        ClientStateType
    <3>2. /\ Below(c, stateFile.nextId - 1)
          /\ \A m \in Range(walFile) : m.clientId = c
      BY <2>1, <3>1 DEF OrderInv, Allocation, Identity
    <3> QED
      BY <1>3, <1>7, <3>1, <3>2, BelowMore, BoundAssumption
  <2>2. CASE ~ StateExists /\ pending # << >>
    <3>1. c = pending[1].clientId
      BY <1>4, <2>2 DEF ChosenClientIds
    <3>2. pending[1] \in Range(walFile)
      BY <1>1, <2>2, RangeIsElements
    <3>3. c \in ClientIds
      BY <1>1, <3>1, <3>2, ElementAt, MessageFields
    <3>4. Below(c, LastId(pending)) /\ \A m \in Range(walFile) : m.clientId = c
      BY <1>1, <3>1, <3>2 DEF OrderInv, Allocation, Identity, SameClient
    <3> QED
      BY <1>6, <1>7, <3>3, <3>4, BelowMore, BoundAssumption
  <2>3. CASE ~ StateExists /\ pending = << >>
    <3>1. c \in ClientIds \ usedIds
      BY <1>4, <2>3 DEF ChosenClientIds
    <3>2. Below(c, 0) /\ Range(walFile) = {}
      BY <1>1, <2>3, <3>1, EmptyRun DEF OrderInv, Allocation
    <3> QED
      BY <1>7, <3>1, <3>2, BelowMore
  <2> QED
    BY <2>1, <2>2, <2>3
<1> QED
  BY <1>1, <1>2, <1>4, <1>5, <1>7, <1>8, <1>9 DEF walVars

\* One identity.
LEMMA ClientIdentity ==
  ASSUME TypeInv, OrderInv, ClientMoves
  PROVE  Identity'
<1>0. Identity /\ FrameOrder /\ PipeOrder
  BY DEF OrderInv, Identity, FrameOrder
<1>1. FrameOrder'
  BY <1>0, ClientOnlyNew DEF Identity
<1>2. CASE StartState
  <2>1. PICK c \in ClientIds :
           /\ usedIds' = usedIds \cup {c}
           /\ state'.clientId = c /\ stateFile' = state'
           /\ state'.nextId \in Int
           /\ walFile' = walFile /\ pending = walFile
           /\ \A m \in Range(walFile) : m.clientId = c
    BY <1>2, StartFacts
  <2>2. Pipe' = Range(pending)
    BY <1>0, <1>2, ClientOnlyNew DEF Identity
  <2> QED
    BY <1>1, <2>1, <2>2 DEF Identity, SameClient, FrameOrder
<1>3. CASE LoseState
  <2>1. UNCHANGED walFile /\ proc' = "down" /\ ~ StateExists'
    BY <1>3 DEF LoseState, clientVars, walVars, NoState, StateExists
  <2> QED
    BY <1>0, <1>1, <2>1 DEF Identity, FrameOrder
<1>4. CASE ~ StartState /\ ~ LoseState
  <2>1. \A m \in Range(walFile') :
          m \in Range(walFile) \/ (proc = "up" /\ m.clientId = state.clientId)
    <3>1. ppc = "append" => proc = "up" /\ NewMessage.clientId = state.clientId
      BY NewMessageFacts
    <3>2. \/ Range(walFile') \subseteq Range(walFile)
          \/ ppc = "append" /\ Range(walFile') \subseteq Range(walFile) \cup {NewMessage}
      BY WalWithin
    <3> QED
      BY <3>1, <3>2
  <2>2. proc = "up" => /\ state.clientId = stateFile.clientId /\ state.clientId \in usedIds
                       /\ \A m \in Range(walFile) : m.clientId = state.clientId
    BY RunningIdentity
  <2>3. SameClient(Range(walFile'))
    BY <1>0, <2>1, <2>2 DEF Identity, SameClient
  <2>4. StateExists' => /\ stateFile'.clientId \in usedIds'
                        /\ \A m \in Range(walFile') : m.clientId = stateFile'.clientId
    <3>1. CASE stateFile' = stateFile
      BY <1>0, <1>4, <2>1, <2>2, <3>1, StateEffects DEF Identity, StateExists
    <3>2. CASE proc = "up" /\ stateFile'.clientId = state.clientId
      BY <1>4, <2>1, <2>2, <3>2, StateEffects
    <3> QED
      BY <1>4, <3>1, <3>2, StateEffects
  <2>5. proc' = "up" => \A m \in Pipe' : m.clientId = state'.clientId
    <3> SUFFICES ASSUME proc' = "up" PROVE \A m \in Pipe' : m.clientId = state'.clientId
      OBVIOUS
    <3>1. proc = "up" /\ state'.clientId = state.clientId
      BY <1>4, StateEffects
    <3>2. \A m \in Pipe : m.clientId = state.clientId
      BY <1>0, <3>1 DEF Identity
    <3>3. CASE AppendMessage
      <4>1. Pipe' = Pipe \cup {NewMessage}
        BY <1>0, <3>2, <3>3, ClientOnlyNew
      <4> QED
        BY <3>1, <3>2, <4>1 DEF NewMessage
    <3>4. CASE ~ AppendMessage
      BY <1>0, <1>4, <3>1, <3>2, <3>4, ClientPipe
    <3> QED
      BY <3>3, <3>4
  <2>6. proc' = "up" => /\ state'.clientId = stateFile'.clientId
                        /\ state'.nextId <= stateFile'.nextId
    BY <1>4, <2>2, StateEffects
  <2> QED
    BY <1>1, <2>3, <2>4, <2>5, <2>6 DEF Identity, FrameOrder
<1> QED
  BY <1>2, <1>3, <1>4

\* The next ID is new, whichever file it is computed from.
LEMMA ClientAllocation ==
  ASSUME TypeInv, TypeInv', OrderInv, ClientMoves
  PROVE  Allocation'
<1>0. Allocation /\ Identity /\ FrameOrder /\ PipeOrder
  BY DEF OrderInv, Identity, FrameOrder
<1>a. walFile \in Seq(Message) /\ pending \in Seq(Message)
  BY DEF TypeInv, TypeOK, WalTypeOK
<1>b. /\ LastId(walFile) \in 0 .. MaxUint64 - 1 /\ LastId(pending) \in 0 .. MaxUint64 - 1
      /\ LastId(walFile) \in Int /\ LastId(pending) \in Int
  BY <1>a, LastIdType, BoundAssumption
<1>c. \A m \in Range(walFile) \cup Range(pending) : m.clientId \in ClientIds
  BY <1>a, ElementAt, MessageFields
<1>1. CASE StartState
  <2>1. PICK c \in ClientIds :
           /\ usedIds' = usedIds \cup {c}
           /\ state'.clientId = c /\ stateFile' = state'
           /\ state'.nextId \in Int
           /\ LastId(pending) < state'.nextId
           /\ walFile' = walFile /\ pending' = walFile /\ pending = walFile
           /\ proc' = "up" /\ LastAllocated' = state'.nextId - 1
           /\ \A m \in Range(walFile) : m.clientId = c
           /\ Below(c, state'.nextId - 1)
    BY <1>1, StartFacts
  <2>2. OnlyNew(Range(pending))
    BY <1>0, <1>1, ClientOnlyNew DEF Identity
  <2>3. \A m \in Range(pending) : m.id <= LastId(pending) /\ m.id \in Int
    BY <1>a, LastIdIsMax, ElementAt DEF OrderInv, WalShape
  <2>b. PICK b \in Int : b = state'.nextId - 1
    BY <2>1
  <2>4. Below(c, b)'
    <3>1. \A m \in Range(pending) : m.id <= b
      BY <1>b, <2>1, <2>3, <2>b
    <3>2. Below(c, b)
      BY <2>1, <2>b
    <3> QED
      BY <2>2, <3>1, <3>2, BelowKept
  <2>5. \A d \in ClientIds \ usedIds' : Below(d, 0)'
    <3> SUFFICES ASSUME NEW d \in ClientIds \ usedIds' PROVE Below(d, 0)'
      OBVIOUS
    <3>1. Below(d, 0) /\ d # c
      BY <1>0, <2>1 DEF Allocation
    <3>2. \A m \in Range(pending) : m.clientId = d => m.id <= 0
      BY <2>1, <3>1
    <3> QED
      BY <2>2, <3>1, <3>2, BelowKept
  <2>6. \A m \in Range(walFile) : Below(m.clientId, LastId(walFile))'
    <3> SUFFICES ASSUME NEW m \in Range(walFile) PROVE Below(m.clientId, LastId(walFile))'
      OBVIOUS
    <3>1. Below(c, LastId(walFile)) /\ m.clientId = c
      BY <1>0, <2>1 DEF Allocation
    <3>2. ASSUME NEW n \in Int, n = LastId(walFile) PROVE Below(c, n)'
      BY <2>1, <2>2, <2>3, <3>1, <3>2, BelowKept
    <3> QED
      BY <1>b, <2>1, <3>1, <3>2 DEF Below
  <2>7. LastId(walFile') < state'.nextId /\ LastId(walFile') <= LastAllocated'
    BY <1>b, <2>1
  <2>8. \A m \in Range(walFile') : Below(m.clientId, LastId(walFile))'
    BY <2>1, <2>6
  <2>9. \A m \in Range(pending') : Below(m.clientId, LastId(pending))'
    BY <2>1, <2>6 DEF Below
  <2>10. Below(state.clientId, LastAllocated)' /\ Below(stateFile.clientId, stateFile.nextId - 1)'
    BY <2>1, <2>4, <2>b DEF Below
  <2> QED
    BY <2>1, <2>5, <2>7, <2>8, <2>9, <2>10 DEF Allocation
<1>2. CASE ~ StartState
  <2>0. proc = "up" => /\ state.clientId = stateFile.clientId
                       /\ state.clientId \in ClientIds /\ state.clientId \in usedIds
                       /\ state.nextId \in Int /\ stateFile.nextId \in Int
                       /\ state.nextId <= stateFile.nextId
                       /\ LastAllocated \in Int /\ LastAllocated <= state.nextId - 1
                       /\ Below(state.clientId, LastAllocated)
                       /\ LastId(walFile) <= LastAllocated
                       /\ \A m \in Range(walFile) \cup Range(pending) : m.clientId = state.clientId
    BY RunningIdentity, BoundAssumption
  <2>a. ppc = "append" => /\ proc = "up" /\ NewMessage.clientId = state.clientId
                          /\ NewMessage.id = state.nextId - 1
    BY NewMessageFacts
  <2>b. AppendMessage => ppc = "append"
    BY DEF AppendMessage
  <2>1. ASSUME NEW c \in ClientIds, NEW b \in Int, Below(c, b),
               AppendMessage /\ c = state.clientId => state.nextId - 1 <= b
        PROVE  Below(c, b)'
    <3>1. CASE AppendMessage
      <4>1. OnlyNew({NewMessage})
        BY <1>0, <3>1, ClientOnlyNew DEF Identity
      <4>2. \A m \in {NewMessage} : m.clientId = c => m.id <= b
        BY <2>1, <2>a, <2>b, <3>1
      <4> QED
        BY <2>1, <4>1, <4>2, BelowKept
    <3>2. CASE ~ AppendMessage
      <4>1. OnlyNew({})
        BY <1>0, <1>2, <3>2, ClientOnlyNew DEF Identity
      <4> QED
        BY <2>1, <4>1, BelowKept
    <3> QED
      BY <3>1, <3>2
  <2>2. usedIds' = usedIds
    BY <1>2, StateEffects DEF LoseState
  <2>3. \A c \in ClientIds \ usedIds' : Below(c, 0)'
    <3> SUFFICES ASSUME NEW c \in ClientIds \ usedIds' PROVE Below(c, 0)'
      OBVIOUS
    <3>1. Below(c, 0)
      BY <1>0, <2>2 DEF Allocation
    <3>2. ~ (AppendMessage /\ c = state.clientId)
      BY <2>0, <2>2, <2>a, <2>b
    <3> QED
      BY <2>1, <3>1, <3>2
  <2> DEFINE kept == Unconfirmed(pending, LastId(Batch))
  <2>k. cpc = "confirm" => /\ proc = "up" /\ kept \in Seq(Message)
                           /\ Range(kept) \subseteq Range(pending)
                           /\ kept # << >> => LastId(kept) = LastId(pending)
                           /\ LastId(kept) <= LastId(walFile)
    BY KeptFacts
  <2>l. cpc = "confirm" => LastId(kept) \in Int
    BY <2>k, LastIdType, BoundAssumption
  <2>n. ppc = "append" => /\ LastId(Append(walFile, NewMessage)) = state.nextId - 1
                          /\ LastId(Append(pending, NewMessage)) = state.nextId - 1
                          /\ Range(Append(walFile, NewMessage)) = Range(walFile) \cup {NewMessage}
                          /\ Range(Append(pending, NewMessage)) = Range(pending) \cup {NewMessage}
    BY NewMessageFacts
  <2> HIDE DEF kept
  <2>w. /\ \/ walFile' = walFile
           \/ /\ ppc = "append" /\ walFile' = Append(walFile, NewMessage)
              /\ AppendMessage \/ AppendFails \/ proc' = "down"
           \/ cpc = "confirm" /\ walFile' = kept
        /\ AppendMessage => /\ walFile' = Append(walFile, NewMessage)
                            /\ pending' = Append(pending, NewMessage)
        /\ \/ pending' = pending
           \/ pending' = << >>
           \/ pending' = walFile /\ proc = "down"
           \/ AppendMessage
           \/ cpc = "confirm" /\ pending' = kept
    BY WalEffects DEF kept
  <2>5. ASSUME NEW m, NEW b \in Int, \/ ~ AppendMessage /\ m \in Range(walFile) /\ b = LastId(walFile)
                                     \/ ~ AppendMessage /\ m \in Range(pending) /\ b = LastId(pending)
                                     \/ ppc = "append" /\ m.clientId = state.clientId /\ b = state.nextId - 1
        PROVE  Below(m.clientId, b)'
    <3>1. CASE ppc = "append" /\ m.clientId = state.clientId /\ b = state.nextId - 1
      <4>1. Below(m.clientId, b)
        BY <2>0, <2>a, <3>1, BelowMore
      <4> QED
        BY <2>0, <2>1, <2>a, <3>1, <4>1
    <3>2. CASE ~ AppendMessage /\ m \in Range(walFile) /\ b = LastId(walFile)
      BY <1>0, <1>b, <1>c, <2>1, <3>2 DEF Allocation
    <3>3. CASE ~ AppendMessage /\ m \in Range(pending) /\ b = LastId(pending)
      BY <1>0, <1>b, <1>c, <2>1, <3>3 DEF Allocation
    <3> QED
      BY <2>5, <3>1, <3>2, <3>3
  <2>6. \A m \in Range(walFile') : Below(m.clientId, LastId(walFile))'
    <3> SUFFICES ASSUME NEW m \in Range(walFile') PROVE Below(m.clientId, LastId(walFile))'
      OBVIOUS
    <3>1. PICK b \in Int : b = LastId(walFile')
      <4>1. walFile' \in Seq(Message)
        BY DEF TypeInv, TypeOK, WalTypeOK
      <4> QED
        BY <4>1, LastIdType, BoundAssumption
    <3>2. CASE ppc = "append" /\ walFile' = Append(walFile, NewMessage)
      <4>1. m.clientId = state.clientId /\ b = state.nextId - 1
        BY <2>0, <2>a, <2>n, <3>1, <3>2
      <4>2. Below(m.clientId, b)'
        BY <2>5, <3>2, <4>1
      <4> QED
        BY <3>1, <4>2 DEF Below
    <3>3. CASE ~ AppendMessage /\ walFile' = walFile
      <4>1. Below(m.clientId, b)'
        BY <2>5, <3>1, <3>3
      <4> QED
        BY <3>1, <4>1 DEF Below
    <3>4. CASE ~ AppendMessage /\ cpc = "confirm" /\ walFile' = kept
      <4>1. m \in Range(pending) /\ kept # << >>
        BY <2>k, <3>4, EmptyRun
      <4>2. b = LastId(pending)
        BY <2>k, <3>1, <3>4, <4>1
      <4>3. Below(m.clientId, b)'
        BY <2>5, <3>4, <4>1, <4>2
      <4> QED
        BY <3>1, <4>3 DEF Below
    <3> QED
      BY <2>b, <2>w, <3>2, <3>3, <3>4
  <2>7. \A m \in Range(pending') : Below(m.clientId, LastId(pending))'
    <3> SUFFICES ASSUME NEW m \in Range(pending') PROVE Below(m.clientId, LastId(pending))'
      OBVIOUS
    <3>1. PICK b \in Int : b = LastId(pending')
      <4>1. pending' \in Seq(Message)
        BY DEF TypeInv, TypeOK, WalTypeOK
      <4> QED
        BY <4>1, LastIdType, BoundAssumption
    <3>2. CASE AppendMessage
      <4>1. m.clientId = state.clientId /\ b = state.nextId - 1
        BY <2>0, <2>a, <2>b, <2>n, <2>w, <3>1, <3>2
      <4>2. Below(m.clientId, b)'
        BY <2>5, <2>b, <3>2, <4>1
      <4> QED
        BY <3>1, <4>2 DEF Below
    <3>3. CASE ~ AppendMessage /\ (pending' = pending \/ pending' = walFile)
      <4>1. Below(m.clientId, b)'
        BY <2>5, <3>1, <3>3
      <4> QED
        BY <3>1, <4>1 DEF Below
    <3>4. CASE ~ AppendMessage /\ cpc = "confirm" /\ pending' = kept
      <4>1. m \in Range(pending) /\ kept # << >>
        BY <2>k, <3>4, EmptyRun
      <4>2. b = LastId(pending)
        BY <2>k, <3>1, <3>4, <4>1
      <4>3. Below(m.clientId, b)'
        BY <2>5, <3>4, <4>1, <4>2
      <4> QED
        BY <3>1, <4>3 DEF Below
    <3>5. pending' # << >>
      BY EmptyRun
    <3> QED
      BY <2>w, <3>2, <3>3, <3>4, <3>5
  <2>8. /\ LastId(walFile') \in Int
        /\ proc = "up" => LastId(walFile') <= state.nextId - 1
        /\ proc # "up" => walFile' = walFile
        /\ proc = "up" /\ proc' = "up" => \/ LastId(walFile') <= LastAllocated
                                          \/ /\ AppendMessage \/ AppendFails
                                             /\ LastId(walFile') = state.nextId - 1
    <3>1. CASE walFile' = walFile
      BY <1>b, <2>0, <3>1
    <3>2. CASE /\ ppc = "append" /\ walFile' = Append(walFile, NewMessage)
               /\ AppendMessage \/ AppendFails \/ proc' = "down"
      BY <2>0, <2>a, <2>n, <3>2
    <3>3. CASE cpc = "confirm" /\ walFile' = kept
      BY <1>b, <2>0, <2>k, <2>l, <3>3
    <3> QED
      BY <2>w, <3>1, <3>2, <3>3
  <2>9. StateExists' => /\ Below(stateFile.clientId, stateFile.nextId - 1)'
                        /\ LastId(walFile') < stateFile'.nextId
    <3> SUFFICES ASSUME StateExists'
                 PROVE  /\ Below(stateFile.clientId, stateFile.nextId - 1)'
                        /\ LastId(walFile') < stateFile'.nextId
      OBVIOUS
    <3>1. ~ LoseState
      BY DEF LoseState, StateExists, NoState
    <3>2. stateFile'.clientId \in ClientIds /\ stateFile'.nextId \in Int
      BY BoundAssumption DEF StateExists, TypeInv, TypeOK, StateTypeOK, ClientStateType
    <3>3. CASE stateFile' = stateFile
      <4>1. /\ Below(stateFile.clientId, stateFile.nextId - 1)
            /\ LastId(walFile) < stateFile.nextId
        BY <1>0, <3>3 DEF Allocation, StateExists
      <4>2. AppendMessage /\ stateFile.clientId = state.clientId =>
              state.nextId - 1 <= stateFile.nextId - 1
        BY <2>0, <2>a, <2>b
      <4>3. ASSUME NEW b \in Int, b = stateFile.nextId - 1 PROVE Below(stateFile.clientId, b)'
        BY <2>1, <3>2, <3>3, <4>1, <4>2, <4>3 DEF Below
      <4>4. LastId(walFile') < stateFile'.nextId
        BY <1>b, <2>0, <2>8, <3>2, <3>3, <4>1
      <4> QED
        BY <3>2, <3>3, <4>3, <4>4 DEF Below
    <3>4. CASE /\ proc = "up"
               /\ stateFile'.clientId = state.clientId
               /\ stateFile'.nextId \in Int
               /\ stateFile'.nextId >= state.nextId
      <4>1. PICK b \in Int : b = stateFile'.nextId - 1
        BY <3>4
      <4>2. PICK c \in ClientIds : c = state.clientId
        BY <2>0, <3>4
      <4>3. LastAllocated <= b /\ state.nextId - 1 <= b
        BY <2>0, <3>4, <4>1
      <4>4. Below(c, b)
        BY <2>0, <3>4, <4>2, <4>3, BelowMore
      <4>5. Below(c, b)'
        BY <2>1, <4>3, <4>4
      <4>6. LastId(walFile') < stateFile'.nextId
        BY <2>0, <2>8, <3>4
      <4> QED
        BY <3>4, <4>1, <4>2, <4>5, <4>6 DEF Below
    <3> QED
      BY <1>2, <3>1, <3>3, <3>4, StateEffects
  <2>10. proc' = "up" => Below(state.clientId, LastAllocated)' /\ LastId(walFile') <= LastAllocated'
    <3> SUFFICES ASSUME proc' = "up"
                 PROVE  Below(state.clientId, LastAllocated)' /\ LastId(walFile') <= LastAllocated'
      OBVIOUS
    <3>1. ~ LoseState
      BY DEF LoseState, clientVars
    <3>2. /\ proc = "up" /\ state'.clientId = state.clientId
          /\ LastAllocated' \in Int /\ LastAllocated <= LastAllocated'
          /\ AppendMessage \/ AppendFails => LastAllocated' = state.nextId - 1
      BY <1>2, <3>1, StateEffects
    <3>3. PICK c \in ClientIds : c = state.clientId
      BY <2>0, <3>2
    <3>4. PICK b \in Int : b = LastAllocated'
      BY <3>2
    <3>5. Below(c, b)
      BY <2>0, <3>2, <3>3, <3>4, BelowMore
    <3>6. Below(c, b)'
      BY <2>0, <2>1, <3>2, <3>3, <3>4, <3>5
    <3>7. Below(state.clientId, LastAllocated)'
      BY <3>2, <3>3, <3>4, <3>6 DEF Below
    <3>8. LastId(walFile') <= LastAllocated'
      BY <2>0, <2>8, <3>2
    <3> QED
      BY <3>7, <3>8
  <2> QED
    BY <2>3, <2>6, <2>7, <2>9, <2>10 DEF Allocation
<1> QED
  BY <1>1, <1>2

-----------------------------------------------------------------------------
(* The server's side of the order. *)

\* What the server works on.
LEMMA BatchInHand ==
  ASSUME TypeInv, OrderInv, rx # << >>
  PROVE  /\ rx \in Frames /\ Range(rx) \subseteq InFlight
         /\ rx \in Seq(Message) /\ Increasing(rx) /\ Len(rx) \in Nat \ {0}
         /\ rx[1] \in Range(rx) /\ rx[1].clientId \in ClientIds
         /\ \A m \in Range(rx) : m.clientId = rx[1].clientId /\ m.id <= LastId(rx)
         /\ \E m \in Range(rx) : m.id = LastId(rx)
         /\ LastId(rx) \in Int
<1>1. rx \in Frames /\ Range(rx) \subseteq InFlight
  BY DEF Frames, InFlight
<1>2. rx \in Seq(Message)
  BY DEF TypeInv, TypeOK, ServerTypeOK
<1>3. Increasing(rx) /\ SameClient(Range(rx))
  BY <1>1 DEF OrderInv, Identity
<1>4. Len(rx) \in Nat \ {0} /\ rx[1] \in Range(rx)
  BY <1>2, RangeIsElements
<1>5. rx[1].clientId \in ClientIds
  BY <1>2, <1>4, ElementAt, MessageFields
<1>6. /\ \A m \in Range(rx) : m.id <= LastId(rx)
      /\ \E m \in Range(rx) : m.id = LastId(rx)
      /\ LastId(rx) \in Int
  BY <1>2, <1>3, LastIdIsMax, BoundAssumption
<1>7. \A m \in Range(rx) : m.clientId = rx[1].clientId
  BY <1>3, <1>4 DEF SameClient
<1> QED
  BY <1>1, <1>2, <1>3, <1>4, <1>5, <1>6, <1>7

\* The server's steps, by what they do to the watermarks and the output.
LEMMA ServerStoreSteps ==
  ASSUME TypeInv, ServerMoves
  PROVE  \/ UNCHANGED <<dedup, dedupFile, output>>
         \/ ServerStart
         \/ ProcessMessage
         \/ PersistWatermark
         \/ ConfirmWatermarkFails
<1>1. CASE AcceptClient \/ ReceiveBatch \/ SendAck \/ ServerExit \/ ServerStopSignal \/ ServerCrash
  BY <1>1 DEF AcceptClient, ReceiveBatch, SendAck, ServerExit, ServerStopSignal,
              ServerCrash, dedupVars
<1>2. CASE SendAckFails \/ ClientDisconnects \/ ConnectionFails
  BY <1>2 DEF SendAckFails, ClientDisconnects, ConnectionFails, BackToAccept, dedupVars
<1> QED
  BY <1>1, <1>2 DEF ServerMoves, Server, ServerFault

\* The message the server looks at.
LEMMA NextInBatch ==
  ASSUME TypeInv, ProcessMessage
  PROVE  /\ rx # << >> /\ pos + 1 \in 1 .. Len(rx) /\ rx[pos + 1] \in Range(rx)
         /\ rx[pos + 1] \in Message
<1>1. /\ rx \in Seq(Message) /\ pos \in Nat /\ pos < Len(rx)
  BY DEF ProcessMessage, TypeInv, TypeOK, ServerTypeOK, ServerShape
<1>2. /\ Len(rx) \in Nat /\ Range(rx) = {rx[i] : i \in 1 .. Len(rx)}
      /\ (rx = << >> <=> Len(rx) = 0) /\ Range(rx) \subseteq Message
  BY <1>1, RangeIsElements
<1>3. pos + 1 \in 1 .. Len(rx) /\ Len(rx) # 0
  BY <1>1, <1>2
<1> QED
  BY <1>2, <1>3

\* A watermark that the server stores was the ID of a message it was sent.
LEMMA ServerOnlyNew ==
  ASSUME TypeInv, OrderInv, ServerMoves
  PROVE  /\ OnlyNew({}) /\ Pipe' = Pipe /\ FrameOrder'
         /\ InFlight' \subseteq InFlight
         /\ output \subseteq output' /\ output' \subseteq output \cup Range(rx)
<1>1. Frames' \subseteq Frames \cup {<< >>}
  BY ServerFrames
<1>2. InFlight' \subseteq InFlight /\ FrameOrder'
  BY <1>1, EmptyRun DEF FrameOrder, InFlight, SameClient, OrderInv, Identity
<1>3. Pipe' = Pipe
  BY DEF ServerMoves, ClientIdle, clientVars, producerVars, queueVars, consumerVars, Pipe
<1>4. \A c \in ClientIds : /\ dedup[c] \in Int /\ dedupFile[c] \in Int
                           /\ Reached(c, dedup[c]) /\ Reached(c, dedupFile[c])
  <2>1. \A c \in ClientIds : dedup[c] \in Int /\ dedupFile[c] \in Int
    BY BoundAssumption DEF TypeInv, TypeOK, DedupTypeOK
  <2> QED
    BY <2>1 DEF Reached
<1>5. output \subseteq output' /\ output' \subseteq output \cup Range(rx)
  <2>1. CASE ProcessMessage
    BY <2>1, NextInBatch DEF ProcessMessage
  <2>2. CASE ServerStart \/ PersistWatermark \/ ConfirmWatermarkFails
    BY <2>2 DEF ServerStart, PersistWatermark, ConfirmWatermarkFails, BackToAccept
  <2> QED
    BY <2>1, <2>2, ServerStoreSteps
<1>6. Known' \subseteq Known
  BY <1>2, <1>3, <1>5 DEF Known, InFlight, Frames
<1>7. \A c \in ClientIds : Reached(c, dedup'[c]) /\ Reached(c, dedupFile'[c])
  <2>1. CASE UNCHANGED <<dedup, dedupFile>>
    BY <1>4, <2>1
  <2>2. CASE ServerStart
    BY <1>4, <2>2 DEF ServerStart, DedupLoad
  <2>3. CASE PersistWatermark \/ ConfirmWatermarkFails
    <3>1. rx # << >>
      BY <2>3 DEF PersistWatermark, ConfirmWatermarkFails, TypeInv, ServerShape
    <3>2. PICK c \in ClientIds : c = rx[1].clientId
      BY <3>1, BatchInHand
    <3>3. latest \in Int /\ Reached(c, latest)
      <4>1. latest \in Int
        BY BoundAssumption DEF TypeInv, TypeOK, ServerTypeOK
      <4>2. latest <= dedup[c] \/ latest <= LastId(rx)
        BY <3>1, <3>2 DEF OrderInv, LatestBound
      <4>3. PICK m \in Range(rx) : m.id = LastId(rx)
        BY <3>1, BatchInHand
      <4>4. m \in Known /\ m.clientId = c
        BY <3>1, <3>2, BatchInHand DEF Known
      <4> QED
        BY <4>1, <4>2, <4>3, <4>4 DEF Reached
    <3>4. \A d \in ClientIds : Reached(d, [dedup EXCEPT ![c] = latest][d])
      BY <1>4, <3>3 DEF TypeInv, TypeOK, DedupTypeOK
    <3>5. /\ dedup' \in {dedup, [dedup EXCEPT ![c] = latest]}
          /\ dedupFile' \in {dedupFile, [dedup EXCEPT ![c] = latest]}
      BY <2>3, <3>2 DEF PersistWatermark, ConfirmWatermarkFails, DedupConfirm,
                        DedupConfirmFails, dedupVars
    <3> QED
      BY <1>4, <3>4, <3>5
  <2>4. CASE ProcessMessage
    BY <2>1, <2>4 DEF ProcessMessage, dedupVars
  <2> QED
    BY <2>1, <2>2, <2>3, <2>4, ServerStoreSteps
<1> QED
  BY <1>2, <1>3, <1>5, <1>6, <1>7 DEF OnlyNew

\* The server does not run ahead of the batch it is working on.
LEMMA ServerLatest ==
  ASSUME TypeInv, OrderInv, ServerMoves
  PROVE  LatestBound'
<1>0. \A c \in ClientIds : dedup[c] \in Int
  BY BoundAssumption DEF TypeInv, TypeOK, DedupTypeOK
<1>1. CASE rx' = << >>
  BY <1>1 DEF LatestBound
<1>2. CASE UNCHANGED <<rx, latest, dedup>>
  BY <1>2 DEF OrderInv, LatestBound
<1>3. CASE ReceiveBatch
  <2>1. /\ rx' = conns[1].frame /\ rx' # << >> /\ dedup' = dedup
        /\ latest' = dedup[rx'[1].clientId] /\ rx' \in Seq(Message)
    <3>1. rx' = conns[1].frame /\ rx' # << >> /\ dedup' = dedup
      BY <1>3 DEF ReceiveBatch, ServerReceive, dedupVars
    <3>2. 1 \in 1 .. Len(conns)
      BY <1>3, EmptyIffLen, LenProperties
         DEF ReceiveBatch, TypeInv, TypeOK, NetTypeOK, ServerShape, Serving
    <3>3. rx' \in Seq(Message)
      BY <3>1, <3>2, KnownTypes DEF Connection
    <3> QED
      BY <1>3, <3>1, <3>3 DEF ReceiveBatch, highestConfirmed
  <2>2. rx'[1].clientId \in ClientIds
    <3>1. rx'[1] \in Range(rx')
      BY <2>1, RangeIsElements
    <3> QED
      BY <2>1, <3>1, ElementAt, MessageFields
  <2> QED
    BY <1>0, <2>1, <2>2 DEF LatestBound
<1>4. CASE ProcessMessage
  <2>1. rx # << >> /\ rx[pos + 1] \in Range(rx) /\ rx' = rx /\ dedup' = dedup
    BY <1>4, NextInBatch DEF ProcessMessage, dedupVars
  <2>2. latest' = latest \/ latest' = rx[pos + 1].id
    BY <1>4 DEF ProcessMessage
  <2>3. rx[pos + 1].id <= LastId(rx)
    BY <2>1, BatchInHand
  <2> QED
    BY <2>1, <2>2, <2>3 DEF OrderInv, LatestBound
<1>5. CASE PersistWatermark
  <2>1. rx # << >> /\ UNCHANGED <<rx, latest>> /\ DedupConfirm(rx[1].clientId, latest)
    BY <1>5 DEF PersistWatermark, TypeInv, ServerShape
  <2>2. rx[1].clientId \in ClientIds
    BY <2>1, BatchInHand
  <2>3. dedup' = dedup \/ dedup' = [dedup EXCEPT ![rx[1].clientId] = latest]
    BY <2>1 DEF DedupConfirm, dedupVars
  <2>4. latest \in Int
    BY BoundAssumption DEF TypeInv, TypeOK, ServerTypeOK
  <2>5. CASE dedup' = [dedup EXCEPT ![rx[1].clientId] = latest]
    <3>1. dedup'[rx[1].clientId] = latest
      BY <2>2, <2>5 DEF TypeInv, TypeOK, DedupTypeOK
    <3> QED
      BY <2>1, <2>4, <3>1 DEF LatestBound
  <2> QED
    BY <1>2, <2>1, <2>3, <2>5
<1>6. CASE ServerStart \/ AcceptClient \/ ServerExit
  BY <1>1, <1>6 DEF ServerStart, AcceptClient, ServerExit, TypeInv, ServerShape
<1>7. CASE SendAck \/ ServerCrash
  BY <1>1, <1>7 DEF SendAck, ServerCrash, NoBatch
<1>8. CASE SendAckFails \/ ClientDisconnects \/ ConnectionFails \/ ConfirmWatermarkFails
  BY <1>1, <1>8 DEF SendAckFails, ClientDisconnects, ConnectionFails,
                    ConfirmWatermarkFails, BackToAccept, NoBatch
<1>9. CASE ServerStopSignal
  BY <1>2, <1>9 DEF ServerStopSignal, dedupVars
<1> QED
  BY <1>3, <1>4, <1>5, <1>6, <1>7, <1>8, <1>9 DEF ServerMoves, Server, ServerFault

\* Steps of the server keep the order of IDs.
LEMMA ServerOrder ==
  ASSUME TypeInv, TypeInv', OrderInv, ServerMoves
  PROVE  OrderInv'
<1>0. WalShape /\ PipeOrder /\ Identity /\ Allocation
  BY DEF OrderInv
<1>1. UNCHANGED <<walFile, pending, walTail, proc, ppc, state, stateFile, usedIds,
                  sending, queue, messages>>
  BY DEF ServerMoves, ClientIdle, clientVars, producerVars, queueVars, consumerVars,
         walVars, stateVars
<1>2. OnlyNew({}) /\ Pipe' = Pipe /\ FrameOrder'
  BY ServerOnlyNew
<1>3. WalShape' /\ PipeOrder'
  BY <1>0, <1>1 DEF WalShape, PipeOrder, Ordered
<1>4. Identity'
  BY <1>0, <1>1, <1>2 DEF Identity, FrameOrder, StateExists
<1>5. Allocation'
  <2>1. \A c \in ClientIds, b \in Int : Below(c, b) => Below(c, b)'
    BY <1>2, BelowKept
  <2>2. /\ \A m \in Range(walFile) \cup Range(pending) : m.clientId \in ClientIds
        /\ LastId(walFile) \in Int /\ LastId(pending) \in Int
    BY ElementAt, MessageFields, LastIdType, BoundAssumption DEF TypeInv, TypeOK, WalTypeOK
  <2>3. /\ StateExists => stateFile.clientId \in ClientIds
        /\ stateFile.nextId - 1 \in Int /\ LastAllocated \in Int
        /\ proc = "up" => state.clientId \in ClientIds
    <3>1. state.nextId \in 1 .. MaxUint64 /\ stateFile.nextId \in 1 .. MaxUint64
      BY DEF TypeInv, TypeOK, StateTypeOK, ClientStateType
    <3>2. stateFile.nextId - 1 \in Int /\ LastAllocated \in Int
      BY <3>1, BoundAssumption DEF LastAllocated
    <3>3. StateExists => stateFile.clientId \in ClientIds
      BY DEF StateExists, TypeInv, TypeOK, StateTypeOK, ClientStateType
    <3> QED
      BY <3>2, <3>3 DEF TypeInv, ClientShape
  <2>4. LastAllocated' = LastAllocated /\ StateExists' = StateExists
    BY <1>1 DEF LastAllocated, StateExists
  <2>5. \A c \in ClientIds \ usedIds' : Below(c, 0)'
    BY <1>0, <1>1, <2>1 DEF Allocation
  <2>6. \A m \in Range(walFile') : Below(m.clientId, LastId(walFile))'
    <3> SUFFICES ASSUME NEW m \in Range(walFile') PROVE Below(m.clientId, LastId(walFile))'
      OBVIOUS
    <3>1. PICK b \in Int : b = LastId(walFile)
      BY <2>2
    <3>2. Below(m.clientId, b)'
      BY <1>0, <1>1, <2>1, <2>2, <3>1 DEF Allocation
    <3> QED
      BY <1>1, <3>1, <3>2 DEF Below
  <2>7. \A m \in Range(pending') : Below(m.clientId, LastId(pending))'
    <3> SUFFICES ASSUME NEW m \in Range(pending') PROVE Below(m.clientId, LastId(pending))'
      OBVIOUS
    <3>1. PICK b \in Int : b = LastId(pending)
      BY <2>2
    <3>2. Below(m.clientId, b)'
      BY <1>0, <1>1, <2>1, <2>2, <3>1 DEF Allocation
    <3> QED
      BY <1>1, <3>1, <3>2 DEF Below
  <2>8. StateExists' => Below(stateFile.clientId, stateFile.nextId - 1)'
    <3> SUFFICES ASSUME StateExists' PROVE Below(stateFile.clientId, stateFile.nextId - 1)'
      OBVIOUS
    <3>1. PICK b \in Int : b = stateFile.nextId - 1
      BY <2>3
    <3>2. PICK c \in ClientIds : c = stateFile.clientId
      BY <2>3, <2>4
    <3>3. Below(c, b)'
      BY <1>0, <2>1, <2>4, <3>1, <3>2 DEF Allocation
    <3> QED
      BY <1>1, <3>1, <3>2, <3>3 DEF Below
  <2>9. proc' = "up" => Below(state.clientId, LastAllocated)'
    <3> SUFFICES ASSUME proc' = "up" PROVE Below(state.clientId, LastAllocated)'
      OBVIOUS
    <3>1. PICK b \in Int : b = LastAllocated
      BY <2>3
    <3>2. PICK c \in ClientIds : c = state.clientId
      BY <1>1, <2>3
    <3>3. Below(c, b)'
      BY <1>0, <1>1, <2>1, <3>1, <3>2 DEF Allocation
    <3> QED
      BY <1>1, <2>4, <3>1, <3>2, <3>3 DEF Below
  <2> QED
    BY <1>0, <1>1, <2>4, <2>5, <2>6, <2>7, <2>8, <2>9 DEF Allocation
<1>6. LatestBound'
  BY ServerLatest
<1> QED
  BY <1>3, <1>4, <1>5, <1>6 DEF OrderInv

\* Steps of the client keep the order of IDs.
LEMMA ClientOrder ==
  ASSUME TypeInv, TypeInv', OrderInv, ClientMoves
  PROVE  OrderInv'
<1>1. PipeOrder'
  <2>0. PipeOrder
    BY DEF OrderInv
  <2>1. CASE ~ AppendMessage /\ ~ StartState
    BY <2>0, <2>1, ClientPipe
  <2>2. CASE AppendMessage
    <3>1. /\ UNCHANGED <<sending, queue>> /\ ppc = "append"
          /\ messages' = Append(messages, NewMessage)
      BY <2>2 DEF AppendMessage, ProducerUnchanged, consumerVars, queueVars
    <3>2. NewMessage \in Message /\ \A n \in Pipe : n.id < NewMessage.id
      BY <3>1, NewMessageFacts
    <3>3. messages \in Seq(Message) /\ \A n \in Range(messages) : n.id < NewMessage.id
      BY <3>2 DEF TypeInv, TypeOK, ClientTypeOK, Pipe
    <3>4. Increasing(messages') /\ Range(messages') = Range(messages) \cup {NewMessage}
      BY <2>0, <3>1, <3>2, <3>3, IncreasingAppend DEF PipeOrder
    <3> QED
      BY <2>0, <3>1, <3>2, <3>4 DEF PipeOrder, Ordered, Pipe
  <2>3. CASE StartState
    <3>1. /\ UNCHANGED <<queue, messages>> /\ sending' = pending
          /\ queue = << >> /\ messages = << >>
      BY <2>3 DEF StartState, queueVars, TypeInv, ClientShape
    <3>2. Increasing(pending)
      BY DEF OrderInv, WalShape
    <3> QED
      BY <3>1, <3>2, EmptyRun DEF PipeOrder, Ordered
  <2> QED
    BY <2>1, <2>2, <2>3
<1>2. LatestBound'
  BY ClientFrames DEF OrderInv, LatestBound
<1> QED
  BY <1>1, <1>2, ClientWalShape, ClientIdentity, ClientAllocation DEF OrderInv

-----------------------------------------------------------------------------
\* Before the first start there are no messages to be in order.
LEMMA OrderInit ==
  ASSUME Init
  PROVE  OrderInv
<1>1. /\ walFile = << >> /\ pending = << >> /\ walTail = "clean" /\ proc = "down"
      /\ sending = << >> /\ queue = << >> /\ messages = << >> /\ rx = << >>
      /\ conns = << >> /\ output = {} /\ usedIds = {} /\ dedup = NoWatermarks
      /\ dedupFile = NoWatermarks /\ stateFile = NoState
  BY DEF Init, ClientInit, WalInit, StateInit, NetInit, DedupInit, ServerInit
<1>2. Frames = {<< >>} /\ InFlight = {} /\ Pipe = {}
  BY <1>1, EmptyRun DEF Frames, InFlight, Pipe
<1>3. WalShape /\ PipeOrder
  BY <1>1, EmptyRun DEF WalShape, PipeOrder, Ordered
<1>4. ~ StateExists
  BY <1>1 DEF StateExists, NoState
<1>5. Identity
  BY <1>1, <1>2, <1>4, EmptyRun DEF Identity, SameClient
<1>6. \A c \in ClientIds : Below(c, 0)
  BY <1>1, <1>2 DEF Below, NoWatermarks
<1>7. Allocation
  BY <1>1, <1>4, <1>6, EmptyRun DEF Allocation
<1>8. LatestBound
  BY <1>1 DEF LatestBound
<1> QED
  BY <1>3, <1>5, <1>7, <1>8 DEF OrderInv

\* The IDs in the WAL, in the threads' hands, in frames and in the server's
\* table are those of one client each, in order, and below the next ID that
\* any restart will allocate.
THEOREM OrderInvariance == Spec => []OrderInv
<1>1. Init => OrderInv
  BY OrderInit
<1>2. TypeInv /\ TypeInv' /\ OrderInv /\ [Next]_vars => OrderInv'
  <2> SUFFICES ASSUME TypeInv, TypeInv', OrderInv, [Next]_vars PROVE OrderInv'
    OBVIOUS
  <2>1. CASE UNCHANGED vars
    <3>1. UNCHANGED <<walFile, pending, walTail, proc, ppc, state, stateFile, usedIds,
                      sending, queue, messages, rx, latest, conns, output, dedup, dedupFile>>
      BY <2>1 DEF vars, clientVars, producerVars, queueVars, consumerVars, walVars,
                  stateVars, netVars, dedupVars, serverVars
    <3> QED
      BY <3>1
         DEF OrderInv, WalShape, PipeOrder, Ordered, Identity, Allocation, LatestBound,
             Below, LastAllocated, StateExists, InFlight, Frames, Pipe
  <2> QED
    BY <2>1, ClientOrder, ServerOrder, NextMoves
<1> QED
  BY <1>1, <1>2, TypeInvariance, PTL DEF Spec

\* Neither constructor ever refuses the files: whatever crash or failing write
\* came before, the WAL is in order, of one client, without garbage in its
\* middle, and of the client that the state file names.
THEOREM RestartNeverRefusedAlways == Spec => []RestartNeverRefused
<1>1. TypeInv /\ OrderInv => RestartNeverRefused
  <2> SUFFICES ASSUME TypeInv, OrderInv PROVE RestartNeverRefused
    OBVIOUS
  <2>0. walFile \in Seq(Message) /\ pending \in Seq(Message)
    BY DEF TypeInv, TypeOK, WalTypeOK
  <2>1. Range(walFile) # {} => walFile[1] \in Range(walFile)
    BY <2>0, RangeIsElements
  <2>2. WalLoadable
    BY <2>1 DEF WalLoadable, OrderInv, WalShape, Identity, SameClient
  <2>3. ASSUME proc = "loading" PROVE StateLoadable(pending)
    <3>1. pending = walFile
      BY <2>3 DEF OrderInv, WalShape
    <3>2. LastId(pending) # MaxUint64
      BY <2>0, LastIdType, BoundAssumption
    <3>3. \A m \in Range(pending) :
             m.clientId = IF StateExists THEN stateFile.clientId
                                         ELSE pending[1].clientId
      BY <2>1, <3>1 DEF OrderInv, Identity, SameClient
    <3> QED
      BY <3>2, <3>3 DEF StateLoadable
  <2> QED
    BY <2>2, <2>3 DEF RestartNeverRefused
<1> QED
  BY <1>1, TypeInvariance, OrderInvariance, PTL

-----------------------------------------------------------------------------
(* The processes and their queue. *)

\* A process that is not up has no stop flag set and no closed queue left over
\* from an earlier run.
Fresh == proc # "up" => ~ running /\ ~ closed

\* RunningMeansWorking speaks of a client that says it is running; it is kept
\* because whoever leaves a loop or closes the queue has seen, or has made,
\* running false.
Liveliness == Fresh /\ RunningMeansWorking

\* The client's steps.
LEMMA ClientLively ==
  ASSUME ClientSideType, Liveliness,
         \/ WriteLine \/ Main \/ StopSignal \/ Crash \/ LoseState
         \/ Producer \/ ProducerFault
         \/ Consumer \/ SendFails \/ ConfirmFails
  PROVE  Liveliness'
<1>0. /\ proc = "up" \/ (ppc = "off" /\ cpc = "off")
      /\ running \in BOOLEAN
      /\ closed \in BOOLEAN
  BY DEF ClientSideType, ClientTypeOK, ClientShape
<1> USE DEF Liveliness, Fresh, RunningMeansWorking
<1>1. CASE WriteLine \/ LoseState
  BY <1>1 DEF WriteLine, LoseState, clientVars, producerVars, queueVars, consumerVars
<1>2. CASE Main \/ StopSignal \/ Crash
  <2>1. CASE StartWal \/ StopSignal \/ MainClose
    BY <2>1 DEF StartWal, StopSignal, MainClose, producerVars, queueVars, consumerVars
  <2>2. CASE StartState
    BY <2>2 DEF StartState, queueVars
  <2>3. CASE Exit \/ Crash
    BY <2>3 DEF Exit, Crash, ClientGone
  <2> QED
    BY <1>2, <2>1, <2>2, <2>3 DEF Main
<1>3. CASE Producer \/ ProducerFault
  <2> USE DEF ProducerUnchanged, queueVars, consumerVars
  <2>1. CASE ReadNewLines \/ AllocId \/ AppendMessage \/ Checkpoint \/ PushMessage
    BY <1>0, <2>1 DEF ReadNewLines, AllocId, AppendMessage, Checkpoint, PushMessage
  <2>2. CASE ProducerLeavesLoop \/ PushRefused \/ ProducerClose
    BY <1>0, <2>2 DEF ProducerLeavesLoop, PushRefused, ProducerClose
  <2>3. CASE AllocExhausted \/ AppendOversized \/ ProducerFault
    <3>1. ProducerThrows /\ ppc # "off"
      BY <2>3 DEF AllocExhausted, AppendOversized, ProducerFault, ReadFails,
                  AllocFails, AppendFails, CheckpointFails
    <3> QED
      BY <1>0, <3>1 DEF ProducerThrows
  <2> QED
    BY <1>3, <2>1, <2>2, <2>3 DEF Producer
<1>4. CASE Consumer \/ SendFails \/ ConfirmFails
  <2>0. UNCHANGED <<proc, running, ppc>>
    <3>1. ConsumerUnchanged
      BY <1>4 DEF Consumer, LoopAgain, ConsumerLeavesLoop, PopBatch, TakeFromQueue,
                  BatchDeadline, PopClosed, Connect, ConnectFails, SendBatch,
                  SendToClosed, ReceiveAck, ServerClosed, AckTimesOut, ConfirmBatch,
                  RetryDelivery, AbandonDelivery, SendFails, ConfirmFails,
                  ConsumerEnds, DeliveryThrows
    <3> QED
      BY <3>1 DEF ConsumerUnchanged, producerVars
  <2>1. CASE ConsumerLeavesLoop \/ PopClosed \/ AbandonDelivery
    BY <1>0, <2>0, <2>1 DEF ConsumerLeavesLoop, PopClosed, AbandonDelivery, ConsumerEnds
  <2>2. CASE ~ (ConsumerLeavesLoop \/ PopClosed \/ AbandonDelivery)
    <3>1. cpc' \notin {"off", "done"} /\ UNCHANGED closed
      BY <1>4, <2>2
         DEF Consumer, LoopAgain, PopBatch, TakeFromQueue, BatchDeadline, Connect,
             ConnectFails, SendBatch, SendToClosed, ReceiveAck, ServerClosed,
             AckTimesOut, ConfirmBatch, RetryDelivery, SendFails, ConfirmFails,
             DeliveryThrows, queueVars
    <3> QED
      BY <2>0, <3>1
  <2> QED
    BY <2>1, <2>2
<1> QED
  BY <1>1, <1>2, <1>3, <1>4

\* A client that says it is running has both its threads at work: no thread
\* ends, and nobody closes the queue, before the flag is down.
THEOREM RunningMeansWorkingAlways == Spec => []RunningMeansWorking
<1>1. Init => Liveliness
  BY DEF Init, ClientInit, Liveliness, Fresh, RunningMeansWorking
<1>2. TypeInv /\ Liveliness /\ [Next]_vars => Liveliness'
  <2> SUFFICES ASSUME TypeInv, Liveliness, [Next]_vars PROVE Liveliness'
    OBVIOUS
  <2>1. ClientSideType
    BY DEF TypeInv, TypeOK, ClientSideType
  <2>2. ASSUME ClientIdle PROVE Liveliness'
    BY <2>2 DEF ClientIdle, clientVars, producerVars, queueVars, consumerVars,
                Liveliness, Fresh, RunningMeansWorking
  <2>3. CASE LogGrows \/ MainStep \/ ProducerStep \/ ConsumerStep \/ ServerStep
    BY <2>1, <2>2, <2>3, ClientLively
       DEF LogGrows, MainStep, ProducerStep, ConsumerStep, ServerStep
  <2>4. CASE Fault
    BY <2>1, <2>2, <2>4, ClientLively DEF Fault, ClientFault
  <2>5. CASE UNCHANGED vars
    <3>1. ClientIdle
      BY <2>5 DEF vars, ClientIdle
    <3> QED
      BY <2>2, <3>1
  <2> QED
    BY <2>3, <2>4, <2>5 DEF Next
<1>3. Liveliness => RunningMeansWorking
  BY DEF Liveliness
<1> QED
  BY <1>1, <1>2, <1>3, TypeInvariance, PTL DEF Spec

-----------------------------------------------------------------------------
(* What has been printed: the client's steps. *)

\* A consumer that is at work was at work before, and a producer that has ended
\* its loop does not begin again; it confirms only after it has read an ACK.
LEMMA ClientControl ==
  ASSUME TypeInv, ClientMoves, ~ StartState
  PROVE  /\ cpc' \notin {"off", "done"} =>
               /\ cpc \notin {"off", "done"}
               /\ ppc \in {"closing", "done"} => ppc' \in {"closing", "done"}
         /\ cpc' = "confirm" => /\ UNCHANGED sending
                                /\ cpc = "confirm" \/ (cpc = "await" /\ inbox # << >>)
<1>1. CASE WriteLine \/ StartWal \/ StopSignal \/ MainClose \/ LoseState
  BY <1>1 DEF WriteLine, StartWal, StopSignal, MainClose, LoseState, clientVars,
              producerVars, consumerVars
<1>2. CASE Exit \/ Crash
  BY <1>2 DEF Exit, Crash, ClientGone
<1>3. CASE Producer
  BY <1>3 DEF Producer, ReadNewLines, ProducerLeavesLoop, AllocId, AllocExhausted,
              AppendMessage, AppendOversized, Checkpoint, PushMessage, PushRefused,
              ProducerClose, ProducerThrows, ProducerUnchanged, consumerVars
<1>4. CASE ProducerFault
  BY <1>4 DEF ProducerFault, ReadFails, AllocFails, AppendFails, CheckpointFails,
              ProducerThrows, ProducerUnchanged, consumerVars
<1>5. CASE Consumer \/ SendFails \/ ConfirmFails
  <2>0. ConsumerUnchanged
    BY <1>5 DEF Consumer, LoopAgain, ConsumerLeavesLoop, PopBatch, TakeFromQueue,
                BatchDeadline, PopClosed, Connect, ConnectFails, SendBatch,
                SendToClosed, ReceiveAck, ServerClosed, AckTimesOut, ConfirmBatch,
                RetryDelivery, AbandonDelivery, SendFails, ConfirmFails,
                ConsumerEnds, DeliveryThrows
  <2>1. ppc' = ppc
    BY <2>0 DEF ConsumerUnchanged, producerVars
  <2>2. CASE \/ LoopAgain \/ PopBatch \/ BatchDeadline \/ Connect \/ SendBatch
             \/ ConfirmBatch \/ RetryDelivery
    BY <2>1, <2>2 DEF LoopAgain, PopBatch, TakeFromQueue, BatchDeadline, Connect,
                      SendBatch, AtSend, ConfirmBatch, RetryDelivery
  <2>3. CASE ConsumerLeavesLoop \/ PopClosed \/ AbandonDelivery
    BY <2>3 DEF ConsumerLeavesLoop, PopClosed, AbandonDelivery, ConsumerEnds
  <2>4. CASE \/ ConnectFails \/ SendToClosed \/ SendFails \/ ServerClosed
             \/ AckTimesOut \/ ConfirmFails
    BY <2>1, <2>4 DEF ConnectFails, SendToClosed, SendFails, AtSend, ServerClosed,
                      AckTimesOut, ConfirmFails, DeliveryThrows
  <2>5. CASE ReceiveAck
    BY <2>1, <2>5 DEF ReceiveAck, DeliveryThrows
  <2> QED
    BY <1>5, <2>2, <2>3, <2>4, <2>5 DEF Consumer
<1> QED
  BY <1>1, <1>2, <1>3, <1>4, <1>5 DEF ClientMoves, Main

\* What the client acts on stays covered by the watermark.
LEMMA ClientAckCovered ==
  ASSUME TypeInv, TypeInv', ConnInv, OrderInv, AckCovered, ClientMoves
  PROVE  AckCovered'
<1> SUFFICES ASSUME inbox' # << >> \/ cpc' = "confirm"
             PROVE  LastId(Batch)' <= dedup'[state'.clientId]
  BY DEF AckCovered
<1>1. dedup' = dedup
  BY ClientFrames
<1>2. /\ inbox # << >> \/ cpc = "confirm"
      /\ UNCHANGED sending
      /\ cpc' \in {"await", "confirm"}
      /\ cpc \in {"await", "confirm"}
  <2>0. inbox # << >> => cpc = "await"
    BY DEF ConnInv, Exchange
  <2>1. ASSUME cpc' = "confirm"
        PROVE  UNCHANGED sending /\ (cpc = "confirm" \/ (cpc = "await" /\ inbox # << >>))
    <3>1. ~ StartState
      BY <2>1 DEF StartState
    <3> QED
      BY <2>1, <3>1, ClientControl
  <2>2. ASSUME inbox' # << >>
        PROVE  UNCHANGED sending /\ inbox # << >> /\ cpc' \in {"await", "confirm"}
    <3>1. CASE UNCHANGED netVars /\ (cpc # "await" \/ UNCHANGED <<cpc, sending>>)
      BY <2>0, <2>2, <3>1 DEF netVars
    <3>2. CASE ClientClose \/ Connect
      BY <2>2, <3>2 DEF ClientClose, Connect, ClientConnect
    <3>3. CASE SendBatch
      BY <2>0, <2>2, <3>3 DEF SendBatch, ClientSend, AtSend
    <3>4. CASE ReceiveAck /\ Head(inbox) = LastId(Batch)
      BY <3>4 DEF ReceiveAck
    <3> QED
      BY <3>1, <3>2, <3>3, <3>4, ClientNetSteps DEF ClientMoves
  <2> QED
    BY <2>0, <2>1, <2>2
<1>3. proc' = "up" /\ proc = "up"
  BY <1>2 DEF TypeInv, ClientShape
<1>4. state'.clientId = state.clientId
  BY <1>3, StateEffects DEF StartState, LoseState
<1>5. LastId(Batch)' = LastId(Batch)
  BY <1>2 DEF Batch
<1> QED
  BY <1>1, <1>2, <1>4, <1>5 DEF AckCovered

\* A message that enters the WAL has an ID above the client's watermarks.
LEMMA ClientDedup ==
  ASSUME TypeInv, OrderInv, DedupNeverSwallows, ClientMoves
  PROVE  DedupNeverSwallows'
<1>1. UNCHANGED <<output, dedup, dedupFile>>
  BY ClientFrames
<1> SUFFICES ASSUME NEW m \in Range(walFile'),
                    m.id <= dedup[m.clientId] \/ m.id <= dedupFile[m.clientId]
             PROVE  m \in output
  BY <1>1 DEF DedupNeverSwallows
<1>2. CASE m \in Range(walFile)
  BY <1>2 DEF DedupNeverSwallows
<1>3. CASE ppc = "append" /\ m = NewMessage
  <2>1. /\ m.id = state.nextId - 1 /\ m.clientId = state.clientId /\ proc = "up"
        /\ LastAllocated = state.nextId - 2
    BY <1>3, NewMessageFacts
  <2>2. /\ Below(state.clientId, LastAllocated) /\ state.nextId \in Int
        /\ state.clientId \in ClientIds
    BY <2>1, RunningIdentity
  <2>3. dedup[m.clientId] \in Int /\ dedupFile[m.clientId] \in Int
    BY <2>1, <2>2, BoundAssumption DEF TypeInv, TypeOK, DedupTypeOK
  <2> QED
    BY <2>1, <2>2, <2>3 DEF Below
<1> QED
  BY <1>2, <1>3, WalWithin

\* A new message lies above all frames of its client; a batch that is sent is
\* the low end of what the consumer has left.
LEMMA ClientFrameClosed ==
  ASSUME TypeInv, OrderInv, FrameClosed, PipeClosed, ClientMoves
  PROVE  FrameClosed'
<1>1. output' = output
  BY ClientFrames
<1> SUFFICES ASSUME NEW F \in Frames', NEW m \in Range(walFile'), NEW n \in Range(F),
                    m.clientId = n.clientId, m.id <= LastId(F)
             PROVE  m \in Range(F) \cup output
  BY <1>1 DEF FrameClosed
<1>2. CASE F \in Frames /\ m \in Range(walFile)
  BY <1>2 DEF FrameClosed
<1>3. CASE F \in Frames /\ ppc = "append" /\ m = NewMessage
  <2>1. /\ m.id = state.nextId - 1 /\ m.clientId = state.clientId /\ proc = "up"
        /\ LastAllocated = state.nextId - 2
    BY <1>3, NewMessageFacts
  <2>2. Below(state.clientId, LastAllocated) /\ state.nextId \in Int
    BY <2>1, RunningIdentity
  <2>3. F \in Seq(Message) /\ Increasing(F) /\ SameClient(Range(F))
    BY <1>3, KnownTypes DEF OrderInv, Identity
  <2>4. F # << >>
    BY EmptyRun
  <2>5. PICK k \in Range(F) : k.id = LastId(F)
    BY <2>3, <2>4, LastIdIsMax
  <2>6. k.clientId = state.clientId /\ k \in InFlight /\ k.id \in Int
    BY <1>3, <2>1, <2>3, <2>5, ElementAt DEF SameClient, InFlight
  <2> QED
    BY <2>1, <2>2, <2>5, <2>6 DEF Below
<1>4. CASE SendBatch /\ F = Batch
  <2>1. /\ walFile' = walFile /\ cpc \notin {"off", "done"} /\ sending # << >>
        /\ sending \in Seq(Message) /\ queue \in Seq(Message) /\ messages \in Seq(Message)
    BY <1>4 DEF SendBatch, AtSend, walVars, TypeInv, TypeOK, ClientTypeOK, ClientShape
  <2>2. /\ Batch \in Seq(Message) /\ Batch # << >> /\ Increasing(Batch)
        /\ Range(Batch) = {x \in Range(sending) : x.id <= LastId(Batch)}
        /\ LastId(Batch) \in MessageId
    BY <2>1, BatchOrder DEF OrderInv, PipeOrder
  <2>3. PICK k \in Range(Batch) : k.id = LastId(Batch)
    BY <2>2, LastIdIsMax
  <2>4. k \in Range(sending) /\ k \in Pipe
    BY <2>2, <2>3 DEF Pipe
  <2>5. m.id \in Int /\ k.id \in Int
    BY <2>1, <2>4, ElementAt DEF TypeInv, TypeOK, WalTypeOK
  <2>6. m \in Pipe \cup output
    BY <1>4, <2>1, <2>3, <2>4, <2>5 DEF PipeClosed
  <2>7. m \notin Range(queue) \cup Range(messages)
    BY <1>4, <2>3, <2>4, <2>5 DEF OrderInv, PipeOrder, Ordered
  <2> QED
    BY <1>4, <2>2, <2>6, <2>7 DEF Pipe
<1>5. F # << >>
  BY EmptyRun
<1>6. SendBatch => walFile' = walFile
  BY DEF SendBatch, walVars
<1> QED
  BY <1>2, <1>3, <1>4, <1>5, <1>6, ClientFrames, WalWithin

\* What the consumer will not send comes after all that it will.
LEMMA ClientPipeClosed ==
  ASSUME TypeInv, TypeInv', OrderInv, DedupNeverSwallows, PipeClosed, AckCovered,
         ClientMoves
  PROVE  PipeClosed'
<1>1. output' = output
  BY ClientFrames
<1> SUFFICES ASSUME cpc' \notin {"off", "done"}, NEW m \in Range(walFile')
             PROVE  \/ m \in Pipe' \cup output
                    \/ ppc' \in {"closing", "done"} /\ \A n \in Pipe' : n.id < m.id
  BY <1>1 DEF PipeClosed
<1>2. PipeOrder /\ (proc = "up" => \A n \in Pipe : n.clientId = state.clientId) /\ FrameOrder
  BY DEF OrderInv, Identity, FrameOrder
<1>3. CASE StartState
  BY <1>2, <1>3, ClientOnlyNew, StartFacts
<1>4. CASE AppendMessage
  <2>1. ppc = "append" /\ cpc \notin {"off", "done"} /\ ~ StartState
    BY <1>4 DEF AppendMessage, ProducerUnchanged, consumerVars, StartState, TypeInv, ClientShape
  <2>2. Pipe' = Pipe \cup {NewMessage} /\ Range(walFile') = Range(walFile) \cup {NewMessage}
    BY <1>2, <1>4, <2>1, ClientOnlyNew, NewMessageFacts, WalEffects
  <2> QED
    BY <2>1, <2>2 DEF PipeClosed
<1>5. CASE ~ StartState /\ ~ AppendMessage
  <2>1. Pipe' \subseteq Pipe /\ PipeLoss
    BY <1>2, <1>5, ClientPipe
  <2>2. /\ cpc \notin {"off", "done"}
        /\ ppc \in {"closing", "done"} => ppc' \in {"closing", "done"}
    BY <1>5, ClientControl
  <2>3. CASE m \in Range(walFile) /\ m \notin Pipe
    BY <2>1, <2>2, <2>3 DEF PipeClosed
  <2>4. CASE m \in Range(walFile) /\ m \in Pipe /\ m \notin Pipe'
    <3>1. CASE /\ UNCHANGED <<sending, queue>>
               /\ m \in Range(messages) /\ messages' = << >>
               /\ ppc' \in {"closing", "done"}
      BY <1>2, <3>1, EmptyRun DEF Pipe, PipeOrder, Ordered
    <3>2. CASE ConfirmBatch /\ m \in Range(Batch)
      <4>1. cpc = "confirm" /\ proc = "up" /\ sending # << >> /\ sending \in Seq(Message)
        BY <3>2 DEF ConfirmBatch, TypeInv, TypeOK, ClientTypeOK, ClientShape
      <4>2. m.clientId = state.clientId
        BY <2>4, <4>1, RunningIdentity
      <4>3. m.id <= LastId(Batch) /\ LastId(Batch) \in Int
        BY <1>2, <3>2, <4>1, BatchOrder, BoundAssumption DEF PipeOrder, MessageId
      <4>4. LastId(Batch) <= dedup[m.clientId]
        BY <4>1, <4>2 DEF AckCovered
      <4>5. m.id \in Int /\ m.clientId \in ClientIds
        BY <2>4, ElementAt, MessageFields DEF TypeInv, TypeOK, WalTypeOK
      <4>6. dedup[m.clientId] \in Int
        BY <4>5, BoundAssumption DEF TypeInv, TypeOK, DedupTypeOK
      <4> QED
        BY <2>4, <4>3, <4>4, <4>5, <4>6 DEF DedupNeverSwallows
    <3> QED
      BY <2>1, <2>4, <3>1, <3>2 DEF PipeLoss
  <2>5. CASE m \notin Range(walFile)
    <3>1. /\ ppc = "append" /\ walFile' = Append(walFile, NewMessage)
          /\ AppendFails \/ proc' = "down"
      BY <1>5, <2>5, WalEffects, KeptFacts
    <3>2. m = NewMessage
      BY <2>5, <3>1, NewMessageFacts
    <3>3. AppendFails
      BY <3>1 DEF TypeInv, ClientShape
    <3>4. ppc' = "closing"
      BY <3>3 DEF AppendFails, ProducerThrows
    <3> QED
      BY <2>1, <3>1, <3>2, <3>4, NewMessageFacts
  <2> QED
    BY <2>3, <2>4, <2>5
<1> QED
  BY <1>3, <1>4, <1>5

\* The client keeps all of it.
LEMMA ClientPrint ==
  ASSUME TypeInv, TypeInv', ConnInv, OrderInv, PrintInv, ClientMoves
  PROVE  PrintInv'
<1>1. /\ DedupNeverSwallows /\ FrameClosed /\ PipeClosed /\ Processed /\ FileCovers
      /\ AckCovered
  BY DEF PrintInv
<1>2. Processed' /\ FileCovers'
  BY <1>1, ClientFrames DEF Processed, FileCovers
<1> QED
  BY <1>1, <1>2, ClientDedup, ClientFrameClosed, ClientPipeClosed, ClientAckCovered
     DEF PrintInv

-----------------------------------------------------------------------------
(* What has been printed: the server's steps. *)

\* The watermarks in the process never fall, not even at a restart, because the
\* file is never behind them.
LEMMA ServerWatermarks ==
  ASSUME TypeInv, OrderInv, FileCovers, ServerMoves
  PROVE  /\ \A c \in ClientIds : dedup[c] <= dedup'[c]
         /\ FileCovers'
         /\ \A c \in ClientIds : \A b \in {dedup'[c], dedupFile'[c]} :
               \/ b = dedup[c] \/ b = dedupFile[c]
               \/ rx # << >> /\ spc = "persist" /\ c = rx[1].clientId /\ b = latest
<1>0. /\ \A c \in ClientIds : dedup[c] \in Int /\ dedupFile[c] \in Int
      /\ DOMAIN dedup = ClientIds
      /\ latest \in Int
  BY BoundAssumption DEF TypeInv, TypeOK, DedupTypeOK, ServerTypeOK
<1>1. CASE UNCHANGED <<dedup, dedupFile>>
  BY <1>0, <1>1 DEF FileCovers
<1>2. CASE ServerStart
  BY <1>0, <1>2 DEF ServerStart, DedupLoad, FileCovers
<1>3. CASE PersistWatermark \/ ConfirmWatermarkFails
  <2>1. spc = "persist" /\ rx # << >>
    BY <1>3 DEF PersistWatermark, ConfirmWatermarkFails, TypeInv, ServerShape
  <2>2. PICK d \in ClientIds : d = rx[1].clientId
    BY <2>1, BatchInHand
  <2> DEFINE new == [dedup EXCEPT ![d] = latest]
  <2>3. \A c \in ClientIds : new[c] = IF c = d THEN latest ELSE dedup[c]
    BY <1>0
  <2>4. \/ UNCHANGED <<dedup, dedupFile>>
        \/ latest > dedup[d] /\ dedupFile' = new /\ dedup' \in {new, dedup}
    <3>1. CASE PersistWatermark
      BY <1>0, <2>2, <3>1 DEF PersistWatermark, DedupConfirm, dedupVars
    <3>2. CASE ConfirmWatermarkFails
      BY <2>2, <3>2 DEF ConfirmWatermarkFails, DedupConfirmFails
    <3> QED
      BY <1>3, <3>1, <3>2
  <2> HIDE DEF new
  <2>5. CASE latest > dedup[d] /\ dedupFile' = new /\ dedup' \in {new, dedup}
    BY <1>0, <2>1, <2>2, <2>3, <2>5 DEF FileCovers
  <2> QED
    BY <1>1, <2>4, <2>5
<1>4. CASE ProcessMessage
  BY <1>1, <1>4 DEF ProcessMessage, dedupVars
<1> QED
  BY <1>1, <1>2, <1>3, <1>4, ServerStoreSteps

\* A new watermark belongs to a batch that has been processed to its end.
LEMMA ServerDedup ==
  ASSUME TypeInv, OrderInv, DedupNeverSwallows, FrameClosed, Processed, FileCovers,
         ServerMoves
  PROVE  DedupNeverSwallows'
<1>1. walFile' = walFile /\ output \subseteq output'
  BY ServerOnlyNew DEF ServerMoves, ClientIdle, walVars
<1> SUFFICES ASSUME NEW m \in Range(walFile), NEW b \in {dedup'[m.clientId], dedupFile'[m.clientId]},
                    m.id <= b
             PROVE  m \in output
  BY <1>1 DEF DedupNeverSwallows
<1>2. m.clientId \in ClientIds /\ m.id \in Int
  BY ElementAt, MessageFields DEF TypeInv, TypeOK, WalTypeOK
<1>3. CASE b = dedup[m.clientId] \/ b = dedupFile[m.clientId]
  BY <1>3 DEF DedupNeverSwallows
<1>4. CASE rx # << >> /\ spc = "persist" /\ m.clientId = rx[1].clientId /\ b = latest
  <2>1. /\ rx \in Frames /\ rx \in Seq(Message) /\ rx[1] \in Range(rx)
        /\ LastId(rx) \in Int
    BY <1>4, BatchInHand
  <2>2. latest \in Int /\ dedup[m.clientId] \in Int
    BY <1>2, BoundAssumption DEF TypeInv, TypeOK, DedupTypeOK, ServerTypeOK
  <2>3. CASE m.id <= dedup[m.clientId]
    BY <2>3 DEF DedupNeverSwallows
  <2>4. CASE m.id > dedup[m.clientId]
    <3>1. m.id <= LastId(rx)
      BY <1>2, <1>4, <2>1, <2>2, <2>4 DEF OrderInv, LatestBound
    <3>2. m \in Range(rx) \cup output
      BY <1>4, <2>1, <3>1 DEF FrameClosed
    <3>3. pos = Len(rx)
      BY <1>4 DEF TypeInv, ServerShape
    <3>4. ASSUME m \in Range(rx) PROVE m \in output
      <4>1. PICK j \in 1 .. Len(rx) : m = rx[j]
        BY <2>1, <3>4, ElementAt
      <4> QED
        BY <1>2, <1>4, <2>2, <2>4, <3>3, <4>1 DEF Processed
    <3> QED
      BY <3>2, <3>4
  <2> QED
    BY <1>2, <2>2, <2>3, <2>4
<1> QED
  BY <1>2, <1>3, <1>4, ServerWatermarks

\* Progress through the batch: every message passed is printed or below the
\* watermark, and the watermark reaches the last one before the ACK.
LEMMA ServerProcessed ==
  ASSUME TypeInv, OrderInv, FileCovers, Processed, ServerMoves
  PROVE  Processed'
<1>0. output \subseteq output' /\ pos \in Nat
  BY ServerOnlyNew DEF TypeInv, TypeOK, ServerTypeOK
<1>1. CASE rx' = << >>
  BY <1>1 DEF Processed
<1>2. CASE ServerStopSignal
  <2>1. UNCHANGED <<rx, pos, latest, dedup, spc>>
    BY <1>2 DEF ServerStopSignal, dedupVars
  <2> QED
    BY <1>0, <2>1 DEF Processed
<1>3. CASE ReceiveBatch
  BY <1>3 DEF ReceiveBatch, Processed
<1>4. CASE ProcessMessage
  <2>1. /\ rx # << >> /\ pos + 1 \in 1 .. Len(rx) /\ UNCHANGED <<rx, dedup>>
        /\ pos' = pos + 1 /\ spc' # "ack"
    BY <1>4, NextInBatch DEF ProcessMessage, dedupVars
  <2>2. \/ rx[pos + 1].id <= dedup[rx[1].clientId]
        \/ rx[pos + 1] \in output' /\ latest' = rx[pos + 1].id
    BY <1>4 DEF ProcessMessage, highestConfirmed
  <2>3. \A j \in 1 .. pos : rx[j] \in output \/ rx[j].id <= dedup[rx[1].clientId]
    BY <2>1 DEF Processed
  <2>4. \A j \in 1 .. pos + 1 : j = pos + 1 \/ j \in 1 .. pos
    BY <1>0
  <2>5. \A j \in 1 .. pos + 1 : rx[j] \in output' \/ rx[j].id <= dedup[rx[1].clientId]
    BY <1>0, <2>2, <2>3, <2>4
  <2> QED
    BY <2>1, <2>2, <2>5 DEF Processed
<1>5. CASE PersistWatermark
  <2>1. /\ UNCHANGED <<rx, pos, latest, output>> /\ rx # << >> /\ pos = Len(rx)
        /\ DedupConfirm(rx[1].clientId, latest)
    BY <1>5 DEF PersistWatermark, TypeInv, ServerShape
  <2>2. PICK c \in ClientIds : c = rx[1].clientId
    BY <2>1, BatchInHand
  <2>3. /\ dedup[c] \in Int /\ latest \in Int /\ DOMAIN dedup = ClientIds
        /\ dedup'[c] \in Int /\ dedup[c] <= dedup'[c] /\ latest <= dedup'[c]
    <3>1. dedup[c] \in Int /\ latest \in Int /\ DOMAIN dedup = ClientIds
      BY BoundAssumption DEF TypeInv, TypeOK, DedupTypeOK, ServerTypeOK
    <3> QED
      BY <2>1, <2>2, <3>1 DEF DedupConfirm, dedupVars
  <2>4. /\ Len(rx) \in Nat \ {0} /\ rx \in Seq(Message)
        /\ \A j \in 1 .. Len(rx) : rx[j].id \in Int
        /\ LastId(rx) = rx[Len(rx)].id
    <3>1. Len(rx) \in Nat \ {0} /\ rx \in Seq(Message)
      BY <2>1, BatchInHand
    <3>2. \A j \in 1 .. Len(rx) : rx[j].id \in Int
      BY <3>1, RangeIsElements, ElementAt
    <3> QED
      BY <2>1, <3>1, <3>2 DEF LastId
  <2>5. \A j \in 1 .. pos : rx[j] \in output' \/ rx[j].id <= dedup'[c]
    BY <2>1, <2>2, <2>3, <2>4 DEF Processed
  <2>6. rx[pos].id <= dedup'[c]
    BY <2>1, <2>2, <2>3, <2>4 DEF Processed
  <2> QED
    BY <2>1, <2>2, <2>4, <2>5, <2>6 DEF Processed
<1>6. CASE ServerStart \/ AcceptClient \/ ServerExit
  BY <1>1, <1>6 DEF ServerStart, AcceptClient, ServerExit, TypeInv, ServerShape
<1>7. CASE SendAck \/ ServerCrash
  BY <1>1, <1>7 DEF SendAck, ServerCrash, NoBatch
<1>8. CASE SendAckFails \/ ClientDisconnects \/ ConnectionFails \/ ConfirmWatermarkFails
  BY <1>1, <1>8 DEF SendAckFails, ClientDisconnects, ConnectionFails,
                    ConfirmWatermarkFails, BackToAccept, NoBatch
<1> QED
  BY <1>2, <1>3, <1>4, <1>5, <1>6, <1>7, <1>8 DEF ServerMoves, Server, ServerFault

\* An ACK reaches the client only from a server that has its present batch in
\* hand and has persisted the watermark of it.
LEMMA ServerAckCovered ==
  ASSUME TypeInv, ConnInv, OrderInv, FileCovers, Processed, AckCovered, ServerMoves
  PROVE  AckCovered'
<1>1. UNCHANGED <<cpc, sending, state, proc>>
  BY DEF ServerMoves, ClientIdle, clientVars, consumerVars, stateVars
<1> SUFFICES ASSUME inbox' # << >> \/ cpc = "confirm"
             PROVE  LastId(Batch) <= dedup'[state.clientId]
  BY <1>1 DEF AckCovered, Batch
<1>2. /\ LastId(Batch) <= dedup[state.clientId]
      /\ cpc \in {"await", "confirm"}
  <2>1. CASE inbox' = inbox \/ cpc = "confirm"
    BY <2>1 DEF AckCovered, ConnInv, Exchange
  <2>2. CASE SendAck /\ conns[1].open
    <3>1. Answering /\ spc = "ack" /\ rx # << >>
      BY <2>2 DEF SendAck, Answering, Serving, TypeInv, ServerShape
    <3>2. cpc = "await" /\ rx = Batch
      BY <3>1 DEF ConnInv, Exchange
    <3>3. LastId(rx) <= dedup[rx[1].clientId]
      BY <3>1 DEF Processed
    <3>4. rx[1] \in Pipe
      <4>1. rx[1] \in Range(Batch)
        BY <3>1, <3>2, BatchInHand
      <4>2. sending \in Seq(Message) /\ sending # << >> /\ Increasing(sending)
        BY <3>2 DEF TypeInv, TypeOK, ClientTypeOK, ClientShape, OrderInv, PipeOrder
      <4> QED
        BY <4>1, <4>2, BatchOrder DEF Pipe
    <3>5. rx[1].clientId = state.clientId
      BY <3>2, <3>4, RunningIdentity DEF TypeInv, ClientShape
    <3> QED
      BY <3>2, <3>3, <3>5
  <2>3. inbox' = inbox \/ (SendAck /\ conns[1].open)
    <3>1. CASE \/ ServerStart \/ AcceptClient \/ ReceiveBatch \/ ProcessMessage
               \/ PersistWatermark \/ ServerExit \/ ServerStopSignal \/ ServerCrash
      BY <3>1 DEF ServerStart, ServerListen, AcceptClient, ReceiveBatch, ServerReceive,
                  ProcessMessage, PersistWatermark, ServerExit, ServerStopSignal,
                  ServerCrash, ServerCloseAll, netVars
    <3>2. CASE SendAckFails \/ ClientDisconnects \/ ConnectionFails \/ ConfirmWatermarkFails
      BY <3>2 DEF SendAckFails, ClientDisconnects, ConnectionFails, ConfirmWatermarkFails,
                  BackToAccept, ServerCloseClient, netVars
    <3>3. CASE SendAck
      BY <3>3 DEF SendAck, ServerAck
    <3> QED
      BY <3>1, <3>2, <3>3 DEF ServerMoves, Server, ServerFault
  <2> QED
    BY <2>1, <2>2, <2>3
<1>3. state.clientId \in ClientIds
  BY <1>2 DEF TypeInv, ClientShape
<1>4. dedup[state.clientId] <= dedup'[state.clientId] /\ dedup[state.clientId] \in Int
  BY <1>3, ServerWatermarks, BoundAssumption DEF TypeInv, TypeOK, DedupTypeOK
<1>5. dedup'[state.clientId] \in Int /\ LastId(Batch) \in Int
  <2>1. sending \in Seq(Message) /\ sending # << >> /\ Increasing(sending)
    BY <1>2 DEF TypeInv, TypeOK, ClientTypeOK, ClientShape, OrderInv, PipeOrder
  <2>2. LastId(Batch) \in Int
    BY <2>1, BatchOrder, BoundAssumption DEF MessageId
  <2>3. dedupFile[state.clientId] \in Int /\ latest \in Int
    BY <1>3, BoundAssumption DEF TypeInv, TypeOK, DedupTypeOK, ServerTypeOK
  <2> QED
    BY <1>3, <1>4, <2>2, <2>3, ServerWatermarks
<1> QED
  BY <1>2, <1>4, <1>5

\* The server keeps all of it.
LEMMA ServerPrint ==
  ASSUME TypeInv, ConnInv, OrderInv, PrintInv, ServerMoves
  PROVE  PrintInv'
<1>1. /\ DedupNeverSwallows /\ FrameClosed /\ PipeClosed /\ Processed /\ FileCovers
      /\ AckCovered
  BY DEF PrintInv
<1>2. /\ UNCHANGED <<walFile, cpc, ppc>>
      /\ Pipe' = Pipe /\ output \subseteq output'
      /\ Frames' \subseteq Frames \cup {<< >>}
  BY ServerOnlyNew, ServerFrames
     DEF ServerMoves, ClientIdle, clientVars, producerVars, consumerVars, walVars
<1>3. FrameClosed'
  BY <1>1, <1>2, EmptyRun DEF FrameClosed
<1>4. PipeClosed'
  BY <1>1, <1>2 DEF PipeClosed
<1> QED
  BY <1>1, <1>3, <1>4, ServerDedup, ServerProcessed, ServerWatermarks, ServerAckCovered
     DEF PrintInv

\* The frames and the hands of the consumer leave out no message of the WAL
\* that is not printed, so the watermark never passes one.
THEOREM PrintInvariance == Spec => []PrintInv
<1>1. Init => PrintInv
  <2> SUFFICES ASSUME Init PROVE PrintInv
    OBVIOUS
  <2>1. /\ walFile = << >> /\ cpc = "off" /\ inbox = << >> /\ rx = << >>
        /\ dedup = NoWatermarks /\ dedupFile = NoWatermarks
    BY DEF Init, ClientInit, WalInit, NetInit, DedupInit, ServerInit
  <2>2. FileCovers
    BY <2>1 DEF FileCovers, NoWatermarks
  <2> QED
    BY <2>1, <2>2, EmptyRun
       DEF PrintInv, DedupNeverSwallows, FrameClosed, PipeClosed, Processed, AckCovered
<1>2. TypeInv /\ TypeInv' /\ ConnInv /\ OrderInv /\ PrintInv /\ [Next]_vars => PrintInv'
  <2> SUFFICES ASSUME TypeInv, TypeInv', ConnInv, OrderInv, PrintInv, [Next]_vars
               PROVE  PrintInv'
    OBVIOUS
  <2>1. CASE UNCHANGED vars
    <3>1. UNCHANGED <<walFile, cpc, ppc, sending, queue, messages, state, conns, inbox,
                      rx, pos, latest, spc, output, dedup, dedupFile>>
      BY <2>1 DEF vars, clientVars, producerVars, queueVars, consumerVars, walVars,
                  stateVars, netVars, dedupVars, serverVars
    <3> QED
      BY <3>1
         DEF PrintInv, DedupNeverSwallows, FrameClosed, Frames, PipeClosed, Pipe,
             Processed, FileCovers, AckCovered, Batch
  <2> QED
    BY <2>1, NextMoves, ClientPrint, ServerPrint
<1> QED
  BY <1>1, <1>2, TypeInvariance, ConnInvariance, OrderInvariance, PTL DEF Spec

\* A message of the WAL at or below the server's watermark, which the server
\* would skip without a word, has been printed.
THEOREM DedupNeverSwallowsAlways == Spec => []DedupNeverSwallows
<1>1. PrintInv => DedupNeverSwallows
  BY DEF PrintInv
<1> QED
  BY <1>1, PrintInvariance, PTL

\* What the client is told to forget is durable at the server.
THEOREM AckedIsDurableAlways == Spec => []AckedIsDurable
<1>1. TypeInv /\ ConnInv /\ OrderInv /\ PrintInv => AckedIsDurable
  <2> SUFFICES ASSUME TypeInv, ConnInv, OrderInv, PrintInv,
                      inbox # << >> \/ cpc = "confirm"
               PROVE  /\ \A a \in Range(inbox) : a <= dedupFile[state.clientId]
                      /\ LastId(Batch) <= dedupFile[state.clientId]
    <3>1. Range(<< >>) = {}
      BY EmptyRun
    <3> QED
      BY <3>1 DEF AckedIsDurable
  <2>1. cpc \in {"await", "confirm"} /\ (inbox # << >> => inbox = <<LastId(Batch)>>)
    BY DEF ConnInv, Exchange
  <2>2. LastId(Batch) <= dedup[state.clientId]
    BY DEF PrintInv, AckCovered
  <2>3. state.clientId \in ClientIds /\ LastId(Batch) \in Int
    <3>1. sending \in Seq(Message) /\ sending # << >> /\ Increasing(sending)
      BY <2>1 DEF TypeInv, TypeOK, ClientTypeOK, ClientShape, OrderInv, PipeOrder
    <3> QED
      BY <2>1, <3>1, BatchOrder, BoundAssumption DEF MessageId, TypeInv, ClientShape
  <2>4. dedup[state.clientId] \in Int /\ dedupFile[state.clientId] \in Int
    BY <2>3, BoundAssumption DEF TypeInv, TypeOK, DedupTypeOK
  <2>5. LastId(Batch) <= dedupFile[state.clientId]
    BY <2>2, <2>3, <2>4 DEF PrintInv, FileCovers
  <2>6. \A a \in Range(inbox) : a = LastId(Batch)
    <3>1. CASE inbox = << >>
      BY <3>1, EmptyRun
    <3>2. CASE inbox = <<LastId(Batch)>>
      BY <3>2 DEF Range
    <3> QED
      BY <2>1, <3>1, <3>2
  <2> QED
    BY <2>5, <2>6
<1> QED
  BY <1>1, TypeInvariance, ConnInvariance, OrderInvariance, PrintInvariance, PTL

-----------------------------------------------------------------------------
(* What is safe. *)

\* A message that is safe is in pending.wal or has been printed.
LEMMA KeptOnDisk ==
  ASSUME OrderInv
  PROVE  Safe \subseteq Range(walFile) \cup output
BY DEF Safe, Kept, OrderInv, WalShape

\* A message that a confirm drops from memory has been printed.
LEMMA ConfirmedIsPrinted ==
  ASSUME TypeInv, OrderInv, PrintInv, cpc = "confirm",
         NEW m \in Range(pending), m \notin Range(Unconfirmed(pending, LastId(Batch)))
  PROVE  m \in output
<1>1. /\ sending \in Seq(Message) /\ sending # << >> /\ Increasing(sending)
      /\ proc = "up" /\ state.clientId \in ClientIds
  BY DEF TypeInv, TypeOK, ClientTypeOK, ClientShape, OrderInv, PipeOrder
<1>2. LastId(Batch) \in Int
  BY <1>1, BatchOrder, BoundAssumption DEF MessageId
<1>3. m.id \in Int /\ m.clientId = state.clientId /\ m \in Range(walFile)
  BY <1>1, RunningIdentity, ElementAt DEF TypeInv, TypeOK, WalTypeOK, OrderInv, WalShape
<1>4. m.id <= LastId(Batch)
  BY <1>2, <1>3, KeptFacts
<1>5. dedup[state.clientId] \in Int /\ LastId(Batch) <= dedup[state.clientId]
  BY <1>1, BoundAssumption DEF PrintInv, AckCovered, TypeInv, TypeOK, DedupTypeOK
<1> QED
  BY <1>2, <1>3, <1>4, <1>5 DEF PrintInv, DedupNeverSwallows

\* Nothing safe is ever given up: not by a crash, a failing write, a restart or
\* a compaction of the WAL.
LEMMA ClientKeepsSafe ==
  ASSUME TypeInv, OrderInv, PrintInv, ClientMoves
  PROVE  Safe \subseteq Safe'
<1>0. output' = output /\ Range(pending) \subseteq Range(walFile)
  BY ClientFrames DEF OrderInv, WalShape
<1> SUFFICES Kept \subseteq Kept' \cup output
  BY <1>0 DEF Safe
<1>1. CASE \/ FilesQuiet \/ AllocId \/ AllocFails \/ Checkpoint \/ CheckpointFails
           \/ LoseState
  <2>1. UNCHANGED <<walFile, pending, proc>>
    BY <1>1 DEF FilesQuiet, AllocId, AllocFails, Checkpoint, CheckpointFails, LoseState,
                ProducerThrows, ProducerUnchanged, walVars, clientVars
  <2> QED
    BY <2>1 DEF Kept
<1>2. CASE ConfirmBatch \/ ConfirmFails
  <2>1. /\ cpc = "confirm" /\ proc = "up" /\ proc' = "up"
        /\ \/ pending' = pending
           \/ pending' = Unconfirmed(pending, LastId(Batch))
    BY <1>2 DEF ConfirmBatch, ConfirmFails, DeliveryThrows, ConsumerUnchanged, WalConfirm,
                WalConfirmFails, walVars, TypeInv, ClientShape
  <2> QED
    BY <2>1, ConfirmedIsPrinted DEF Kept
<1>3. CASE AppendMessage \/ AppendFails
  <2>1. ppc = "append" /\ proc = "up" /\ proc' = "up"
    BY <1>3 DEF AppendMessage, AppendFails, ProducerThrows, ProducerUnchanged, TypeInv,
                ClientShape
  <2>2. pending' = pending \/ Range(pending') = Range(pending) \cup {NewMessage}
    BY <1>3, <2>1, NewMessageFacts DEF AppendMessage, WalAppend, AppendFails, WalAppendFails
  <2> QED
    BY <2>1, <2>2 DEF Kept
<1>4. CASE StartWal
  BY <1>4 DEF StartWal, WalLoad, Kept
<1>5. CASE StartState
  BY <1>5 DEF StartState, walVars, Kept
<1>6. CASE Exit \/ Crash
  <2>1. proc # "down" /\ proc' = "down"
    BY <1>6 DEF Exit, Crash, ClientGone
  <2>2. Range(walFile) \subseteq Range(walFile')
    <3>1. \/ walFile' = walFile
          \/ ppc = "append" /\ walFile' = Append(walFile, NewMessage)
      BY <1>6 DEF Exit, Crash, WalTornAppend
    <3> QED
      BY <3>1, NewMessageFacts
  <2> QED
    BY <1>0, <2>1, <2>2 DEF Kept
<1> QED
  BY <1>1, <1>2, <1>3, <1>4, <1>5, <1>6, ClientFileSteps

\* Where the producer and the checkpoint move.
LEMMA ClientPositions ==
  ASSUME TypeInv, ClientMoves
  PROVE  /\ \/ stateFile'.fileOffset \in {0, stateFile.fileOffset}
            \/ proc = "up" /\ stateFile'.fileOffset \in {state.fileOffset, cur}
         /\ proc' = "up" =>
              \/ /\ StartState
                 /\ cur' = stateFile.fileOffset /\ state'.fileOffset = stateFile.fileOffset
              \/ /\ proc = "up"
                 /\ cur' = cur /\ state'.fileOffset \in {state.fileOffset, cur}
              \/ /\ proc = "up" /\ AppendMessage
                 /\ cur' = cur + 1 /\ state' = state
<1>0. /\ state \in ClientStateType /\ stateFile \in ClientStateType
      /\ proc # "up" => ppc = "off" /\ cpc = "off"
      /\ ppc = "checkpoint" => cur = readPos
  BY DEF TypeInv, TypeOK, StateTypeOK, ClientShape
<1>1. CASE FilesQuiet
  BY <1>1 DEF FilesQuiet, stateVars
<1>2. CASE ConfirmBatch \/ ConfirmFails
  BY <1>2 DEF ConfirmBatch, ConfirmFails, DeliveryThrows, ConsumerUnchanged, producerVars,
              stateVars
<1>3. CASE AllocId \/ AllocFails
  <2>1. /\ proc = "up" /\ cur' = cur /\ proc' = proc
        /\ stateFile' \in {stateFile, Allocated} /\ state' \in {state, Allocated}
    BY <1>0, <1>3 DEF AllocId, AllocFails, NextMessageId, NextMessageIdFails, Persist,
                      PersistFails, ProducerThrows, ProducerUnchanged
  <2>2. Allocated.fileOffset = state.fileOffset
    BY <1>0 DEF Allocated, ClientStateType
  <2> QED
    BY <2>1, <2>2
<1>4. CASE Checkpoint \/ CheckpointFails
  <2>1. /\ proc = "up" /\ cur' = cur /\ proc' = proc /\ cur = readPos
        /\ stateFile' \in {stateFile, AtOffset(cur)} /\ state' \in {state, AtOffset(cur)}
    BY <1>0, <1>4 DEF Checkpoint, CheckpointFails, UpdateFileCheckpoint,
                      UpdateFileCheckpointFails, Persist, PersistFails, stateVars,
                      ProducerThrows, ProducerUnchanged
  <2>2. AtOffset(cur).fileOffset = cur
    BY <1>0 DEF AtOffset, ClientStateType
  <2> QED
    BY <2>1, <2>2
<1>5. CASE AppendMessage \/ AppendFails
  BY <1>0, <1>5 DEF AppendMessage, AppendFails, ProducerThrows, ProducerUnchanged, stateVars
<1>6. CASE StartWal \/ LoseState
  BY <1>6 DEF StartWal, LoseState, NoState, clientVars, stateVars
<1>7. CASE StartState
  BY <1>7 DEF StartState, StateLoad
<1>8. CASE Exit \/ Crash
  BY <1>8 DEF Exit, Crash, ClientGone
<1> QED
  BY <1>1, <1>2, <1>3, <1>4, <1>5, <1>6, <1>7, <1>8, ClientFileSteps

\* The client's steps keep everything that is under way backed, and pass only
\* lines that are safe.
LEMMA ClientSafe ==
  ASSUME TypeInv, TypeInv', OrderInv, PrintInv, SafeInv, ClientMoves
  PROVE  SafeInv'
<1>1. Safe \subseteq Safe' /\ output' = output
  BY ClientKeepsSafe, ClientFrames
<1>2. Backed /\ LinesSafe /\ IdNeverReused
  BY DEF SafeInv
<1>3. PipeOrder /\ FrameOrder /\ (proc = "up" => \A n \in Pipe : n.clientId = state.clientId)
  BY DEF OrderInv, Identity, FrameOrder
<1>4. AppendMessage => /\ ppc = "append" /\ proc = "up" /\ NewMessage \in Safe'
                       /\ NewMessage.line = cur + 1
  <2> SUFFICES ASSUME AppendMessage
               PROVE  /\ ppc = "append" /\ proc = "up" /\ NewMessage \in Safe'
                      /\ NewMessage.line = cur + 1
    OBVIOUS
  <2>1. ppc = "append" /\ proc = "up" /\ proc' = "up" /\ pending' = Append(pending, NewMessage)
    BY DEF AppendMessage, ProducerUnchanged, WalAppend, TypeInv, ClientShape
  <2>2. NewMessage \in Range(pending')
    BY <2>1, NewMessageFacts
  <2> QED
    BY <2>1, <2>2 DEF Safe, Kept, NewMessage
<1>5. Backed'
  <2>1. CASE ~ AppendMessage /\ ~ StartState
    BY <1>1, <1>2, <1>3, <2>1, ClientOnlyNew DEF OnlyNew, Known, Backed, Safe
  <2>2. CASE AppendMessage
    BY <1>1, <1>2, <1>3, <1>4, <2>2, ClientOnlyNew DEF OnlyNew, Known, Backed, Safe
  <2>3. CASE StartState
    <3>1. Range(pending) \subseteq Safe'
      BY <1>1, <2>3 DEF StartState, Safe, Kept
    <3> QED
      BY <1>1, <1>2, <1>3, <2>3, <3>1, ClientOnlyNew DEF OnlyNew, Known, Backed, Safe
  <2> QED
    BY <2>1, <2>2, <2>3
<1>6. LinesSafe'
  <2>1. LinesOf(Safe) \subseteq LinesOf(Safe')
    BY <1>1 DEF LinesOf
  <2>2. /\ cur \in Nat /\ state.fileOffset \in Nat /\ stateFile.fileOffset \in Nat
    BY BoundAssumption
       DEF TypeInv, TypeOK, ClientTypeOK, StateTypeOK, ClientStateType
  <2>3. proc = "up" => 1 .. state.fileOffset \subseteq LinesOf(Safe)
    BY <1>2, <2>2 DEF LinesSafe
  <2>4. 1 .. stateFile'.fileOffset \subseteq LinesOf(Safe')
    <3>1. 1 .. 0 = {}
      OBVIOUS
    <3> QED
      BY <1>2, <2>1, <2>3, <3>1, ClientPositions DEF LinesSafe
  <2>5. ASSUME proc' = "up"
        PROVE  state'.fileOffset <= cur' /\ 1 .. cur' \subseteq LinesOf(Safe')
    <3>1. CASE StartState /\ cur' = stateFile.fileOffset /\ state'.fileOffset = stateFile.fileOffset
      BY <1>2, <2>1, <2>2, <3>1 DEF LinesSafe
    <3>2. CASE proc = "up" /\ cur' = cur /\ state'.fileOffset \in {state.fileOffset, cur}
      BY <1>2, <2>1, <2>2, <3>2 DEF LinesSafe
    <3>3. CASE proc = "up" /\ AppendMessage /\ cur' = cur + 1 /\ state' = state
      <4>1. cur + 1 \in LinesOf(Safe')
        BY <1>4, <3>3 DEF LinesOf
      <4>2. \A l \in 1 .. cur + 1 : l = cur + 1 \/ l \in 1 .. cur
        BY <2>2
      <4>3. 1 .. cur \subseteq LinesOf(Safe') /\ state.fileOffset <= cur
        BY <1>2, <2>1, <3>3 DEF LinesSafe
      <4> QED
        BY <2>2, <3>3, <4>1, <4>2, <4>3
    <3> QED
      BY <2>5, <3>1, <3>2, <3>3, ClientPositions
  <2> QED
    BY <2>4, <2>5 DEF LinesSafe
<1>7. IdNeverReused'
  <2>1. CASE Range(walFile') \subseteq Range(walFile)
    BY <1>1, <1>2, <2>1 DEF IdNeverReused
  <2>2. CASE ppc = "append" /\ Range(walFile') \subseteq Range(walFile) \cup {NewMessage}
    <3>1. \A n \in Range(walFile) \cup output :
             n.clientId = NewMessage.clientId => n.id # NewMessage.id
      <4>1. /\ NewMessage.id = state.nextId - 1 /\ NewMessage.clientId = state.clientId
            /\ proc = "up" /\ LastAllocated = state.nextId - 2
            /\ \A n \in Range(walFile) : n.id < NewMessage.id
        BY <2>2, NewMessageFacts
      <4>2. Below(state.clientId, LastAllocated) /\ state.nextId \in Int
        BY <4>1, RunningIdentity
      <4>3. \A n \in output : n.clientId = state.clientId => n.id <= state.nextId - 2
        BY <4>1, <4>2 DEF Below
      <4>4. \A n \in output \cup Range(walFile) : n.id \in Int
        BY KnownTypes, ElementAt DEF Known, TypeInv, TypeOK, WalTypeOK
      <4> QED
        BY <4>1, <4>2, <4>3, <4>4
    <3> QED
      BY <1>1, <1>2, <2>2, <3>1 DEF IdNeverReused
  <2> QED
    BY <2>1, <2>2, WalWithin
<1> QED
  BY <1>5, <1>6, <1>7 DEF SafeInv

\* The server prints only what the client still keeps or what is printed.
LEMMA ServerSafe ==
  ASSUME TypeInv, OrderInv, SafeInv, ServerMoves
  PROVE  SafeInv'
<1>1. UNCHANGED <<walFile, pending, proc, cur, state, stateFile>>
  BY DEF ServerMoves, ClientIdle, clientVars, producerVars, walVars, stateVars
<1>2. /\ Pipe' = Pipe /\ InFlight' \subseteq InFlight
      /\ output \subseteq output' /\ output' \subseteq output \cup Range(rx)
  BY ServerOnlyNew
<1>3. Safe \subseteq Safe'
  BY <1>1, <1>2 DEF Safe, Kept
<1>4. Backed'
  BY <1>2, <1>3 DEF SafeInv, Backed
<1>5. LinesSafe'
  <2>1. LinesOf(Safe) \subseteq LinesOf(Safe')
    BY <1>3 DEF LinesOf
  <2> QED
    BY <1>1, <2>1 DEF SafeInv, LinesSafe
<1>6. output' \subseteq Range(walFile) \cup output
  <2>1. Range(rx) \subseteq InFlight
    BY DEF InFlight, Frames
  <2> QED
    BY <1>2, <2>1, KeptOnDisk DEF SafeInv, Backed
<1>7. IdNeverReused'
  BY <1>1, <1>6 DEF SafeInv, IdNeverReused
<1> QED
  BY <1>4, <1>5, <1>7 DEF SafeInv

\* Every line behind the checkpoint, and every message under way, is kept or
\* printed.
THEOREM SafeInvariance == Spec => []SafeInv
<1>1. Init => SafeInv
  <2> SUFFICES ASSUME Init PROVE SafeInv
    OBVIOUS
  <2>1. /\ walFile = << >> /\ proc = "down" /\ rx = << >> /\ conns = << >>
        /\ sending = << >> /\ queue = << >> /\ messages = << >> /\ output = {}
        /\ stateFile = NoState
    BY DEF Init, ClientInit, WalInit, StateInit, NetInit, ServerInit
  <2>2. Frames = {<< >>} /\ InFlight = {} /\ Pipe = {}
    BY <2>1, EmptyRun DEF Frames, InFlight, Pipe
  <2>3. 1 .. stateFile.fileOffset = {}
    BY <2>1 DEF NoState
  <2> QED
    BY <2>1, <2>2, <2>3, EmptyRun DEF SafeInv, Backed, LinesSafe, IdNeverReused
<1>2. TypeInv /\ TypeInv' /\ OrderInv /\ PrintInv /\ SafeInv /\ [Next]_vars => SafeInv'
  <2> SUFFICES ASSUME TypeInv, TypeInv', OrderInv, PrintInv, SafeInv, [Next]_vars
               PROVE  SafeInv'
    OBVIOUS
  <2>1. CASE UNCHANGED vars
    <3>1. UNCHANGED <<walFile, pending, proc, cur, state, stateFile, sending, queue,
                      messages, conns, rx, output>>
      BY <2>1 DEF vars, clientVars, producerVars, queueVars, consumerVars, walVars,
                  stateVars, netVars, serverVars
    <3>2. UNCHANGED <<Safe, Pipe, InFlight>>
      BY <3>1 DEF Safe, Kept, Pipe, InFlight, Frames
    <3> QED
      BY <3>1, <3>2 DEF SafeInv, Backed, LinesSafe, IdNeverReused
  <2> QED
    BY <2>1, NextMoves, ClientSafe, ServerSafe
<1> QED
  BY <1>1, <1>2, TypeInvariance, OrderInvariance, PrintInvariance, PTL DEF Spec

\* A line before the durable checkpoint, which will not be read again, is in
\* the WAL file or printed.
LEMMA SafeMeansNotLost ==
  ASSUME OrderInv, SafeInv
  PROVE  NoLineLost
<1>1. LinesOf(Safe) \subseteq LinesOf(Range(walFile)) \cup LinesOf(output)
  BY KeptOnDisk DEF LinesOf
<1> QED
  BY <1>1 DEF SafeInv, LinesSafe, NoLineLost

\* No line is lost: at any moment, crashes and failing writes included, a line
\* that the client would not read again is in its WAL file or has been printed.
THEOREM NoLineLostAlways == Spec => []NoLineLost
<1>1. OrderInv /\ SafeInv => NoLineLost
  BY SafeMeansNotLost
<1> QED
  BY <1>1, OrderInvariance, SafeInvariance, PTL

\* The same (client, ID) pair is never given to two messages that the server
\* could take for one another.
THEOREM IdNeverReusedAlways == Spec => []IdNeverReused
<1>1. SafeInv => IdNeverReused
  BY DEF SafeInv
<1> QED
  BY <1>1, SafeInvariance, PTL

-----------------------------------------------------------------------------
(* What the system as a whole implements. *)

\* A step of the client: a line is put into the WAL, lines leave it, or the
\* checkpoint moves.
LEMMA ClientRefines ==
  ASSUME TypeInv, TypeInv', OrderInv, OrderInv', SafeInv', ClientMoves
  PROVE  [Reliable!RNext]_(Reliable!rvars)
<1>1. output' = output
  BY ClientFrames
<1>2. NoLineLost'
  BY SafeMeansNotLost, PTL
<1>3. /\ stateFile'.fileOffset \in Line \cup {0} /\ stateFile.fileOffset \in Line \cup {0}
      /\ \A m \in Range(walFile) : m.line \in Line
  <2>1. \A n \in 0 .. MaxLine : n \in Line \cup {0}
    BY BoundAssumption DEF Line
  <2>2. stateFile'.fileOffset \in 0 .. MaxLine /\ stateFile.fileOffset \in 0 .. MaxLine
    BY DEF TypeInv, TypeOK, StateTypeOK, ClientStateType
  <2>3. \A m \in Range(walFile) : m.line \in Line
    BY ElementAt, MessageFields DEF TypeInv, TypeOK, WalTypeOK
  <2> QED
    BY <2>1, <2>2, <2>3
<1>4. CASE walFile' = walFile
  <2>1. 1 .. stateFile'.fileOffset \subseteq LinesOf(Range(walFile)) \cup LinesOf(output)
    BY <1>1, <1>2, <1>4 DEF NoLineLost
  <2>2. Reliable!MoveTo
    BY <1>1, <1>3, <1>4, <2>1 DEF Reliable!MoveTo, Reliable!Covered
  <2> QED
    BY <2>2 DEF Reliable!RNext
<1>5. CASE ppc = "append" /\ walFile' = Append(walFile, NewMessage) /\ stateFile' = stateFile
  <2>1. /\ Range(walFile') = Range(walFile) \cup {NewMessage} /\ NewMessage \in Message
    BY <1>5, NewMessageFacts
  <2>2. NewMessage.line \in Line
    BY <2>1, MessageFields
  <2>3. LinesOf(Range(walFile')) = LinesOf(Range(walFile)) \cup {NewMessage.line}
    BY <2>1 DEF LinesOf
  <2>4. Reliable!Hold
    BY <1>1, <1>5, <2>2, <2>3 DEF Reliable!Hold
  <2> QED
    BY <2>4 DEF Reliable!RNext
<1>6. CASE Range(walFile') \subseteq Range(walFile) /\ stateFile' = stateFile
  <2>1. LinesOf(Range(walFile')) \subseteq LinesOf(Range(walFile))
    BY <1>6 DEF LinesOf
  <2>2. ASSUME NEW l \in LinesOf(Range(walFile)), l \notin LinesOf(Range(walFile'))
        PROVE  l \in LinesOf(output) \/ l > stateFile.fileOffset
    <3>1. l \in Nat \ {0} /\ stateFile.fileOffset \in Nat
      BY <1>3, <2>2, BoundAssumption DEF LinesOf, Line
    <3> QED
      BY <1>1, <1>2, <1>6, <2>2, <3>1 DEF NoLineLost
  <2>3. Reliable!LetGo
    BY <1>1, <1>6, <2>1, <2>2 DEF Reliable!LetGo
  <2> QED
    BY <2>3 DEF Reliable!RNext
<1>7. walFile' # walFile => stateFile' = stateFile
  <2>1. CASE FilesQuiet \/ AllocId \/ AllocFails \/ Checkpoint \/ CheckpointFails
    BY <2>1 DEF FilesQuiet, AllocId, AllocFails, Checkpoint, CheckpointFails, walVars
  <2>2. CASE StartWal \/ StartState \/ LoseState
    BY <2>2 DEF StartWal, WalLoad, StartState, LoseState, walVars
  <2>3. CASE ConfirmBatch \/ ConfirmFails
    BY <2>3 DEF ConfirmBatch, ConfirmFails, DeliveryThrows, ConsumerUnchanged, stateVars
  <2>4. CASE AppendMessage \/ AppendFails \/ Exit \/ Crash
    BY <2>4 DEF AppendMessage, AppendFails, Exit, Crash, ClientGone, stateVars
  <2> QED
    BY <2>1, <2>2, <2>3, <2>4, ClientFileSteps
<1> QED
  BY <1>4, <1>5, <1>6, <1>7, WalEffects, KeptFacts

\* A step of the server prints a line that is in the WAL, prints one again, or
\* is not visible.
LEMMA ServerRefines ==
  ASSUME TypeInv, OrderInv, SafeInv, ServerMoves
  PROVE  [Reliable!RNext]_(Reliable!rvars)
<1>1. UNCHANGED <<walFile, stateFile>>
  BY DEF ServerMoves, ClientIdle, walVars, stateVars
<1>2. CASE LinesOf(output') = LinesOf(output)
  BY <1>1, <1>2 DEF Reliable!rvars
<1>3. CASE output' = output
  BY <1>2, <1>3
<1>4. CASE ProcessMessage
  <2>1. rx[pos + 1] \in Range(rx) /\ Range(rx) \subseteq InFlight
    BY <1>4, NextInBatch DEF InFlight, Frames
  <2>2. rx[pos + 1] \in Range(walFile) \cup output
    BY <2>1, KeptOnDisk DEF SafeInv, Backed
  <2>3. output' = output \/ output' = output \cup {rx[pos + 1]}
    BY <1>4 DEF ProcessMessage
  <2>4. CASE rx[pos + 1] \in Range(walFile) /\ output' = output \cup {rx[pos + 1]}
    <3>1. /\ LinesOf(output') = LinesOf(output) \cup {rx[pos + 1].line}
          /\ rx[pos + 1].line \in LinesOf(Range(walFile))
      BY <2>4 DEF LinesOf
    <3>2. Reliable!Deliver
      BY <1>1, <3>1 DEF Reliable!Deliver
    <3> QED
      BY <3>2 DEF Reliable!RNext
  <2> QED
    BY <1>3, <2>2, <2>3, <2>4
<1>5. CASE ServerStart \/ PersistWatermark \/ ConfirmWatermarkFails
  BY <1>3, <1>5 DEF ServerStart, PersistWatermark, ConfirmWatermarkFails, BackToAccept
<1> QED
  BY <1>3, <1>4, <1>5, ServerStoreSteps

\* Client and server together implement the abstract log: a line is durable in
\* the WAL before it is printed, leaves the WAL only printed or still to be
\* read, and the checkpoint passes only lines that are safe.
THEOREM Refinement == Spec => ImplementsReliableLog
<1>1. Init => Reliable!RInit
  <2> SUFFICES ASSUME Init PROVE Reliable!RInit
    OBVIOUS
  <2>1. Range(walFile) = {} /\ output = {} /\ stateFile.fileOffset = 0
    BY EmptyRun DEF Init, WalInit, ServerInit, StateInit, NoState
  <2> QED
    BY <2>1 DEF Reliable!RInit, LinesOf
<1>2. /\ TypeInv /\ TypeInv' /\ OrderInv /\ OrderInv' /\ SafeInv /\ SafeInv'
      /\ [Next]_vars
      => [Reliable!RNext]_(Reliable!rvars)
  <2> SUFFICES ASSUME TypeInv, TypeInv', OrderInv, OrderInv', SafeInv, SafeInv', [Next]_vars
               PROVE  [Reliable!RNext]_(Reliable!rvars)
    OBVIOUS
  <2>1. CASE UNCHANGED vars
    BY <2>1 DEF vars, walVars, stateVars, serverVars, Reliable!rvars
  <2> QED
    BY <2>1, NextMoves, ClientRefines, ServerRefines
<1> QED
  BY <1>1, <1>2, TypeInvariance, OrderInvariance, SafeInvariance, PTL
     DEF Spec, ImplementsReliableLog, Reliable!RSpec

\* Why the abstract log is worth implementing: whatever else it allows, no line
\* behind the resume position is forgotten.  Lines are let go only when they
\* are delivered or still ahead, and the position moves over covered lines
\* only.
THEOREM NothingForgottenAlways == Reliable!RSpec => []Reliable!NothingForgotten
<1> DEFINE Remembered == Reliable!NothingForgotten /\ stateFile.fileOffset \in Nat
<1>0. \A x \in Line \cup {0} : x \in Nat
  BY DEF Line
<1>1. Reliable!RInit => Remembered
  BY DEF Reliable!RInit, Reliable!NothingForgotten
<1>2. Remembered /\ [Reliable!RNext]_(Reliable!rvars) => Remembered'
  <2> SUFFICES ASSUME Remembered, [Reliable!RNext]_(Reliable!rvars)
               PROVE  Remembered'
    OBVIOUS
  <2> USE DEF Reliable!NothingForgotten, Reliable!Covered
  <2>1. CASE Reliable!Hold \/ Reliable!Deliver
    BY <2>1 DEF Reliable!Hold, Reliable!Deliver
  <2>2. CASE Reliable!LetGo
    <3>1. stateFile'.fileOffset = stateFile.fileOffset
      BY <2>2 DEF Reliable!LetGo
    <3>2. ASSUME NEW l \in 1 .. stateFile.fileOffset
          PROVE  l \in LinesOf(Range(walFile')) \cup LinesOf(output')
      <4>1. l \in LinesOf(Range(walFile)) \cup LinesOf(output)
        BY <3>2
      <4>2. ~ (l > stateFile.fileOffset)
        BY <3>2
      <4>3. /\ LinesOf(output') = LinesOf(output)
            /\ \A k \in LinesOf(Range(walFile)) \ LinesOf(Range(walFile')) :
                  k \in LinesOf(output) \/ k > stateFile.fileOffset
        BY <2>2 DEF Reliable!LetGo, LinesOf
      <4> QED
        BY <4>1, <4>2, <4>3
    <3> QED
      BY <3>1, <3>2
  <2>3. CASE Reliable!MoveTo
    <3>0. stateFile'.fileOffset \in Line \cup {0}
      BY <2>3 DEF Reliable!MoveTo
    <3>a. 1 .. stateFile'.fileOffset \subseteq
            LinesOf(Range(walFile)) \cup LinesOf(output)
      BY <2>3 DEF Reliable!MoveTo
    <3>1. stateFile'.fileOffset \in Nat
      BY <1>0, <3>0
    <3>2. /\ LinesOf(Range(walFile')) = LinesOf(Range(walFile))
          /\ LinesOf(output') = LinesOf(output)
      BY <2>3 DEF Reliable!MoveTo, LinesOf
    <3> QED
      BY <3>a, <3>1, <3>2
  <2>4. CASE UNCHANGED Reliable!rvars
    BY <2>4 DEF Reliable!rvars
  <2> QED
    BY <2>1, <2>2, <2>3, <2>4 DEF Reliable!RNext
<1> QED
  BY <1>1, <1>2, PTL DEF Reliable!RSpec

-----------------------------------------------------------------------------
(* What is printed once. *)

\* A step that leaves a budget as it was is not a fault of that kind.
LEMMA BudgetSteps ==
  ASSUME TypeInv, [Next]_vars
  PROVE  /\ left'.client \in Int /\ left'.client <= left.client
         /\ left'.server \in Int /\ left'.server <= left.server
         /\ left'.client = left.client =>
              \/ ServerMoves \/ UNCHANGED vars
              \/ /\ WriteLine \/ Main \/ StopSignal \/ Producer \/ Consumer \/ SendFails
                 /\ ServerIdle
         /\ left'.server = left.server =>
              \/ ClientMoves \/ UNCHANGED vars
              \/ ServerMoves /\ (Server \/ ConnectionFails \/ ServerStopSignal)
<1>1. /\ left.client \in Int /\ left.server \in Int
      /\ DOMAIN left = {"client", "server", "net", "stop"}
  BY DEF TypeInv, TypeOK
<1>2. CASE LogGrows \/ MainStep \/ ProducerStep \/ ConsumerStep \/ ServerStep
  BY <1>1, <1>2 DEF LogGrows, MainStep, ProducerStep, ConsumerStep, ServerStep, NoFault,
                    ClientMoves, ServerMoves
<1>3. CASE ClientFault /\ ServerIdle /\ UseUp("client")
  BY <1>1, <1>3 DEF UseUp, ClientFault, ClientMoves
<1>4. CASE (SendFails /\ ServerIdle /\ UseUp("net")) \/ (StopSignal /\ ServerIdle /\ UseUp("stop"))
  BY <1>1, <1>4 DEF UseUp, ClientMoves
<1>5. CASE ServerFault /\ ClientIdle /\ UseUp("server")
  BY <1>1, <1>5 DEF UseUp, ServerMoves
<1>6. CASE \/ ConnectionFails /\ ClientIdle /\ UseUp("net")
           \/ ServerStopSignal /\ ClientIdle /\ UseUp("stop")
  BY <1>1, <1>6 DEF UseUp, ServerMoves
<1>7. CASE UNCHANGED vars
  BY <1>1, <1>7 DEF vars
<1> QED
  BY <1>2, <1>3, <1>4, <1>5, <1>6, <1>7 DEF Next, Fault

\* A server that leaves a batch without fault has persisted its watermark.
LEMMA ServerPrintsOnce ==
  ASSUME TypeInv, OrderInv, PrintInv, PrintInv', ServerMoves,
         Server \/ ConnectionFails \/ ServerStopSignal,
         reprinted = {},
         \A m \in output : \/ m.id <= dedup[m.clientId]
                           \/ \E j \in 1 .. Len(rx) : j <= pos /\ m = rx[j]
  PROVE  /\ reprinted' = {}
         /\ \A m \in output' : \/ m.id <= dedup'[m.clientId]
                               \/ \E j \in 1 .. Len(rx') : j <= pos' /\ m = rx'[j]
<1>0. /\ \A m \in output : m.id \in Int /\ m.clientId \in ClientIds
      /\ \A c \in ClientIds : dedup[c] \in Int /\ dedup'[c] \in Int /\ dedup[c] <= dedup'[c]
  <2>1. \A m \in output : m.id \in Int /\ m.clientId \in ClientIds
    BY KnownTypes DEF Known
  <2>2. /\ \A c \in ClientIds : dedup[c] \in Int /\ dedupFile[c] \in Int
        /\ latest \in Int
    BY BoundAssumption DEF TypeInv, TypeOK, DedupTypeOK, ServerTypeOK
  <2> QED
    BY <2>1, <2>2, ServerWatermarks DEF PrintInv
<1>1. \A m \in output : m.id <= dedup[m.clientId] => m.id <= dedup'[m.clientId]
  BY <1>0
<1>2. CASE UNCHANGED <<rx, pos, output, reprinted>>
  BY <1>1, <1>2
<1>3. ASSUME rx = << >> \/ spc = "ack"
      PROVE  \A m \in output : m.id <= dedup[m.clientId]
  <2>1. CASE rx = << >>
    BY <2>1
  <2>2. CASE rx # << >> /\ spc = "ack"
    <3>1. LastId(rx) <= dedup[rx[1].clientId] /\ LastId(rx) \in Int
      BY <2>2, BatchInHand DEF PrintInv, Processed
    <3>2. \A m \in Range(rx) : m.clientId = rx[1].clientId /\ m.id <= LastId(rx)
      BY <2>2, BatchInHand
    <3>3. Range(rx) = {rx[j] : j \in 1 .. Len(rx)}
      BY <2>2, BatchInHand, RangeIsElements
    <3> QED
      BY <1>0, <3>1, <3>2, <3>3
  <2> QED
    BY <1>3, <2>1, <2>2
<1>4. CASE (rx = << >> \/ spc = "ack") /\ UNCHANGED <<output, reprinted>>
  BY <1>1, <1>3, <1>4
<1>5. CASE ProcessMessage
  <2> DEFINE m == rx[pos + 1]
  <2>1. /\ rx # << >> /\ pos + 1 \in 1 .. Len(rx) /\ m \in Range(rx) /\ pos \in Nat
        /\ UNCHANGED <<rx, dedup>> /\ pos' = pos + 1
    BY <1>5, NextInBatch DEF ProcessMessage, dedupVars, TypeInv, TypeOK, ServerTypeOK
  <2>2. \A k \in output : \/ k.id <= dedup'[k.clientId]
                          \/ \E j \in 1 .. Len(rx') : j <= pos' /\ k = rx'[j]
    BY <1>1, <2>1
  <2>3. CASE UNCHANGED <<output, reprinted>>
    BY <2>2, <2>3
  <2>4. CASE /\ m.id > dedup[rx[1].clientId] /\ output' = output \cup {m}
             /\ reprinted' = reprinted \cup ({m} \cap output)
    <3>1. m \notin output
      <4>1. /\ rx \in Seq(Message) /\ Increasing(rx) /\ m.clientId = rx[1].clientId
            /\ rx[1].clientId \in ClientIds
        BY <2>1, BatchInHand
      <4>2. \A j \in 1 .. Len(rx) : j <= pos => rx[j].id < m.id
        BY <2>1, <4>1 DEF Increasing
      <4>3. m.id \in Int
        BY <2>1, <4>1, ElementAt
      <4> QED
        BY <1>0, <2>4, <4>1, <4>2, <4>3
    <3>2. pos + 1 <= pos' /\ m = rx'[pos + 1]
      BY <2>1
    <3> HIDE DEF m
    <3>3. \A k \in output' : k \in output \/ k = m
      BY <2>4
    <3> QED
      BY <2>1, <2>2, <2>4, <3>1, <3>2, <3>3
  <2>5. \/ UNCHANGED <<output, reprinted>>
        \/ /\ ~ (m.id <= dedup[rx[1].clientId]) /\ output' = output \cup {m}
           /\ reprinted' = reprinted \cup ({m} \cap output)
    BY <1>5 DEF ProcessMessage, highestConfirmed
  <2>6. m.id \in Int /\ dedup[rx[1].clientId] \in Int
    BY <1>0, <2>1, BatchInHand, ElementAt
  <2> HIDE DEF m
  <2> QED
    BY <2>3, <2>4, <2>5, <2>6
<1>6. CASE PersistWatermark \/ ServerStopSignal
  BY <1>2, <1>6 DEF PersistWatermark, ServerStopSignal
<1>7. CASE ServerStart \/ AcceptClient \/ ServerExit
  BY <1>4, <1>7 DEF ServerStart, AcceptClient, ServerExit, TypeInv, ServerShape
<1>8. CASE ReceiveBatch \/ SendAck
  BY <1>4, <1>8 DEF ReceiveBatch, SendAck, TypeInv, ServerShape
<1>9. CASE SendAckFails \/ ClientDisconnects \/ ConnectionFails
  BY <1>4, <1>9 DEF SendAckFails, ClientDisconnects, ConnectionFails, BackToAccept,
                    TypeInv, ServerShape
<1> QED
  BY <1>5, <1>6, <1>7, <1>8, <1>9 DEF Server

\* The part of OneMessage that depends on where the producer is.
Checkpointed ==
  /\ state = stateFile
  /\ \A m \in Range(walFile) \cup output : m.line <= cur
  /\ state.nextId <= IF ppc = "append" THEN cur + 2 ELSE cur + 1
  /\ ppc \in {"read", "push", "closing", "done"} => state.fileOffset = cur

\* The line of a stored or printed message is a number.
LEMMA LinesAreNumbers ==
  ASSUME TypeInv
  PROVE  \A m \in Range(walFile) \cup output : m.line \in Int
<1>1. \A m \in Range(walFile) \cup output : m \in Message
  BY ElementAt DEF TypeInv, TypeOK, WalTypeOK, ServerTypeOK
<1> QED
  BY <1>1, MessageFields, BoundAssumption DEF Line

\* The steps of the running producer, undisturbed.
LEMMA ProducerCheckpointed ==
  ASSUME TypeInv, OrderInv, Oversized = {}, MaxLine < MaxUint64, Checkpointed,
         Producer, ServerIdle, proc = "up"
  PROVE  Checkpointed'
<1>0. /\ cur \in Nat /\ readPos \in 0 .. MaxLine /\ state.nextId \in Int
      /\ state \in ClientStateType /\ output' = output
      /\ ppc \in {"alloc", "append"} => cur < readPos
      /\ ppc = "checkpoint" => cur = readPos
  BY BoundAssumption
     DEF TypeInv, TypeOK, ClientTypeOK, ClientShape, StateTypeOK, ClientStateType,
         ServerIdle, serverVars
<1>1. CASE ReadNewLines \/ ProducerLeavesLoop \/ PushMessage \/ PushRefused \/ ProducerClose
  <2>1. /\ UNCHANGED <<walFile, cur, state, stateFile>>
        /\ ppc \in {"read", "push", "closing"} /\ ppc' # "append"
    BY <1>1 DEF ReadNewLines, ProducerLeavesLoop, PushMessage, PushRefused, ProducerClose,
                walVars, stateVars
  <2> QED
    BY <1>0, <2>1 DEF Checkpointed
<1>2. ~ AllocExhausted
  BY <1>0, BoundAssumption DEF AllocExhausted, IdsExhausted, Checkpointed
<1>3. ~ AppendOversized
  BY DEF AppendOversized
<1>4. CASE AllocId
  <2>1. /\ UNCHANGED <<walFile, cur>> /\ ppc = "alloc" /\ ppc' = "append"
        /\ state' = Allocated /\ stateFile' = Allocated
    BY <1>4 DEF AllocId, NextMessageId, Persist, walVars
  <2>2. state'.nextId = state.nextId + 1
    BY <1>0, <2>1 DEF Allocated, ClientStateType
  <2> QED
    BY <1>0, <2>1, <2>2 DEF Checkpointed
<1>5. CASE AppendMessage
  <2>1. /\ UNCHANGED <<state, stateFile>> /\ cur' = cur + 1
        /\ ppc = "append" /\ ppc' \in {"alloc", "checkpoint"}
        /\ walFile' = Append(walFile, NewMessage)
    BY <1>5 DEF AppendMessage, WalAppend, stateVars
  <2>2. Range(walFile') = Range(walFile) \cup {NewMessage} /\ NewMessage.line = cur + 1
    BY <2>1, NewMessageFacts DEF NewMessage
  <2>3. \A m \in Range(walFile) \cup output : m.line \in Int
    BY LinesAreNumbers
  <2>4. \A m \in Range(walFile') \cup output' : m.line <= cur'
    BY <1>0, <2>1, <2>2, <2>3 DEF Checkpointed
  <2> QED
    BY <1>0, <2>1, <2>4 DEF Checkpointed
<1>6. CASE Checkpoint
  <2>1. /\ UNCHANGED <<walFile, cur>> /\ ppc = "checkpoint" /\ ppc' = "push"
        /\ UpdateFileCheckpoint(cur)
    BY <1>0, <1>6 DEF Checkpoint, walVars
  <2>2. /\ state' = stateFile' /\ state'.nextId = state.nextId /\ state'.fileOffset = cur
    <3>1. CASE cur = state.fileOffset
      BY <2>1, <3>1 DEF UpdateFileCheckpoint, stateVars, Checkpointed
    <3>2. CASE cur # state.fileOffset
      BY <1>0, <2>1, <3>2 DEF UpdateFileCheckpoint, Persist, AtOffset, ClientStateType
    <3> QED
      BY <3>1, <3>2
  <2> QED
    BY <1>0, <2>1, <2>2 DEF Checkpointed
<1> QED
  BY <1>1, <1>2, <1>3, <1>4, <1>5, <1>6 DEF Producer

\* The client's steps, undisturbed: a clean stop at any point leaves the
\* checkpoint behind the last line that has a message.
LEMMA ClientOnce ==
  ASSUME TypeInv, TypeInv', OrderInv, OrderInv', Undisturbed, OneMessage,
         WriteLine \/ Main \/ StopSignal \/ Producer \/ Consumer \/ SendFails,
         ServerIdle
  PROVE  OneMessage'
<1> DEFINE All == Range(walFile) \cup output
<1>0. /\ Oversized = {} /\ MaxLine < MaxUint64 /\ ClientMoves
      /\ \A m, n \in All : m.line = n.line => m = n
      /\ LastId(walFile) < stateFile.nextId
      /\ proc # "up" => /\ \A m \in All : m.line <= stateFile.fileOffset
                        /\ stateFile.nextId <= stateFile.fileOffset + 1
      /\ proc = "up" => Checkpointed
      /\ output' = output
      /\ cur \in Nat /\ \A m \in All : m.line \in Int
      /\ stateFile \in ClientStateType
  <2>1. Oversized = {} /\ MaxLine < MaxUint64 /\ ClientMoves /\ output' = output
    BY DEF Undisturbed, ClientMoves, ServerIdle, serverVars
  <2>2. cur \in Nat /\ \A m \in All : m.line \in Int
    BY LinesAreNumbers, BoundAssumption DEF TypeInv, TypeOK, ClientTypeOK
  <2>3. stateFile \in ClientStateType
    BY DEF TypeInv, TypeOK, StateTypeOK
  <2> QED
    BY <2>1, <2>2, <2>3 DEF OneMessage, Checkpointed
<1> HIDE DEF All
<1>1. ASSUME \A m, n \in All' : m.line = n.line => m = n,
             LastId(walFile') < stateFile'.nextId,
             proc' # "up" => /\ \A m \in All' : m.line <= stateFile'.fileOffset
                             /\ stateFile'.nextId <= stateFile'.fileOffset + 1,
             proc' = "up" => Checkpointed'
      PROVE  OneMessage'
  BY <1>1 DEF OneMessage, Checkpointed, All
<1>10. proc' = "up" => LastId(walFile') < stateFile'.nextId
  <2>1. proc' = "up" => StateExists'
    BY ClientAssumption DEF OrderInv, Identity, TypeInv, ClientShape, StateExists
  <2> QED
    BY <2>1 DEF OrderInv, Allocation
<1>2. CASE UNCHANGED <<walFile, proc, cur, ppc, state, stateFile>>
  <2>1. All' = All
    BY <1>0, <1>2 DEF All
  <2> QED
    BY <1>0, <1>1, <1>2, <2>1 DEF Checkpointed, All
<1>3. CASE StartWal
  <2>1. UNCHANGED <<walFile, stateFile>> /\ proc # "up" /\ proc' # "up"
    BY <1>3 DEF StartWal, WalLoad, stateVars
  <2> QED
    BY <1>0, <1>1, <2>1 DEF All
<1>4. CASE StartState
  <2>1. /\ UNCHANGED walFile /\ proc # "up" /\ proc' = "up" /\ ppc' = "read"
        /\ cur' = state'.fileOffset /\ state' = stateFile'
        /\ pending = walFile
    BY <1>4, StartFacts DEF StartState, StateLoad, walVars
  <2>2. state'.fileOffset = stateFile.fileOffset /\ state'.nextId = stateFile.nextId
    <3>1. ~ (stateFile.nextId <= LastId(pending))
      <4>1. LastId(walFile) \in Int /\ stateFile.nextId \in Int
        BY <1>0, LastIdType, BoundAssumption DEF ClientStateType, TypeInv, TypeOK, WalTypeOK
      <4> QED
        BY <1>0, <2>1, <4>1
    <3> QED
      BY <1>4, <3>1 DEF StartState, StateLoad
  <2> QED
    BY <1>0, <1>1, <2>1, <2>2 DEF All, Checkpointed
<1>5. CASE Exit
  <2>1. UNCHANGED <<walFile, stateFile>> /\ proc = "up" /\ proc' # "up" /\ ppc = "done"
    BY <1>5 DEF Exit, ClientGone
  <2> QED
    BY <1>0, <1>1, <2>1 DEF All, Checkpointed
<1>6. CASE Producer
  <2>1. proc = "up" /\ proc' = "up"
    <3>1. proc' = proc /\ ppc # "off"
      BY <1>6 DEF Producer, ReadNewLines, ProducerLeavesLoop, AllocId, AllocExhausted,
                  AppendMessage, AppendOversized, Checkpoint, PushMessage, PushRefused,
                  ProducerClose, ProducerThrows, ProducerUnchanged
    <3> QED
      BY <3>1 DEF TypeInv, ClientShape
  <2>2. Checkpointed'
    BY <1>0, <1>6, <2>1, ProducerCheckpointed
  <2>3. LastId(walFile') < stateFile'.nextId
    BY <1>10, <2>1
  <2>4. \A m, n \in All' : m.line = n.line => m = n
    <3>1. CASE walFile' = walFile
      BY <1>0, <3>1 DEF All
    <3>2. CASE AppendMessage
      <4>1. All' = All \cup {NewMessage} /\ NewMessage.line = cur + 1
        BY <1>0, <3>2, NewMessageFacts DEF AppendMessage, WalAppend, NewMessage, All
      <4>2. \A m \in All : m.line < cur + 1
        BY <1>0, <2>1 DEF Checkpointed, All
      <4> QED
        BY <1>0, <4>1, <4>2
    <3>3. CASE ~ AppendMessage
      <4>1. UNCHANGED walFile
        BY <1>6, <3>3 DEF Producer, ReadNewLines, ProducerLeavesLoop, AllocId,
                          AllocExhausted, AppendOversized, Checkpoint, PushMessage,
                          PushRefused, ProducerClose, walVars
      <4> QED
        BY <3>1, <4>1
    <3> QED
      BY <3>2, <3>3
  <2> QED
    BY <1>1, <2>1, <2>2, <2>3, <2>4
<1>7. CASE ConfirmBatch
  <2>1. /\ cpc = "confirm" /\ proc = "up" /\ UNCHANGED <<proc, cur, ppc, state, stateFile>>
    BY <1>7 DEF ConfirmBatch, ConsumerUnchanged, producerVars, stateVars, TypeInv, ClientShape
  <2>2. walFile' = walFile \/ walFile' = Unconfirmed(pending, LastId(Batch))
    BY <1>7 DEF ConfirmBatch, WalConfirm, walVars
  <2>3. All' \subseteq All
    BY <1>0, <2>1, <2>2, KeptFacts DEF All
  <2>4. LastId(walFile') < stateFile'.nextId
    BY <1>10, <2>1
  <2> QED
    BY <1>0, <1>1, <2>1, <2>3, <2>4 DEF Checkpointed, All
<1>8. CASE WriteLine \/ MainClose \/ StopSignal
  BY <1>2, <1>8 DEF WriteLine, MainClose, StopSignal, producerVars, walVars, stateVars
<1>9. CASE (Consumer \/ SendFails) /\ ~ ConfirmBatch
  <2>1. ConsumerUnchanged /\ UNCHANGED walVars
    BY <1>9 DEF Consumer, LoopAgain, ConsumerLeavesLoop, PopBatch, TakeFromQueue,
                BatchDeadline, PopClosed, Connect, ConnectFails, SendBatch,
                SendToClosed, ReceiveAck, ServerClosed, AckTimesOut, RetryDelivery,
                AbandonDelivery, SendFails, ConsumerEnds, DeliveryThrows
  <2> QED
    BY <1>2, <2>1 DEF ConsumerUnchanged, producerVars, walVars, stateVars
<1> QED
  BY <1>3, <1>4, <1>5, <1>6, <1>7, <1>8, <1>9 DEF Main, Consumer

\* What the server does adds no message: it prints those of the WAL.
LEMMA ServerOnce ==
  ASSUME TypeInv, OrderInv, SafeInv, OneMessage, Undisturbed, ServerMoves
  PROVE  OneMessage'
<1>1. UNCHANGED <<walFile, proc, ppc, cur, state, stateFile>>
  BY DEF ServerMoves, ClientIdle, clientVars, producerVars, walVars, stateVars
<1>2. Range(walFile') \cup output' \subseteq Range(walFile) \cup output
  <2>1. Range(rx) \subseteq InFlight /\ output' \subseteq output \cup Range(rx)
    BY ServerOnlyNew DEF InFlight, Frames
  <2> QED
    BY <1>1, <2>1, KeptOnDisk DEF SafeInv, Backed
<1> QED
  BY <1>1, <1>2 DEF OneMessage

\* Without faults of the one machine or the other, nothing happens twice there.
THEOREM OnceInvariance == Spec => []OnceInv
<1>1. Init => OnceInv
  <2> SUFFICES ASSUME Init PROVE OnceInv
    OBVIOUS
  <2>1. /\ walFile = << >> /\ proc = "down" /\ output = {} /\ reprinted = {}
        /\ stateFile = NoState /\ left = FaultBudget
    BY DEF Init, ClientInit, WalInit, StateInit, ServerInit
  <2>2. WithinBudget
    BY <2>1, BudgetAssumption DEF WithinBudget, FaultBudget
  <2> QED
    BY <2>1, <2>2, EmptyRun DEF OnceInv, PrintedBelow, OneMessage, NoState
<1>2. /\ TypeInv /\ TypeInv' /\ OrderInv /\ OrderInv' /\ PrintInv /\ PrintInv'
      /\ SafeInv /\ OnceInv /\ [Next]_vars
      => OnceInv'
  <2> SUFFICES ASSUME TypeInv, TypeInv', OrderInv, OrderInv', PrintInv, PrintInv',
                      SafeInv, OnceInv, [Next]_vars
               PROVE  OnceInv'
    OBVIOUS
  <2>0. /\ WithinBudget /\ PrintedBelow /\ OneMessage
        /\ left.client \in Int /\ left.server \in Int
        /\ left'.client \in Int /\ left'.client <= left.client
        /\ left'.server \in Int /\ left'.server <= left.server
    BY BudgetSteps DEF OnceInv, TypeInv, TypeOK
  <2>1. WithinBudget'
    BY <2>0, BudgetAssumption DEF WithinBudget
  <2>2. PrintedBelow'
    <3> SUFFICES ASSUME left'.server = MaxServerFaults
                 PROVE  /\ reprinted' = {}
                        /\ \A m \in output' :
                             \/ m.id <= dedup'[m.clientId]
                             \/ \E j \in 1 .. Len(rx') : j <= pos' /\ m = rx'[j]
      BY DEF PrintedBelow
    <3>1. left'.server = left.server /\ left.server = MaxServerFaults
      BY <2>0, BudgetAssumption DEF WithinBudget
    <3>2. CASE UNCHANGED <<reprinted, output, dedup, rx, pos>>
      BY <2>0, <3>1, <3>2 DEF PrintedBelow
    <3>3. CASE ClientMoves
      BY <3>2, <3>3, ClientFrames
    <3>4. CASE UNCHANGED vars
      BY <3>2, <3>4 DEF vars, serverVars, dedupVars
    <3>5. CASE ServerMoves /\ (Server \/ ConnectionFails \/ ServerStopSignal)
      BY <2>0, <3>1, <3>5, ServerPrintsOnce DEF PrintedBelow
    <3> QED
      BY <3>1, <3>3, <3>4, <3>5, BudgetSteps
  <2>3. OneMessage'
    <3> SUFFICES ASSUME Undisturbed' PROVE OneMessage'
      BY DEF OneMessage
    <3>1. left'.client = left.client /\ Undisturbed
      BY <2>0, BudgetAssumption DEF WithinBudget, Undisturbed
    <3>2. CASE ServerMoves
      BY <2>0, <3>1, <3>2, ServerOnce
    <3>3. CASE UNCHANGED vars
      <4>1. UNCHANGED <<walFile, output, proc, ppc, cur, state, stateFile>>
        BY <3>3 DEF vars, clientVars, producerVars, walVars, stateVars, serverVars
      <4> QED
        BY <2>0, <3>1, <4>1 DEF OneMessage
    <3>4. CASE /\ WriteLine \/ Main \/ StopSignal \/ Producer \/ Consumer \/ SendFails
               /\ ServerIdle
      BY <2>0, <3>1, <3>4, ClientOnce
    <3> QED
      BY <3>1, <3>2, <3>3, <3>4, BudgetSteps
  <2> QED
    BY <2>1, <2>2, <2>3 DEF OnceInv
<1> QED
  BY <1>1, <1>2, TypeInvariance, OrderInvariance, PrintInvariance, SafeInvariance, PTL
     DEF Spec

\* As long as the server neither crashes nor fails to persist it prints no
\* message twice, whatever the client and the network do.
THEOREM NoReprintAlways == Spec => []NoReprint
<1>1. OnceInv => NoReprint
  BY DEF OnceInv, PrintedBelow, NoReprint
<1> QED
  BY <1>1, OnceInvariance, PTL

\* Without a client fault no line is printed under two IDs, however often the
\* client is stopped and started.  Every line must fit the protocol and there
\* must be an ID for each: a producer that throws in the middle of a round has
\* stored lines behind which there is no checkpoint.
THEOREM LinesPrintedOnceAlways ==
  ASSUME Oversized = {}, MaxLine < MaxUint64
  PROVE  Spec => []LinesPrintedOnce
<1>1. OnceInv => LinesPrintedOnce
  BY DEF OnceInv, OneMessage, Undisturbed, LinesPrintedOnce
<1> QED
  BY <1>1, OnceInvariance, PTL

\* The invariant that the run `delivery` checks holds for every value of the
\* constants.
THEOREM InvAlways == Spec => []Inv
<1>1. TypeInv /\ ConnInv /\ OrderInv /\ PrintInv /\ SafeInv /\ OnceInv => Inv
  BY DEF Inv, TypeInv
<1> QED
  BY <1>1, TypeInvariance, ConnInvariance, OrderInvariance, PrintInvariance,
     SafeInvariance, OnceInvariance, PTL

=============================================================================
