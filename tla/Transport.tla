------------------------------ MODULE Transport ------------------------------
(***************************************************************************)
(* The TCP connections between TcpClient (src/TcpClient.cpp) and TcpServer *)
(* (src/TcpServer.cpp), as the two programs use them: one batch frame one  *)
(* way, one ACK frame the other.                                           *)
(*                                                                         *)
(* conns is what the server's kernel holds, in the order accept returns    *)
(* them; the first is the one being served.  A client that gives up on a   *)
(* connection leaves it behind in conns, with the frame it sent, and the   *)
(* server meets it later.  receiveFrame never returns part of a frame, so  *)
(* a frame is in conns entirely or not at all.                             *)
(***************************************************************************)
EXTENDS LogMessage

CONSTANT Backlog  \* the 16 of listen(): connections waiting to be accepted

ASSUME BacklogAssumption == Backlog \in Nat \ {0}

VARIABLES listening,  \* the server's listening socket is open
          conns,      \* connections at the server, oldest first
          sock,       \* the client's socket: "none", "open", or "broken"
                      \* when the server's end is gone
          inbox       \* ACKs the client's socket has received

netVars == <<listening, conns, sock, inbox>>

Connection == [frame : Seq(Message), open : BOOLEAN]

NetTypeOK == /\ listening \in BOOLEAN
             /\ conns \in Seq(Connection)
             /\ sock \in {"none", "open", "broken"}
             /\ inbox \in Seq(0 .. MaxUint64)

NetInit == /\ listening = FALSE
           /\ conns = << >>
           /\ sock = "none"
           /\ inbox = << >>

-----------------------------------------------------------------------------
(* The client's calls. *)

BacklogFull == Len(conns) > Backlog

\* TcpClient(): connect succeeds when the kernel of a listening server takes
\* the connection, accepted or not.
ClientConnect == /\ listening
                 /\ ~ BacklogFull
                 /\ conns' = Append(conns, [frame |-> << >>, open |-> TRUE])
                 /\ sock' = "open"
                 /\ inbox' = << >>
                 /\ UNCHANGED listening

\* ~TcpClient: the last connection is the client's; what it sent stays.
ClientClose ==
  /\ conns' = IF sock = "open" THEN [conns EXCEPT ![Len(conns)].open = FALSE]
                               ELSE conns
  /\ sock' = "none"
  /\ inbox' = << >>
  /\ UNCHANGED listening

\* sendLogBatch: on a broken socket the bytes vanish without an error.
ClientSend(batch) ==
  /\ conns' = IF sock = "open" THEN [conns EXCEPT ![Len(conns)].frame = batch]
                               ELSE conns
  /\ UNCHANGED <<listening, sock, inbox>>

\* receiveAck.
ClientReceive == /\ inbox # << >>
                 /\ inbox' = Tail(inbox)
                 /\ UNCHANGED <<listening, conns, sock>>

-----------------------------------------------------------------------------
(* The server's calls; they act on the first connection. *)

\* receiveLogBatch returns the frame.
ServerReceive == /\ conns[1].frame # << >>
                 /\ conns' = [conns EXCEPT ![1].frame = << >>]
                 /\ UNCHANGED <<listening, sock, inbox>>

\* closeSocket(clientFd_) at the head of acceptClient.
ServerCloseClient == /\ conns' = Tail(conns)
                     /\ sock' = IF conns[1].open THEN "broken" ELSE sock
                     /\ UNCHANGED <<listening, inbox>>

\* sendAck: to a client that has closed its end the bytes are lost.
ServerAck(id) == /\ inbox' = IF conns[1].open THEN Append(inbox, id) ELSE inbox
                 /\ UNCHANGED <<listening, conns, sock>>

\* stop, or the death of the process: every connection is reset.
ServerCloseAll == /\ listening' = FALSE
                  /\ conns' = << >>
                  /\ sock' = IF sock = "open" THEN "broken" ELSE sock
                  /\ UNCHANGED inbox

\* TcpServer(): bind and listen.
ServerListen == /\ listening' = TRUE
                /\ UNCHANGED <<conns, sock, inbox>>

=============================================================================
