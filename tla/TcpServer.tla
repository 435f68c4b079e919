----------------------------- MODULE TcpServer -----------------------------
(***************************************************************************)
(* The server's descriptors while it is being stopped: the main thread of  *)
(* ServerMain.cpp, which accepts, receives, persists and acknowledges, and *)
(* the signal thread, which calls TcpServer::stop.  Module ServerMain has  *)
(* stop() as one step; here every atomic operation and every system call   *)
(* of the two threads is a step, and a descriptor is a number that the     *)
(* kernel hands out again after a close.                                   *)
(*                                                                         *)
(* The kernel: a number names an object (the listening socket, a client's  *)
(* connection, a file).  A blocked accept, recv or send waits on the       *)
(* object, so close alone does not wake it; shutdown does.  Each client    *)
(* connects once, sends frames, and may be silent or leave at any time;    *)
(* one in Deaf reads nothing, and an ACK to it blocks.                     *)
(*                                                                         *)
(* Abstracted: what a frame holds, EINTR (the loops repeat the call), and  *)
(* setsockopt, bind, listen and getsockname, which are one step.           *)
(***************************************************************************)
EXTENDS Integers, Sequences, FiniteSets, FiniteSetsExt

CONSTANTS
    Clients,    \* the clients' connections
    Deaf,       \* those that do not read their ACKs
    Listener,   \* the listening socket
    File,       \* a file of the deduplication store
    Free,       \* no object
    LastFd,     \* the largest descriptor the process may have
    MaxFrames,  \* frames of a client that wait to be received
    Backlog     \* connections the kernel keeps for accept

ASSUME ServerAssumption ==
    /\ LastFd \in Nat /\ LastFd >= 5
    /\ MaxFrames \in Nat
    /\ Backlog \in Nat \ {0}
    /\ Deaf \subseteq Clients
    /\ Listener # File /\ Listener # Free /\ File # Free
    /\ {Listener, File, Free} \cap Clients = {}

VARIABLES
    fd,       \* listenFd_ and clientFd_
    stopped,  \* stopped_
    running,  \* the flag of main
    th,       \* each thread: where it is, where it returns to after
              \* closeSocket, its local descriptor, the object it waits on
    result,   \* main's result: "fault" when a call failed by itself
    table,    \* the descriptor table: number -> object
    shut,     \* sockets that were shut down
    pending,  \* a blocked SIGINT or SIGTERM is pending
    backlog,  \* connections not yet accepted
    sent,     \* client -> frames sent and not yet received
    peer      \* client -> "new", "here" or "gone"

flags == <<stopped, running, result>>
kernel == <<table, shut, pending>>
clients == <<backlog, sent, peer>>
vars == <<fd, flags, th, kernel, clients>>

Thread == {"main", "signal"}
Socket == {Listener} \cup Clients
Fds == 3 .. LastFd
Gone == {c \in Clients : peer[c] = "gone"}

(* Where main and the signal thread can be.                                *)
Label == {"socket", "bind", "load", "loop", "accept", "check", "listenFd",
          "acceptCall", "accepting", "woken", "faulted", "store", "recheck",
          "inner", "clientFd", "recv", "receiving", "persist", "persisting",
          "ack", "send", "sending", "join", "return", "exited",
          "stop", "stopClient", "stopListen", "shutdown", "close",
          "notStarted", "wait", "ended"}

TypeOK ==
    /\ fd \in [{"listen", "client"} -> Fds \cup {-1}]
    /\ stopped \in BOOLEAN /\ running \in BOOLEAN
    /\ th \in [Thread -> [at : Label, ret : Label, num : Fds,
                          on : Socket \cup {Free}]]
    /\ result \in {"ok", "fault", "failed"}
    /\ table \in [Fds -> Socket \cup {File, Free}]
    /\ shut \subseteq Socket
    /\ pending \in BOOLEAN
    /\ backlog \in Seq(Clients)
    /\ sent \in [Clients -> 0 .. MaxFrames]
    /\ peer \in [Clients -> {"new", "here", "gone"}]

Init ==
    /\ fd = [listen |-> -1, client |-> -1]
    /\ stopped = FALSE /\ running = TRUE
    /\ th = [t \in Thread |->
                LET start == IF t = "main" THEN "socket" ELSE "notStarted"
                IN  [at |-> start, ret |-> start, num |-> 3, on |-> Free]]
    /\ result = "ok"
    /\ table = [n \in Fds |-> Free]
    /\ shut = {}
    /\ pending = FALSE
    /\ backlog = <<>>
    /\ sent = [c \in Clients |-> 0]
    /\ peer = [c \in Clients |-> "new"]

-----------------------------------------------------------------------------
(* The steps the two threads are made of.                                  *)

At(t, label) == th[t].at = label

Goto(t, label) == th' = [th EXCEPT ![t].at = label]

(* A step that changes nothing but the place of the thread.                *)
Jump(t, here, next) ==
    /\ At(t, here)
    /\ Goto(t, next)
    /\ UNCHANGED <<fd, flags, kernel, clients>>

(* The lowest free number now names the object, and main has it.           *)
Open(o, next) ==
    LET free == {n \in Fds : table[n] = Free}
    IN  /\ free # {}
        /\ table' = [table EXCEPT ![Min(free)] = o]
        /\ th' = [th EXCEPT !["main"].at = next, !["main"].num = Min(free)]

(* closeSocket: exchange(-1) takes the descriptor out of the atomic        *)
(* variable into the hands of one thread; Shutdown and Close follow.       *)
CloseSocket(t, here, v, next) ==
    /\ At(t, here)
    /\ fd' = [fd EXCEPT ![v] = -1]
    /\ IF fd[v] = -1
       THEN Goto(t, next)
       ELSE th' = [th EXCEPT ![t].at = "shutdown", ![t].ret = next,
                             ![t].num = fd[v]]
    /\ UNCHANGED <<flags, kernel, clients>>

(* Mutant of Shutdown: the socket is only closed.                          *)
ShutdownSkipped(t) == Jump(t, "shutdown", "close")

(* ::shutdown(descriptor, SHUT_RDWR): wakes whoever is blocked on it.      *)
Shutdown(t) ==
    /\ At(t, "shutdown")
    /\ shut' = shut \cup ({table[th[t].num]} \cap Socket)
    /\ Goto(t, "close")
    /\ UNCHANGED <<fd, flags, table, pending, clients>>

(* ::close(descriptor): the number is free for the next open.              *)
Close(t) ==
    /\ At(t, "close")
    /\ table' = [table EXCEPT ![th[t].num] = Free]
    /\ Goto(t, th[t].ret)
    /\ UNCHANGED <<fd, flags, shut, pending, clients>>

(* Main reads an atomic descriptor and finds it there or finds -1.         *)
LoadFd(here, v, loaded, none) ==
    /\ At("main", here)
    /\ IF fd[v] = -1
       THEN Goto("main", none)
       ELSE th' = [th EXCEPT !["main"].at = loaded, !["main"].num = fd[v]]
    /\ UNCHANGED <<fd, flags, kernel, clients>>

(* A system call on the number in main's hands: it fails on a number that  *)
(* names nothing, and otherwise waits on the object.                       *)
Call(here, waiting, failed) ==
    LET o == table[th["main"].num]
    IN  /\ At("main", here)
        /\ IF o = Free
           THEN Goto("main", failed)
           ELSE th' = [th EXCEPT !["main"].at = waiting, !["main"].on = o]
        /\ UNCHANGED <<fd, flags, kernel, clients>>

-----------------------------------------------------------------------------
(* Start-up.  A failure is an exception that reaches main's outer handler. *)

Fails(next) == result' = "fault" /\ Goto("main", next)

CreateSocket ==
    /\ At("main", "socket")
    /\ \/ /\ Open(Listener, "bind")
          /\ fd' = [fd EXCEPT !.listen = th'["main"].num]
          /\ UNCHANGED result
       \/ Fails("return") /\ UNCHANGED <<fd, table>>
    /\ UNCHANGED <<stopped, running, shut, pending, clients>>

(* On a failure the constructor closes the socket: no destructor will run. *)
Bind ==
    \/ Jump("main", "bind", "load")
    \/ /\ At("main", "bind")
       /\ result' = "fault"
       /\ fd' = [fd EXCEPT !.listen = -1]
       /\ th' = [th EXCEPT !["main"].at = "shutdown",
                           !["main"].ret = "return",
                           !["main"].num = fd.listen]
       /\ UNCHANGED <<stopped, running, kernel, clients>>

(* The store is loaded and the signal thread starts, or the store's file   *)
(* is refused and the server object is destroyed.                          *)
LoadStore ==
    /\ At("main", "load")
    /\ \/ /\ th' = [th EXCEPT !["main"].at = "loop", !["signal"].at = "wait"]
          /\ UNCHANGED result
       \/ Fails("stop")
    /\ UNCHANGED <<fd, stopped, running, kernel, clients>>

-----------------------------------------------------------------------------
(* acceptClient.                                                           *)

Loop == Jump("main", "loop", IF running THEN "accept" ELSE "join")

(* Mutant of AcceptClient: the previous client is not closed.              *)
AcceptClientKeepsOld == Jump("main", "accept", "check")

AcceptClient == CloseSocket("main", "accept", "client", "check")

CheckStopped == Jump("main", "check", IF stopped THEN "join" ELSE "listenFd")

LoadListenFd == LoadFd("listenFd", "listen", "acceptCall", "woken")

AcceptCall == Call("acceptCall", "accepting", "woken")

Accepted ==
    /\ At("main", "accepting")
    /\ th["main"].on \notin shut
    /\ backlog # <<>>
    /\ Open(Head(backlog), "store")
    /\ backlog' = Tail(backlog)
    /\ UNCHANGED <<fd, flags, shut, pending, sent, peer>>

AcceptWoken == th["main"].on \in shut /\ Jump("main", "accepting", "woken")

(* accept fails although nobody stops the server, for want of descriptors  *)
(* or memory.                                                              *)
AcceptFaults == Jump("main", "accepting", "faulted")

(* A failure during a stop is the answer false; any other ends main.       *)
AcceptFailed ==
    \E why \in {"woken", "faulted"} :
        /\ At("main", why)
        /\ result' = CASE stopped -> result
                       [] ~stopped /\ why = "faulted" -> "fault"
                       [] OTHER -> "failed"
        /\ Goto("main", "join")
        /\ UNCHANGED <<fd, stopped, running, kernel, clients>>

StoreClientFd ==
    /\ At("main", "store")
    /\ fd' = [fd EXCEPT !.client = th["main"].num]
    /\ Goto("main", "recheck")
    /\ UNCHANGED <<flags, kernel, clients>>

Recheck ==
    \/ stopped /\ CloseSocket("main", "recheck", "client", "join")
    \/ ~stopped /\ Jump("main", "recheck", "inner")

-----------------------------------------------------------------------------
(* One client's batches.  End of stream and exceptions both lead back to   *)
(* the outer loop.                                                         *)

Inner == Jump("main", "inner", IF running THEN "clientFd" ELSE "loop")

LoadForReceive == LoadFd("clientFd", "client", "recv", "loop")

RecvCall == Call("recv", "receiving", "loop")

(* A frame arrives, and is a batch or is refused by the decoder.           *)
ReceiveFrame ==
    LET c == th["main"].on
    IN  /\ At("main", "receiving")
        /\ sent[c] > 0
        /\ sent' = [sent EXCEPT ![c] = @ - 1]
        /\ \E next \in {"persist", "loop"} : Goto("main", next)
        /\ UNCHANGED <<fd, flags, kernel, backlog, peer>>

(* recv has nothing more to give: shut down, closed by the peer or reset.  *)
StreamEnds ==
    \/ th["main"].on \in shut
    \/ th["main"].on \in Gone /\ sent[th["main"].on] = 0

(* Mutant of ReceiveEnd: the end is taken for an empty batch.              *)
ReceiveEndStays == StreamEnds /\ Jump("main", "receiving", "inner")

ReceiveEnd == StreamEnds /\ Jump("main", "receiving", "loop")

(* confirm has nothing to write when the watermark does not move.          *)
NothingNew == Jump("main", "persist", "ack")

(* confirm opens a file, under the lowest free number.                     *)
OpenFile ==
    /\ At("main", "persist")
    /\ Open(File, "persisting")
    /\ UNCHANGED <<fd, flags, shut, pending, clients>>

(* The file is closed and confirm returns or throws.                       *)
CloseFile ==
    /\ At("main", "persisting")
    /\ table' = [table EXCEPT ![th["main"].num] = Free]
    /\ \E next \in {"ack", "loop"} : Goto("main", next)
    /\ UNCHANGED <<fd, flags, shut, pending, clients>>

LoadForAck == LoadFd("ack", "client", "send", "loop")

SendCall == Call("send", "sending", "loop")

SendAck ==
    /\ th["main"].on \notin Deaf \cup Gone \cup shut
    /\ Jump("main", "sending", "inner")

SendFails ==
    /\ th["main"].on \in Gone \cup shut
    /\ Jump("main", "sending", "loop")

-----------------------------------------------------------------------------
(* Stopping.                                                               *)

(* request_stop makes the signal thread end; ~jthread joins it, also when  *)
(* main leaves by an exception, and ~TcpServer follows.                    *)
Join == At("signal", "ended") /\ Jump("main", "join", "stop")

(* waitFor timed out and stop was requested.                               *)
SignalEnds == At("main", "join") /\ Jump("signal", "wait", "ended")

(* waitFor took the signal.                                                *)
SignalTaken ==
    /\ At("signal", "wait")
    /\ pending
    /\ pending' = FALSE
    /\ running' = FALSE
    /\ Goto("signal", "stop")
    /\ UNCHANGED <<fd, stopped, result, table, shut, clients>>

(* waitFor has thrown; the handler stops the server too.                   *)
WaitFails ==
    /\ At("signal", "wait")
    /\ running' = FALSE
    /\ Goto("signal", "stop")
    /\ UNCHANGED <<fd, stopped, result, kernel, clients>>

(* Mutant of Stop: the flag is not set before the sockets are closed.      *)
StopUnmarked(t) == Jump(t, "stop", "stopClient")

(* TcpServer::stop, by either thread: the flag, then the client, then the  *)
(* listening socket.                                                       *)
Stop(t) ==
    /\ At(t, "stop")
    /\ stopped' = TRUE
    /\ Goto(t, "stopClient")
    /\ UNCHANGED <<fd, running, result, kernel, clients>>

StopClient(t) == CloseSocket(t, "stopClient", "client", "stopListen")

StopListen(t) ==
    CloseSocket(t, "stopListen", "listen",
                IF t = "main" THEN "return" ELSE "ended")

(* ~ShutdownSignal restores the mask; a signal still pending is delivered. *)
Return ==
    /\ At("main", "return")
    /\ pending' = FALSE
    /\ Goto("main", "exited")
    /\ UNCHANGED <<fd, flags, table, shut, clients>>

-----------------------------------------------------------------------------
(* The clients and the operator.                                           *)

SendSignal ==
    /\ ~At("main", "exited")
    /\ ~pending
    /\ pending' = TRUE
    /\ UNCHANGED <<fd, flags, th, table, shut, clients>>

Connect(c) ==
    /\ peer[c] = "new"
    /\ ~At("main", "bind")
    /\ Listener \in {table[n] : n \in Fds} \ shut
    /\ Len(backlog) < Backlog
    /\ peer' = [peer EXCEPT ![c] = "here"]
    /\ backlog' = Append(backlog, c)
    /\ UNCHANGED <<fd, flags, th, kernel, sent>>

SendFrame(c) ==
    /\ peer[c] = "here"
    /\ sent[c] < MaxFrames
    /\ sent' = [sent EXCEPT ![c] = @ + 1]
    /\ UNCHANGED <<fd, flags, th, kernel, backlog, peer>>

Leave(c) ==
    /\ peer[c] = "here"
    /\ peer' = [peer EXCEPT ![c] = "gone"]
    /\ UNCHANGED <<fd, flags, th, kernel, backlog, sent>>

-----------------------------------------------------------------------------
StopSteps(t) ==
    Stop(t) \/ StopClient(t) \/ StopListen(t) \/ Shutdown(t) \/ Close(t)

Main ==
    \/ CreateSocket \/ Bind \/ LoadStore \/ Loop \/ AcceptClient
    \/ CheckStopped \/ LoadListenFd \/ AcceptCall \/ Accepted \/ AcceptWoken
    \/ AcceptFailed \/ StoreClientFd \/ Recheck \/ Inner \/ LoadForReceive
    \/ RecvCall \/ ReceiveFrame \/ ReceiveEnd \/ NothingNew \/ OpenFile
    \/ CloseFile \/ LoadForAck \/ SendCall \/ SendAck \/ SendFails
    \/ Join \/ StopSteps("main") \/ Return

Signal == SignalTaken \/ SignalEnds \/ StopSteps("signal")

Environment ==
    \/ SendSignal \/ AcceptFaults \/ WaitFails
    \/ \E c \in Clients : Connect(c) \/ SendFrame(c) \/ Leave(c)

Next == Main \/ Signal \/ Environment

Spec == Init /\ [][Next]_vars /\ WF_vars(Main) /\ WF_vars(Signal)

-----------------------------------------------------------------------------
(* Who will close the number n: an atomic variable, a thread between its   *)
(* exchange and its close, main between accept and store, or main while    *)
(* its file is open.                                                       *)
Owners(n) ==
    {v \in {"listen", "client"} : fd[v] = n}
        \cup {t \in Thread :
                 /\ th[t].at \in {"shutdown", "close", "store", "persisting"}
                 /\ th[t].num = n}

(* Whatever the two threads interleave, an open descriptor has one owner   *)
(* and a closed one none: no client's socket is left behind when the next  *)
(* is accepted, nothing is open when main has returned, and no number is   *)
(* closed twice, which would close whatever has the number by then         *)
(* (closeSocket, acceptClient and stop of TcpServer.cpp).                  *)
OneOwner ==
    \A n \in Fds : Cardinality(Owners(n)) = IF table[n] = Free THEN 0 ELSE 1

(* A stop request alone never makes main report a failure: an accept that  *)
(* stop() interrupts is recognised as such, at whatever point it hits.     *)
StopIsClean == result # "failed"

(* A signal ends the server, wherever main is: blocked in accept, in recv  *)
(* from a silent client, in send to one that does not read, or between     *)
(* reading a descriptor and using it.                                      *)
StopCompletes == pending ~> At("main", "exited")

(* The server reads from one client at a time and without a time limit.    *)
(* If every client leaves in the end, each one that waits in the backlog   *)
(* gets its turn or the server stops.                                      *)
WaitingServed ==
    (\A c \in Clients : peer[c] = "here" ~> peer[c] = "gone") =>
        \A c \in Clients :
            (\E i \in DOMAIN backlog : backlog[i] = c) ~>
                \/ ~\E i \in DOMAIN backlog : backlog[i] = c
                \/ At("main", "exited")
=============================================================================
