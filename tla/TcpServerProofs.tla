-------------------------- MODULE TcpServerProofs --------------------------
(***************************************************************************)
(* Descriptors are neither leaked nor closed twice, and a stop is never    *)
(* reported as a failure: for any number of clients, descriptors and       *)
(* frames, and any interleaving of main and the signal thread.             *)
(***************************************************************************)
EXTENDS TcpServer, FiniteSetTheorems, WellFoundedInduction, TLAPS

M == th["main"]
S == th["signal"]

(* A thread at these labels will close the number in its hands.            *)
HoldLabel == {"shutdown", "close", "store", "persisting"}

Holds(t) == th[t].at \in HoldLabel

Closing(t) == th[t].at \in {"shutdown", "close"}

(* Every open number has an owner, every owner an open number of the right *)
(* kind, and no number has two.                                            *)
Own ==
    /\ fd["listen"] # -1 => table[fd["listen"]] = Listener
    /\ fd["client"] # -1 => table[fd["client"]] \in Clients
    /\ \A t \in Thread : Holds(t) => /\ table[th[t].num] # Free
                                     /\ th[t].num # fd["listen"]
                                     /\ th[t].num # fd["client"]
    /\ Holds("main") /\ Holds("signal") => M.num # S.num
    /\ \A n \in Fds : table[n] # Free =>
          \/ n = fd["listen"] \/ n = fd["client"]
          \/ \E t \in Thread : Holds(t) /\ th[t].num = n

SignalLabel == {"notStarted", "wait", "stop", "stopClient", "stopListen",
                "shutdown", "close", "ended"}

(* The signal thread runs only when the server is complete, and where each *)
(* thread goes on after closeSocket.                                       *)
Places ==
    /\ M.at = "socket" => fd["listen"] = -1
    /\ M.at \in {"bind", "load"} => fd["listen"] # -1
    /\ M.at \in {"socket", "bind", "load"} => S.at = "notStarted" /\ shut = {}
    /\ M.at \notin {"notStarted", "wait", "ended"}
    /\ S.at \in SignalLabel
    /\ Closing("signal") => S.ret \in {"stopListen", "ended"}
    /\ Closing("main") => M.ret \in {"check", "join", "stopListen", "return"}

(* From the exchange in acceptClient to the store, clientFd_ is empty, so  *)
(* the store overwrites nothing.                                           *)
AcceptLabel == {"check", "listenFd", "acceptCall", "accepting", "woken",
                "faulted", "store"}

NoClientHeld ==
    M.at \in AcceptLabel \/ (Closing("main") /\ M.ret = "check")
        => fd["client"] = -1

(* A number that main has read can be closed under its hands, and then     *)
(* names nothing: it never names another object.                           *)
Kinds ==
    /\ M.at = "acceptCall" => table[M.num] \in {Listener, Free}
    /\ M.at \in {"recv", "send"} => table[M.num] \in Clients \cup {Free}
    /\ M.at = "store" => table[M.num] \in Clients
    /\ M.at = "accepting" => M.on = Listener
    /\ M.at \in {"receiving", "sending"} => M.on \in Clients
    /\ Closing("main") /\ M.ret \in {"check", "join"} => table[M.num] \in Clients

ServeLabel == {"loop", "accept", "check", "listenFd", "acceptCall",
               "accepting", "woken", "faulted", "store", "recheck", "inner",
               "clientFd", "recv", "receiving", "persist", "persisting",
               "ack", "send", "sending"}

Serves == M.at \in ServeLabel \/ (Closing("main") /\ M.ret = "check")

(* While main serves, only a stop takes the listening socket away, and it  *)
(* has set stopped_ before.                                                *)
StopMarked ==
    /\ Serves => /\ fd["listen"] = -1 => stopped
                 /\ Listener \in shut => stopped
    /\ M.at = "woken" => stopped
    /\ M.at = "acceptCall" => M.num = fd["listen"] \/ stopped
    /\ S.at \in {"stopClient", "stopListen", "shutdown", "close"} => stopped
    /\ StopIsClean

Safe == Own /\ Places /\ NoClientHeld /\ Kinds /\ StopMarked

-----------------------------------------------------------------------------
(* What a step does to the record of a thread.                             *)

ThreadType == [at : Label, ret : Label, num : Fds, on : Socket \cup {Free}]

Becomes(t, l, r, n, o) ==
    /\ th' \in [Thread -> ThreadType]
    /\ th'[t].at = l
    /\ th'[t].ret = r
    /\ th'[t].num = n
    /\ th'[t].on = o
    /\ \A u \in Thread : u # t => th'[u] = th[u]

(* The fields of a thread have their types.                                *)
LEMMA Fields ==
  ASSUME th \in [Thread -> ThreadType], NEW t \in Thread
  PROVE  /\ th[t].at \in Label /\ th[t].ret \in Label /\ th[t].num \in Fds
         /\ th[t].on \in Socket \cup {Free}
  BY DEF ThreadType

(* It goes to another place.                                               *)
LEMMA MoveAt ==
  ASSUME th \in [Thread -> ThreadType], NEW t \in Thread, NEW l \in Label,
         th' = [th EXCEPT ![t].at = l]
  PROVE  Becomes(t, l, th[t].ret, th[t].num, th[t].on)
<1> DEFINE rec == [th[t] EXCEPT !.at = l]
<1>1. th[t] \in ThreadType
  OBVIOUS
<1>2. th' = [th EXCEPT ![t] = rec]
  OBVIOUS
<1>3. /\ rec \in ThreadType /\ rec.at = l /\ rec.ret = th[t].ret
      /\ rec.num = th[t].num /\ rec.on = th[t].on
  BY <1>1 DEF ThreadType
<1> HIDE DEF rec
<1>4. th'[t] = rec /\ \A u \in Thread : u # t => th'[u] = th[u]
  BY <1>2
<1>5. th' \in [Thread -> ThreadType]
  BY <1>2, <1>3
<1> QED
  BY <1>3, <1>4, <1>5 DEF Becomes

(* It takes a number and will return to a place.                           *)
LEMMA MoveTake ==
  ASSUME th \in [Thread -> ThreadType], NEW t \in Thread, NEW l \in Label,
         NEW r \in Label, NEW n \in Fds,
         th' = [th EXCEPT ![t].at = l, ![t].ret = r, ![t].num = n]
  PROVE  Becomes(t, l, r, n, th[t].on)
<1> DEFINE rec == [th[t] EXCEPT !.at = l, !.ret = r, !.num = n]
<1>1. th[t] \in ThreadType
  OBVIOUS
<1>2. th' = [th EXCEPT ![t] = rec]
  OBVIOUS
<1>3. /\ rec \in ThreadType /\ rec.at = l /\ rec.ret = r /\ rec.num = n
      /\ rec.on = th[t].on
  BY <1>1 DEF ThreadType
<1> HIDE DEF rec
<1>4. th'[t] = rec /\ \A u \in Thread : u # t => th'[u] = th[u]
  BY <1>2
<1>5. th' \in [Thread -> ThreadType]
  BY <1>2, <1>3
<1> QED
  BY <1>3, <1>4, <1>5 DEF Becomes

(* It takes a number.                                                      *)
LEMMA MoveNum ==
  ASSUME th \in [Thread -> ThreadType], NEW t \in Thread, NEW l \in Label,
         NEW n \in Fds, th' = [th EXCEPT ![t].at = l, ![t].num = n]
  PROVE  Becomes(t, l, th[t].ret, n, th[t].on)
<1> DEFINE rec == [th[t] EXCEPT !.at = l, !.num = n]
<1>1. th[t] \in ThreadType
  OBVIOUS
<1>2. th' = [th EXCEPT ![t] = rec]
  OBVIOUS
<1>3. /\ rec \in ThreadType /\ rec.at = l /\ rec.ret = th[t].ret /\ rec.num = n
      /\ rec.on = th[t].on
  BY <1>1 DEF ThreadType
<1> HIDE DEF rec
<1>4. th'[t] = rec /\ \A u \in Thread : u # t => th'[u] = th[u]
  BY <1>2
<1>5. th' \in [Thread -> ThreadType]
  BY <1>2, <1>3
<1> QED
  BY <1>3, <1>4, <1>5 DEF Becomes

(* It waits on an object.                                                  *)
LEMMA MoveOn ==
  ASSUME th \in [Thread -> ThreadType], NEW t \in Thread, NEW l \in Label,
         NEW o \in Socket \cup {Free},
         th' = [th EXCEPT ![t].at = l, ![t].on = o]
  PROVE  Becomes(t, l, th[t].ret, th[t].num, o)
<1> DEFINE rec == [th[t] EXCEPT !.at = l, !.on = o]
<1>1. th[t] \in ThreadType
  OBVIOUS
<1>2. th' = [th EXCEPT ![t] = rec]
  OBVIOUS
<1>3. /\ rec \in ThreadType /\ rec.at = l /\ rec.ret = th[t].ret
      /\ rec.num = th[t].num /\ rec.on = o
  BY <1>1 DEF ThreadType
<1> HIDE DEF rec
<1>4. th'[t] = rec /\ \A u \in Thread : u # t => th'[u] = th[u]
  BY <1>2
<1>5. th' \in [Thread -> ThreadType]
  BY <1>2, <1>3
<1> QED
  BY <1>3, <1>4, <1>5 DEF Becomes

-----------------------------------------------------------------------------
(* Steps of main that open and close nothing.                              *)

(* What such a step has to respect for Safe to survive it.                 *)
LEMMA MainMoves ==
  ASSUME TypeOK, Safe, NEW l, NEW n, NEW o,
         Becomes("main", l, M.ret, n, o), UNCHANGED <<fd, table, shut>>,
         stopped => stopped', result' # "failed",
         M.at \notin HoldLabel, l \notin HoldLabel,
         l \notin {"socket", "notStarted", "wait", "ended", "bind"},
         l = "load" => M.at = "bind",
         l \in AcceptLabel => fd["client"] = -1,
         l \in ServeLabel => M.at \in ServeLabel,
         l = "woken" => stopped,
         l = "acceptCall" => n = fd["listen"] /\ n # -1,
         l \in {"recv", "send"} => table[n] \in Clients \cup {Free},
         l = "accepting" => o = Listener,
         l \in {"receiving", "sending"} => o \in Clients
  PROVE  Safe'
<1> USE DEF Safe, M, S, Becomes
<1>0. th'["signal"] = th["signal"] /\ Thread = {"main", "signal"}
  BY DEF Thread
<1>1. Own'
  BY <1>0 DEF Own, Holds, HoldLabel
<1>2. Places'
  BY <1>0 DEF Places, Closing, HoldLabel
<1>3. NoClientHeld' /\ Kinds'
  BY <1>0 DEF NoClientHeld, Kinds, Closing, HoldLabel, Own
<1>4. StopMarked'
  BY <1>0 DEF StopMarked, StopIsClean, Closing, HoldLabel, Serves
<1> QED
  BY <1>1, <1>2, <1>3, <1>4

(* Steps of the signal thread that close nothing.                          *)
LEMMA SignalMoves ==
  ASSUME TypeOK, Safe, NEW l, NEW r, NEW n, NEW o,
         Becomes("signal", l, r, n, o), UNCHANGED <<fd, table, shut, result>>,
         stopped => stopped',
         S.at \notin HoldLabel \cup {"notStarted"}, l \in SignalLabel \ HoldLabel,
         l \in {"stopClient", "stopListen"} => stopped'
  PROVE  Safe'
<1> USE DEF Safe, M, S, Becomes
<1>0. th'["main"] = th["main"] /\ Thread = {"main", "signal"}
  BY DEF Thread
<1>1. Own'
  BY <1>0 DEF Own, Holds, HoldLabel
<1>2. Places'
  BY <1>0 DEF Places, Closing, HoldLabel, SignalLabel
<1>3. NoClientHeld' /\ Kinds'
  BY <1>0 DEF NoClientHeld, Kinds, Closing
<1>4. StopMarked'
  BY <1>0 DEF StopMarked, StopIsClean, Closing, HoldLabel, Serves, Places
<1> QED
  BY <1>1, <1>2, <1>3, <1>4

-----------------------------------------------------------------------------
(* closeSocket.                                                            *)

(* The exchange takes the number from the atomic variable into the hands   *)
(* of the thread.                                                          *)
LEMMA TakeOwn ==
  ASSUME TypeOK, Safe, NEW t \in Thread, NEW v \in {"listen", "client"},
         NEW r, NEW o,
         fd[v] # -1, Becomes(t, "shutdown", r, fd[v], o),
         fd' = [fd EXCEPT ![v] = -1], UNCHANGED table, ~ Holds(t)
  PROVE  Own'
<1> USE DEF Safe, Own
<1>1. /\ fd'[v] = -1
      /\ \A w \in {"listen", "client"} : w # v => fd'[w] = fd[w]
  BY DEF TypeOK
<1>2. /\ Holds(t)' /\ th'[t].num = fd[v]
      /\ \A u \in Thread : u # t => (Holds(u)' <=> Holds(u)) /\ th'[u] = th[u]
  BY DEF Becomes, Holds, HoldLabel
<1>3. fd["listen"] # -1 => fd["listen"] # fd["client"]
  BY ServerAssumption
<1>4. fd[v] \in Fds /\ table[fd[v]] # Free
  BY ServerAssumption DEF TypeOK
<1>5. -1 \notin Fds
  BY DEF Fds
<1>6. \A u \in Thread : th[u].num \in Fds
  BY Fields DEF TypeOK, ThreadType
<1>7. \A u \in Thread : Holds(u)' => /\ table'[th'[u].num] # Free
                                     /\ th'[u].num # fd'["listen"]
                                     /\ th'[u].num # fd'["client"]
  BY <1>1, <1>2, <1>3, <1>4, <1>5, <1>6
<1>8. Holds("main")' /\ Holds("signal")' => M'.num # S'.num
  BY <1>2 DEF Thread, M, S
<1>9. ASSUME NEW n \in Fds, table'[n] # Free
      PROVE  \/ n = fd'["listen"] \/ n = fd'["client"]
             \/ \E u \in Thread : Holds(u)' /\ th'[u].num = n
  <2>1. CASE \E u \in Thread : Holds(u) /\ th[u].num = n
    BY <1>2, <2>1
  <2>2. CASE \E w \in {"listen", "client"} : n = fd[w]
    BY <1>1, <1>2, <2>2
  <2> QED
    BY <1>9, <2>1, <2>2
<1>10. /\ fd'["listen"] # -1 => table'[fd'["listen"]] = Listener
       /\ fd'["client"] # -1 => table'[fd'["client"]] \in Clients
  BY <1>1
<1> QED
  BY <1>7, <1>8, <1>9, <1>10

(* Main takes a client, on its way to accept or to the end, or the         *)
(* listening socket, at the end.                                           *)
LEMMA MainTakes ==
  ASSUME TypeOK, Safe, NEW v \in {"listen", "client"}, NEW r, NEW o,
         fd[v] # -1, Becomes("main", "shutdown", r, fd[v], o),
         fd' = [fd EXCEPT ![v] = -1], UNCHANGED <<stopped, table, shut>>,
         result' # "failed",
         M.at \notin HoldLabel \cup {"socket"},
         \/ v = "client" /\ r \in {"check", "join", "stopListen"}
         \/ v = "listen" /\ r = "return",
         r = "check" => M.at \in ServeLabel
  PROVE  Safe'
<1> USE DEF Safe, M, S
<1>0. th'["signal"] = th["signal"] /\ Thread = {"main", "signal"}
  BY DEF Thread, Becomes
<1>1. Own'
  BY TakeOwn DEF Holds, Thread
<1>a. /\ fd'[v] = -1
      /\ \A w \in {"listen", "client"} : w # v => fd'[w] = fd[w]
  BY DEF TypeOK
<1>2. Places'
  BY <1>0, <1>a DEF Places, Closing, Becomes
<1>3. NoClientHeld' /\ Kinds'
  BY <1>0, <1>a DEF NoClientHeld, Kinds, Closing, Becomes, Own, AcceptLabel
<1>4. StopMarked'
  BY <1>0, <1>a DEF StopMarked, StopIsClean, Closing, Serves, Becomes, ServeLabel
<1> QED
  BY <1>1, <1>2, <1>3, <1>4

(* The signal thread takes a socket, in stop().                            *)
LEMMA SignalTakes ==
  ASSUME TypeOK, Safe, NEW v \in {"listen", "client"}, NEW r, NEW o,
         fd[v] # -1, Becomes("signal", "shutdown", r, fd[v], o),
         fd' = [fd EXCEPT ![v] = -1], UNCHANGED <<stopped, table, shut, result>>,
         S.at \in {"stopClient", "stopListen"}, r \in {"stopListen", "ended"}
  PROVE  Safe'
<1> USE DEF Safe, M, S
<1>0. th'["main"] = th["main"] /\ Thread = {"main", "signal"}
  BY DEF Thread, Becomes
<1>1. Own'
  BY TakeOwn DEF Holds, Thread, HoldLabel
<1>a. /\ fd'[v] = -1
      /\ \A w \in {"listen", "client"} : w # v => fd'[w] = fd[w]
  BY DEF TypeOK
<1>b. stopped
  BY DEF StopMarked
<1>2. Places'
  BY <1>0, <1>a DEF Places, Closing, Becomes, SignalLabel
<1>3. NoClientHeld' /\ Kinds'
  BY <1>0, <1>a DEF NoClientHeld, Kinds, Closing
<1>4. StopMarked'
  BY <1>0, <1>b DEF StopMarked, StopIsClean, Closing, Serves
<1> QED
  BY <1>1, <1>2, <1>3, <1>4

(* shutdown: the object is a client's socket or a stop is under way.       *)
LEMMA ShutdownSafe ==
  ASSUME TypeOK, Safe, NEW t \in Thread, Shutdown(t)
  PROVE  Safe'
<1> USE DEF Safe, M, S
<1>0. /\ th[t].at = "shutdown" /\ "close" \in Label
      /\ th \in [Thread -> ThreadType]
      /\ th' = [th EXCEPT ![t].at = "close"]
      /\ UNCHANGED <<fd, stopped, table, result>>
      /\ shut' = shut \cup ({table[th[t].num]} \cap Socket)
  BY DEF Shutdown, At, Goto, Label, TypeOK, ThreadType, flags
<1>1. Becomes(t, "close", th[t].ret, th[t].num, th[t].on)
  BY <1>0, MoveAt
<1>2. \A u \in Thread : /\ Holds(u)' <=> Holds(u)
                        /\ Closing(u)' <=> Closing(u)
                        /\ th'[u].num = th[u].num
                        /\ th'[u].ret = th[u].ret
                        /\ u # t => th'[u] = th[u]
  BY <1>0, <1>1 DEF Becomes, Holds, HoldLabel, Closing
<1>3. Thread = {"main", "signal"}
  BY DEF Thread
<1>4. Own'
  BY <1>0, <1>2, <1>3 DEF Own
<1>5. CASE t = "main"
  <2>1. M.at = "shutdown" /\ M'.at = "close" /\ S' = S
    BY <1>0, <1>1, <1>2, <1>3, <1>5 DEF Becomes
  <2>2. Places'
    BY <1>0, <1>2, <1>3, <2>1 DEF Places
  <2>3. NoClientHeld' /\ Kinds'
    BY <1>0, <1>2, <1>3, <2>1 DEF NoClientHeld, Kinds, AcceptLabel
  <2>4. StopMarked'
    <3>1. Serves' => M.ret = "check" /\ Serves
      BY <1>2, <1>3, <2>1 DEF Serves, ServeLabel, Closing
    <3>2. M.ret = "check" => table[M.num] \in Clients
      BY <2>1 DEF Kinds, Closing
    <3>3. M.ret = "check" => (Listener \in shut' => Listener \in shut)
      BY <1>0, <1>5, <3>2, ServerAssumption
    <3> QED
      BY <1>0, <2>1, <3>1, <3>3 DEF StopMarked, StopIsClean
  <2> QED
    BY <1>4, <2>2, <2>3, <2>4
<1>6. CASE t = "signal"
  <2>1. S.at = "shutdown" /\ S'.at = "close" /\ M' = M /\ stopped
    BY <1>0, <1>1, <1>2, <1>3, <1>6 DEF Becomes, StopMarked
  <2>2. Places'
    BY <1>0, <1>2, <1>3, <2>1 DEF Places, SignalLabel
  <2>3. NoClientHeld' /\ Kinds'
    BY <1>0, <1>2, <1>3, <2>1 DEF NoClientHeld, Kinds, AcceptLabel
  <2>4. StopMarked'
    BY <1>0, <2>1 DEF StopMarked, StopIsClean
  <2> QED
    BY <1>4, <2>2, <2>3, <2>4
<1> QED
  BY <1>3, <1>5, <1>6

(* A thread that holds a number closes it.                                 *)
LEMMA CloseOwn ==
  ASSUME TypeOK, Safe, NEW t \in Thread, Holds(t),
         NEW l, NEW r, NEW n, NEW o, Becomes(t, l, r, n, o), l \notin HoldLabel,
         table' = [table EXCEPT ![th[t].num] = Free], UNCHANGED fd
  PROVE  Own'
<1> USE DEF Safe, Own
<1>1. /\ ~ Holds(t)'
      /\ \A u \in Thread : u # t => (Holds(u)' <=> Holds(u)) /\ th'[u] = th[u]
  BY DEF Becomes, Holds
<1>2. \A u \in Thread : th[u].num \in Fds
  BY Fields DEF TypeOK, ThreadType
<1>3. /\ table \in [Fds -> Socket \cup {File, Free}]
      /\ table'[th[t].num] = Free
      /\ \A n1 \in Fds : n1 # th[t].num => table'[n1] = table[n1]
  BY <1>2 DEF TypeOK
<1>4. \A u \in Thread : u # t /\ Holds(u) => th[u].num # th[t].num
  BY DEF Thread, M, S
<1>5. \A v \in {"listen", "client"} : fd[v] # -1 => fd[v] \in Fds
  BY DEF TypeOK
<1> QED
  BY <1>1, <1>2, <1>3, <1>4, <1>5 DEF Thread, M, S

(* close, after shutdown: the thread goes where it was called from.        *)
LEMMA CloseSafe ==
  ASSUME TypeOK, Safe, NEW t \in Thread, Close(t)
  PROVE  Safe'
<1> USE DEF Safe, M, S
<1>0. /\ th[t].at = "close" /\ th[t].ret \in Label
      /\ th \in [Thread -> ThreadType]
      /\ th' = [th EXCEPT ![t].at = th[t].ret]
      /\ table' = [table EXCEPT ![th[t].num] = Free]
      /\ UNCHANGED <<fd, stopped, shut, result>>
  BY DEF Close, At, Goto, TypeOK, ThreadType, flags
<1>1. Becomes(t, th[t].ret, th[t].ret, th[t].num, th[t].on)
  BY <1>0, MoveAt
<1>2. th[t].ret \in {"check", "join", "stopListen", "return", "ended"}
  BY <1>0 DEF Places, Closing, Thread
<1>3. Own'
  BY <1>0, <1>1, <1>2, CloseOwn DEF Holds, HoldLabel
<1>4. \A n \in Fds : table'[n] = table[n] \/ table'[n] = Free
  BY <1>0 DEF TypeOK
<1>5. CASE t = "main"
  <2>1. /\ M.at = "close" /\ M'.at = M.ret /\ M'.ret = M.ret /\ S' = S
        /\ M.ret \in {"check", "join", "stopListen", "return"}
    BY <1>0, <1>1, <1>5 DEF Becomes, Thread, Places, Closing
  <2>2. Places'
    BY <1>0, <2>1 DEF Places, Closing
  <2>3. NoClientHeld' /\ Kinds'
    BY <1>0, <2>1 DEF NoClientHeld, Kinds, AcceptLabel, Closing
  <2>4. StopMarked'
    BY <1>0, <2>1 DEF StopMarked, StopIsClean, Serves, ServeLabel, Closing
  <2> QED
    BY <1>3, <2>2, <2>3, <2>4
<1>6. CASE t = "signal"
  <2>1. /\ S.at = "close" /\ S'.at = S.ret /\ M' = M
        /\ S.ret \in {"stopListen", "ended"} /\ stopped
    BY <1>0, <1>1, <1>6 DEF Becomes, Thread, Places, Closing, StopMarked
  <2>2. Places'
    BY <1>0, <2>1 DEF Places, Closing, SignalLabel
  <2>3. /\ M.num \in Fds
        /\ Holds("main") => table'[M.num] = table[M.num]
    <3>1. M.num \in Fds /\ S.num \in Fds
      BY <1>0, Fields DEF Thread
    <3>2. Holds("main") => M.num # S.num
      BY <1>0, <1>6 DEF Own, Holds, HoldLabel
    <3> QED
      BY <1>0, <1>6, <3>1, <3>2 DEF TypeOK
  <2>4. NoClientHeld' /\ Kinds'
    BY <1>0, <1>4, <2>1, <2>3
       DEF NoClientHeld, Kinds, AcceptLabel, Closing, Holds, HoldLabel
  <2>5. StopMarked'
    BY <1>0, <2>1 DEF StopMarked, StopIsClean
  <2> QED
    BY <1>3, <2>2, <2>4, <2>5
<1> QED
  BY <1>5, <1>6 DEF Thread

-----------------------------------------------------------------------------
(* open, accept and socket.                                                *)

(* The kernel finds the lowest number.                                     *)
LEMMA LowestFree ==
  ASSUME NEW T \in SUBSET Fds, T # {}
  PROVE  Min(T) \in T
<1>1. T \subseteq Nat
  BY ServerAssumption DEF Fds
<1>2. \E x \in T : \A y \in T : ~ (<<y, x>> \in OpToRel(<, Nat))
  BY <1>1, NatLessThanWellFounded, WFMin
<1>3. PICK x \in T : \A y \in T : ~ (y < x)
  BY <1>1, <1>2 DEF OpToRel
<1>4. \A y \in T : x <= y
  BY <1>1, <1>3
<1> QED
  BY <1>4 DEF Min

(* A number that was free is in main's hands.                              *)
LEMMA OpenFacts ==
  ASSUME TypeOK, NEW o, NEW l \in Label, Open(o, l)
  PROVE  \E n \in Fds : /\ table[n] = Free
                        /\ table' = [table EXCEPT ![n] = o]
                        /\ Becomes("main", l, M.ret, n, M.on)
<1> DEFINE n == Min({k \in Fds : table[k] = Free})
<1>1. n \in {k \in Fds : table[k] = Free}
  BY LowestFree DEF Open
<1>2. /\ table' = [table EXCEPT ![n] = o]
      /\ th' = [th EXCEPT !["main"].at = l, !["main"].num = n]
  BY DEF Open
<1> HIDE DEF n
<1>3. "main" \in Thread /\ th \in [Thread -> ThreadType]
  BY DEF Thread, TypeOK, ThreadType
<1>4. Becomes("main", l, M.ret, n, M.on)
  BY <1>1, <1>2, <1>3, MoveNum DEF M
<1> QED
  BY <1>1, <1>2, <1>4

(* accept and open give main a number that it holds.                       *)
LEMMA OpenSafe ==
  ASSUME TypeOK, Safe, NEW o, o # Free, NEW l, Open(o, l),
         \/ l = "store" /\ M.at = "accepting" /\ o \in Clients
         \/ l = "persisting" /\ M.at = "persist",
         UNCHANGED <<fd, stopped, shut, result>>
  PROVE  Safe'
<1> USE DEF Safe, M, S
<1>1. PICK n \in Fds : /\ table[n] = Free
                       /\ table' = [table EXCEPT ![n] = o]
                       /\ Becomes("main", l, M.ret, n, M.on)
  BY OpenFacts DEF Label
<1>2. /\ M'.at = l /\ M'.num = n /\ S' = S /\ Thread = {"main", "signal"}
  BY <1>1 DEF Becomes, Thread
<1>3. table'[n] = o /\ \A k \in Fds : k # n => table'[k] = table[k]
  BY <1>1 DEF TypeOK
<1>4. /\ \A v \in {"listen", "client"} : fd[v] # -1 => fd[v] \in Fds
      /\ \A t \in Thread : th[t].num \in Fds
      /\ -1 \notin Fds
  BY Fields DEF TypeOK, ThreadType, Fds
<1>5. ~ Holds("main") /\ Holds("main")' /\ (Holds("signal")' <=> Holds("signal"))
  BY <1>2 DEF Holds, HoldLabel
<1>6. /\ fd["listen"] # n /\ fd["client"] # n
      /\ Holds("signal") => S.num # n
  BY <1>1, <1>2, <1>4, ServerAssumption DEF Own
<1>7. /\ fd'["listen"] # -1 => table'[fd'["listen"]] = Listener
      /\ fd'["client"] # -1 => table'[fd'["client"]] \in Clients
  BY <1>3, <1>4, <1>6 DEF Own
<1>8. \A t \in Thread : Holds(t)' => /\ table'[th'[t].num] # Free
                                     /\ th'[t].num # fd'["listen"]
                                     /\ th'[t].num # fd'["client"]
  BY <1>2, <1>3, <1>4, <1>5, <1>6 DEF Own
<1>9. \A k \in Fds : table'[k] # Free =>
         \/ k = fd'["listen"] \/ k = fd'["client"]
         \/ \E t \in Thread : Holds(t)' /\ th'[t].num = k
  <2> SUFFICES ASSUME NEW k \in Fds, table'[k] # Free, k # n,
                      k # fd["listen"], k # fd["client"]
               PROVE  \E t \in Thread : Holds(t)' /\ th'[t].num = k
    BY <1>2, <1>5
  <2>1. PICK t \in Thread : Holds(t) /\ th[t].num = k
    BY <1>3 DEF Own
  <2>2. t = "signal"
    BY <1>2, <1>5, <2>1
  <2> QED
    BY <1>2, <1>5, <2>1, <2>2
<1>10. Own'
  BY <1>2, <1>5, <1>6, <1>7, <1>8, <1>9 DEF Own
<1>11. Places'
  BY <1>2 DEF Places, Closing
<1>12. NoClientHeld' /\ Kinds'
  BY <1>2, <1>3 DEF NoClientHeld, Kinds, Closing, AcceptLabel
<1>13. StopMarked'
  BY <1>2 DEF StopMarked, StopIsClean, Closing, Serves, ServeLabel
<1> QED
  BY <1>10, <1>11, <1>12, <1>13

(* The constructor of TcpServer.                                           *)
LEMMA CreateSocketSafe ==
  ASSUME TypeOK, Safe, CreateSocket
  PROVE  Safe'
<1> USE DEF Safe, M, S
<1>0. M.at = "socket" /\ fd["listen"] = -1 /\ S.at = "notStarted"
  BY DEF CreateSocket, At, Places
<1>1. CASE /\ Open(Listener, "bind")
           /\ fd' = [fd EXCEPT !.listen = th'["main"].num]
           /\ UNCHANGED result
  <2>0. fd' = [fd EXCEPT !["listen"] = M'.num] /\ UNCHANGED <<result, stopped, shut>>
    BY <1>1 DEF CreateSocket
  <2>1. PICK n \in Fds : /\ table[n] = Free
                         /\ table' = [table EXCEPT ![n] = Listener]
                         /\ Becomes("main", "bind", M.ret, n, M.on)
    BY <1>1, OpenFacts DEF Label
  <2>2. /\ M'.at = "bind" /\ M'.num = n /\ S' = S /\ Thread = {"main", "signal"}
    BY <2>1 DEF Becomes, Thread
  <2>3. table'[n] = Listener /\ \A k \in Fds : k # n => table'[k] = table[k]
    BY <2>1 DEF TypeOK
  <2>4. fd'["listen"] = n /\ fd'["client"] = fd["client"] /\ n # -1
    BY <2>0, <2>2 DEF TypeOK, Fds
  <2>5. ~ Holds("main") /\ ~ Holds("signal") /\ ~ Holds("main")' /\ ~ Holds("signal")'
    BY <1>0, <2>2 DEF Holds, HoldLabel
  <2>6. fd["client"] # -1 => fd["client"] \in Fds /\ fd["client"] # n
    BY <2>1, ServerAssumption DEF TypeOK, Own
  <2>a. \A k \in Fds : table'[k] # Free => k = n \/ k = fd["client"]
    <3> SUFFICES ASSUME NEW k \in Fds, k # n, table[k] # Free
                 PROVE  k = fd["client"]
      BY <2>3
    <3>1. k # fd["listen"]
      BY <1>0 DEF Fds
    <3> QED
      BY <2>2, <2>5, <3>1 DEF Own
  <2>b. fd'["client"] # -1 => table'[fd'["client"]] \in Clients
    BY <2>3, <2>4, <2>6 DEF Own
  <2>7. Own'
    BY <2>2, <2>3, <2>4, <2>5, <2>a, <2>b DEF Own
  <2>8. Places'
    BY <1>0, <2>0, <2>2, <2>4 DEF Places, Closing
  <2>9. NoClientHeld' /\ Kinds'
    BY <2>2 DEF NoClientHeld, Kinds, Closing, AcceptLabel
  <2>10. StopMarked'
    BY <2>0, <2>2 DEF StopMarked, StopIsClean, Closing, Serves, ServeLabel
  <2> QED
    BY <2>7, <2>8, <2>9, <2>10
<1>2. CASE Fails("return") /\ UNCHANGED <<fd, table>>
  <2>1. /\ th' = [th EXCEPT !["main"].at = "return"] /\ result' = "fault"
        /\ UNCHANGED <<stopped, shut>>
    BY <1>2 DEF CreateSocket, Fails, Goto
  <2>2. Becomes("main", "return", M.ret, M.num, M.on)
    BY <2>1, MoveAt DEF TypeOK, ThreadType, Thread, Label
  <2> QED
    BY <1>0, <1>2, <2>1, <2>2, MainMoves DEF HoldLabel, AcceptLabel, ServeLabel
<1> QED
  BY <1>1, <1>2 DEF CreateSocket

(* clientFd_.store after an accept.                                        *)
LEMMA StoreSafe ==
  ASSUME TypeOK, Safe, StoreClientFd
  PROVE  Safe'
<1> USE DEF Safe, M, S
<1>1. /\ M.at = "store" /\ fd["client"] = -1 /\ table[M.num] \in Clients
      /\ fd' = [fd EXCEPT !["client"] = M.num]
      /\ th' = [th EXCEPT !["main"].at = "recheck"]
      /\ UNCHANGED <<stopped, result, table, shut>>
  BY DEF StoreClientFd, At, Goto, NoClientHeld, AcceptLabel, Kinds, flags, kernel
<1>2. /\ Thread = {"main", "signal"} /\ M.num \in Fds
      /\ Becomes("main", "recheck", M.ret, M.num, M.on)
  BY <1>1, MoveAt, Fields DEF TypeOK, ThreadType, Thread, Label
<1>3. M'.at = "recheck" /\ S' = S
  BY <1>2 DEF Becomes
<1>4. fd'["client"] = M.num /\ fd'["listen"] = fd["listen"]
  BY <1>1 DEF TypeOK
<1>5. Holds("main") /\ ~ Holds("main")' /\ (Holds("signal")' <=> Holds("signal"))
  BY <1>1, <1>3 DEF Holds, HoldLabel
<1>6. \A n \in Fds : table'[n] # Free =>
         \/ n = fd'["listen"] \/ n = fd'["client"]
         \/ \E t \in Thread : Holds(t)' /\ th'[t].num = n
  <2> SUFFICES ASSUME NEW n \in Fds, table[n] # Free, n # fd["listen"], n # M.num
               PROVE  Holds("signal")' /\ S'.num = n
    BY <1>1, <1>2, <1>4
  <2>1. n # fd["client"]
    BY <1>1 DEF Fds
  <2>2. PICK t \in Thread : Holds(t) /\ th[t].num = n
    BY <2>1 DEF Own
  <2> QED
    BY <1>2, <1>3, <1>5, <2>2
<1>7. Own'
  BY <1>1, <1>2, <1>3, <1>4, <1>5, <1>6 DEF Own
<1>8. Places' /\ NoClientHeld' /\ Kinds'
  BY <1>1, <1>3, <1>4 DEF Places, NoClientHeld, Kinds, Closing, AcceptLabel
<1>9. StopMarked'
  BY <1>1, <1>3, <1>4 DEF StopMarked, StopIsClean, Closing, Serves, ServeLabel
<1> QED
  BY <1>7, <1>8, <1>9

(* confirm has written its file.                                           *)
LEMMA CloseFileSafe ==
  ASSUME TypeOK, Safe, CloseFile
  PROVE  Safe'
<1> USE DEF Safe, M, S
<1>1. PICK l \in {"ack", "loop"} : th' = [th EXCEPT !["main"].at = l]
  BY DEF CloseFile, Goto
<1>2. /\ M.at = "persisting"
      /\ table' = [table EXCEPT ![M.num] = Free]
      /\ UNCHANGED <<fd, stopped, result, shut>>
  BY DEF CloseFile, At, flags
<1>3. "main" \in Thread /\ Becomes("main", l, M.ret, M.num, M.on)
  BY <1>1, MoveAt DEF TypeOK, ThreadType, Thread, Label
<1>4. M'.at = l /\ S' = S
  BY <1>3 DEF Becomes, Thread
<1>5. Own'
  BY <1>2, <1>3, CloseOwn DEF Holds, HoldLabel
<1>6. Places' /\ NoClientHeld' /\ Kinds'
  BY <1>2, <1>4 DEF Places, NoClientHeld, Kinds, Closing, AcceptLabel
<1>7. StopMarked'
  BY <1>2, <1>4 DEF StopMarked, StopIsClean, Closing, Serves, ServeLabel
<1> QED
  BY <1>5, <1>6, <1>7

(* The store is loaded: from now on the signal thread may stop the server. *)
LEMMA LoadStoreSafe ==
  ASSUME TypeOK, Safe, LoadStore
  PROVE  Safe'
<1> USE DEF Safe, M, S
<1>0. /\ M.at = "load" /\ fd["listen"] # -1 /\ shut = {} /\ S.at = "notStarted"
      /\ UNCHANGED <<fd, stopped, table, shut>>
  BY DEF LoadStore, At, Places, kernel
<1>1. CASE Fails("stop")
  <2>1. th' = [th EXCEPT !["main"].at = "stop"] /\ result' = "fault"
    BY <1>1 DEF Fails, Goto
  <2>2. Becomes("main", "stop", M.ret, M.num, M.on)
    BY <2>1, MoveAt DEF TypeOK, ThreadType, Thread, Label
  <2> QED
    BY <1>0, <2>1, <2>2, MainMoves DEF HoldLabel, AcceptLabel, ServeLabel
<1>2. CASE /\ th' = [th EXCEPT !["main"].at = "loop", !["signal"].at = "wait"]
           /\ UNCHANGED result
  <2>1. M'.at = "loop" /\ S'.at = "wait" /\ Thread = {"main", "signal"}
    BY <1>2 DEF TypeOK, Thread
  <2>2. Own'
    BY <1>0, <2>1 DEF Own, Holds, HoldLabel
  <2>3. Places' /\ NoClientHeld' /\ Kinds'
    BY <1>0, <2>1 DEF Places, NoClientHeld, Kinds, Closing, AcceptLabel, SignalLabel
  <2>4. StopMarked'
    BY <1>0, <1>2, <2>1 DEF StopMarked, StopIsClean, Closing, Serves
  <2> QED
    BY <2>2, <2>3, <2>4
<1> QED
  BY <1>1, <1>2 DEF LoadStore

-----------------------------------------------------------------------------
(* Main.                                                                   *)

(* A step of main that changes its place and perhaps stopped_ or the       *)
(* result.                                                                 *)
LEMMA MainGoes ==
  ASSUME TypeOK, Safe, NEW l \in Label, Goto("main", l),
         UNCHANGED <<fd, table, shut>>,
         stopped => stopped', result' # "failed",
         M.at \notin HoldLabel, l \notin HoldLabel,
         l \notin {"socket", "notStarted", "wait", "ended", "bind",
                   "acceptCall", "recv", "send", "accepting", "receiving",
                   "sending"},
         l = "load" => M.at = "bind",
         l \in AcceptLabel => fd["client"] = -1,
         l \in ServeLabel => M.at \in ServeLabel,
         l = "woken" => stopped
  PROVE  Safe'
<1>1. Becomes("main", l, M.ret, M.num, M.on)
  BY MoveAt DEF Goto, TypeOK, ThreadType, Thread, M
<1> QED
  BY <1>1, MainMoves

(* The same for a step that is a Jump.                                     *)
LEMMA MainJumps ==
  ASSUME TypeOK, Safe, NEW here, NEW l \in Label, Jump("main", here, l),
         here \notin HoldLabel, l \notin HoldLabel,
         l \notin {"socket", "notStarted", "wait", "ended", "bind",
                   "acceptCall", "recv", "send", "accepting", "receiving",
                   "sending"},
         l = "load" => here = "bind",
         l \in AcceptLabel => fd["client"] = -1,
         l \in ServeLabel => here \in ServeLabel,
         l = "woken" => stopped
  PROVE  Safe'
<1>1. /\ M.at = here /\ Goto("main", l)
      /\ UNCHANGED <<fd, table, shut, stopped, result>>
  BY DEF Jump, At, M, flags, kernel
<1>2. result' # "failed"
  BY <1>1 DEF Safe, StopMarked, StopIsClean
<1> QED
  BY <1>1, <1>2, MainGoes

(* Main loads an atomic descriptor.                                        *)
LEMMA MainLoads ==
  ASSUME TypeOK, Safe, NEW here, NEW v \in {"listen", "client"},
         NEW l, NEW none, LoadFd(here, v, l, none),
         \/ /\ here = "listenFd" /\ v = "listen" /\ l = "acceptCall"
            /\ none = "woken"
         \/ /\ here \in {"clientFd", "ack"} /\ v = "client"
            /\ l \in {"recv", "send"} /\ none = "loop"
  PROVE  Safe'
<1> USE DEF Safe
<1>1. /\ M.at = here /\ UNCHANGED <<fd, table, shut, stopped, result>>
      /\ result' # "failed" /\ l \in Label /\ none \in Label
      /\ M.at \in ServeLabel \ HoldLabel
      /\ l \notin HoldLabel /\ none \notin HoldLabel
      /\ M.at = "listenFd" => fd["client"] = -1
  BY DEF LoadFd, At, M, flags, kernel, StopMarked, StopIsClean, Label,
         ServeLabel, HoldLabel, NoClientHeld, AcceptLabel
<1>2. CASE fd[v] = -1
  <2>1. Goto("main", none)
    BY <1>2 DEF LoadFd
  <2>2. none = "woken" => stopped
    BY <1>1, <1>2 DEF StopMarked, Serves
  <2> QED
    BY <1>1, <2>1, <2>2, MainGoes DEF AcceptLabel
<1>3. CASE fd[v] # -1
  <2>1. fd[v] \in Fds
    BY <1>3 DEF TypeOK
  <2>2. th' = [th EXCEPT !["main"].at = l, !["main"].num = fd[v]]
    BY <1>3 DEF LoadFd
  <2>3. Becomes("main", l, M.ret, fd[v], M.on)
    BY <1>1, <2>1, <2>2, MoveNum DEF TypeOK, ThreadType, Thread, M
  <2>4. v = "client" => table[fd[v]] \in Clients
    BY <1>3 DEF Own
  <2> QED
    BY <1>1, <1>3, <2>3, <2>4, MainMoves DEF AcceptLabel
<1> QED
  BY <1>2, <1>3

(* Main calls accept, recv or send.                                        *)
LEMMA MainCalls ==
  ASSUME TypeOK, Safe, NEW here, NEW l, NEW failed, Call(here, l, failed),
         \/ here = "acceptCall" /\ l = "accepting" /\ failed = "woken"
         \/ /\ here \in {"recv", "send"} /\ l \in {"receiving", "sending"}
            /\ failed = "loop"
  PROVE  Safe'
<1> USE DEF Safe
<1>1. /\ M.at = here /\ UNCHANGED <<fd, table, shut, stopped, result>>
      /\ result' # "failed" /\ l \in Label /\ failed \in Label
      /\ M.at \in ServeLabel \ HoldLabel
      /\ l \notin HoldLabel /\ failed \notin HoldLabel
      /\ M.at = "acceptCall" => fd["client"] = -1
  BY DEF Call, At, M, flags, kernel, StopMarked, StopIsClean, Label,
         ServeLabel, HoldLabel, NoClientHeld, AcceptLabel
<1>2. CASE table[M.num] = Free
  <2>1. Goto("main", failed)
    BY <1>2 DEF Call, M
  <2>2. failed = "woken" => stopped
    <3> SUFFICES ASSUME failed = "woken", ~ stopped
                 PROVE  FALSE
      OBVIOUS
    <3>1. M.num = fd["listen"] /\ fd["listen"] # -1
      BY <1>1 DEF StopMarked, Serves
    <3> QED
      BY <1>2, <3>1, ServerAssumption DEF Own
  <2> QED
    BY <1>1, <2>1, <2>2, MainGoes DEF AcceptLabel
<1>3. CASE table[M.num] # Free
  <2>1. th' = [th EXCEPT !["main"].at = l, !["main"].on = table[M.num]]
    BY <1>3 DEF Call, M
  <2>2. /\ l = "accepting" => table[M.num] = Listener
        /\ l # "accepting" => table[M.num] \in Clients
    BY <1>1, <1>3 DEF Kinds
  <2>3. Becomes("main", l, M.ret, M.num, table[M.num])
    BY <1>1, <2>1, <2>2, MoveOn DEF TypeOK, ThreadType, Thread, M, Socket
  <2> QED
    BY <1>1, <2>2, <2>3, MainMoves DEF AcceptLabel
<1> QED
  BY <1>2, <1>3

(* closeSocket, by main.                                                   *)
LEMMA MainCloses ==
  ASSUME TypeOK, Safe, NEW here, NEW v \in {"listen", "client"}, NEW r,
         CloseSocket("main", here, v, r),
         here \in {"accept", "recheck", "stopClient", "stopListen"},
         \/ v = "client" /\ r \in {"check", "join", "stopListen"}
         \/ v = "listen" /\ r = "return",
         r = "check" => here = "accept"
  PROVE  Safe'
<1> USE DEF Safe
<1>1. /\ M.at = here /\ UNCHANGED <<table, shut, stopped, result>>
      /\ result' # "failed" /\ "shutdown" \in Label /\ r \in Label \ HoldLabel
      /\ M.at \notin HoldLabel \cup {"socket"}
      /\ r = "check" => M.at \in ServeLabel
      /\ r \in ServeLabel => r = "check"
      /\ fd' = [fd EXCEPT ![v] = -1]
  BY DEF CloseSocket, At, M, flags, kernel, StopMarked, StopIsClean, Label,
         ServeLabel, HoldLabel
<1>2. CASE fd[v] = -1
  <2>1. Goto("main", r) /\ fd' = fd
    BY <1>1, <1>2 DEF CloseSocket, TypeOK
  <2> QED
    BY <1>1, <1>2, <2>1, MainGoes DEF AcceptLabel
<1>3. CASE fd[v] # -1
  <2>1. fd[v] \in Fds
    BY <1>3 DEF TypeOK
  <2>2. th' = [th EXCEPT !["main"].at = "shutdown", !["main"].ret = r,
                         !["main"].num = fd[v]]
    BY <1>3 DEF CloseSocket
  <2>3. Becomes("main", "shutdown", r, fd[v], M.on)
    BY <1>1, <2>1, <2>2, MoveTake DEF TypeOK, ThreadType, Thread, M
  <2> QED
    BY <1>1, <1>3, <2>3, MainTakes
<1> QED
  BY <1>2, <1>3

(* bind, listen and getsockname succeed or the constructor closes.         *)
LEMMA BindSafe ==
  ASSUME TypeOK, Safe, Bind
  PROVE  Safe'
<1>1. CASE Jump("main", "bind", "load")
  BY <1>1, MainJumps DEF Label, HoldLabel, AcceptLabel, ServeLabel
<1>2. CASE ~ Jump("main", "bind", "load")
  <2>1. /\ M.at = "bind" /\ result' # "failed"
        /\ fd' = [fd EXCEPT !["listen"] = -1]
        /\ th' = [th EXCEPT !["main"].at = "shutdown",
                            !["main"].ret = "return",
                            !["main"].num = fd["listen"]]
        /\ UNCHANGED <<stopped, table, shut>>
    BY <1>2 DEF Bind, At, M, kernel
  <2>2. fd["listen"] # -1
    BY <2>1 DEF Safe, Places
  <2>3. fd["listen"] \in Fds
    BY <2>2 DEF TypeOK
  <2>4. Becomes("main", "shutdown", "return", fd["listen"], M.on)
    BY <2>1, <2>3, MoveTake DEF TypeOK, ThreadType, Thread, M, Label
  <2> QED
    BY <2>1, <2>2, <2>4, MainTakes DEF HoldLabel
<1> QED
  BY <1>1, <1>2

(* One step of main, or the kernel's refusal of an accept.                 *)
LEMMA MainSafe ==
  ASSUME TypeOK, Safe, Main \/ AcceptFaults
  PROVE  Safe'
<1> USE DEF HoldLabel, AcceptLabel, ServeLabel, Label
<1>1. CASE Loop
  BY <1>1, MainJumps DEF Loop
<1>2. CASE AcceptClient
  BY <1>2, MainCloses DEF AcceptClient
<1>3. CASE CheckStopped
  <2>1. M.at = "check"
    BY <1>3 DEF CheckStopped, Jump, At, M
  <2>2. fd["client"] = -1
    BY <2>1 DEF Safe, NoClientHeld
  <2> QED
    BY <1>3, <2>2, MainJumps DEF CheckStopped
<1>4. CASE LoadListenFd
  BY <1>4, MainLoads DEF LoadListenFd
<1>5. CASE AcceptCall
  BY <1>5, MainCalls DEF AcceptCall
<1>6. CASE Accepted
  <2>1. /\ M.at = "accepting" /\ Open(Head(backlog), "store")
        /\ UNCHANGED <<fd, stopped, shut, result>> /\ Head(backlog) \in Clients
    BY <1>6 DEF Accepted, At, M, flags, TypeOK
  <2> QED
    BY <2>1, OpenSafe, ServerAssumption
<1>7. CASE AcceptWoken
  <2>1. M.at = "accepting" /\ M.on \in shut
    BY <1>7 DEF AcceptWoken, Jump, At, M
  <2>2. fd["client"] = -1 /\ stopped
    BY <2>1 DEF Safe, NoClientHeld, StopMarked, Serves, Kinds
  <2> QED
    BY <1>7, <2>2, MainJumps DEF AcceptWoken
<1>8. CASE AcceptFaults
  <2>1. M.at = "accepting"
    BY <1>8 DEF AcceptFaults, Jump, At, M
  <2>2. fd["client"] = -1
    BY <2>1 DEF Safe, NoClientHeld
  <2> QED
    BY <1>8, <2>2, MainJumps DEF AcceptFaults
<1>9. CASE AcceptFailed
  <2>1. PICK why \in {"woken", "faulted"} :
          /\ M.at = why
          /\ result' = CASE stopped -> result
                         [] ~stopped /\ why = "faulted" -> "fault"
                         [] OTHER -> "failed"
          /\ Goto("main", "join")
          /\ UNCHANGED <<fd, stopped, table, shut>>
    BY <1>9 DEF AcceptFailed, At, M, kernel
  <2>2. (why = "woken" => stopped) /\ result # "failed"
    BY <2>1 DEF Safe, StopMarked, StopIsClean
  <2>3. result' # "failed"
    BY <2>1, <2>2
  <2> QED
    BY <2>1, <2>3, MainGoes
<1>10. CASE Recheck
  <2>1. CASE CloseSocket("main", "recheck", "client", "join")
    BY <2>1, MainCloses
  <2>2. CASE Jump("main", "recheck", "inner")
    BY <2>2, MainJumps
  <2> QED
    BY <1>10, <2>1, <2>2 DEF Recheck
<1>11. CASE Inner
  BY <1>11, MainJumps DEF Inner
<1>12. CASE LoadForReceive \/ LoadForAck
  BY <1>12, MainLoads DEF LoadForReceive, LoadForAck
<1>13. CASE RecvCall \/ SendCall
  BY <1>13, MainCalls DEF RecvCall, SendCall
<1>14. CASE ReceiveFrame
  <2>1. PICK l \in {"persist", "loop"} : Goto("main", l)
    BY <1>14 DEF ReceiveFrame
  <2>2. M.at = "receiving" /\ UNCHANGED <<fd, stopped, table, shut, result>>
    BY <1>14 DEF ReceiveFrame, At, M, flags, kernel
  <2>3. result' # "failed"
    BY <2>2 DEF Safe, StopMarked, StopIsClean
  <2> QED
    BY <2>1, <2>2, <2>3, MainGoes
<1>15. CASE ReceiveEnd \/ NothingNew
  BY <1>15, MainJumps DEF ReceiveEnd, NothingNew
<1>16. CASE OpenFile
  <2>1. /\ M.at = "persist" /\ Open(File, "persisting")
        /\ UNCHANGED <<fd, stopped, shut, result>>
    BY <1>16 DEF OpenFile, At, M, flags
  <2> QED
    BY <2>1, OpenSafe, ServerAssumption
<1>17. CASE SendAck \/ SendFails
  BY <1>17, MainJumps DEF SendAck, SendFails
<1>18. CASE Join
  BY <1>18, MainJumps DEF Join
<1>19. CASE Stop("main")
  <2>1. /\ M.at = "stop" /\ stopped' /\ Goto("main", "stopClient")
        /\ UNCHANGED <<fd, table, shut, result>>
    BY <1>19 DEF Stop, At, M, kernel
  <2>2. result' # "failed"
    BY <2>1 DEF Safe, StopMarked, StopIsClean
  <2> QED
    BY <2>1, <2>2, MainGoes
<1>20. CASE StopClient("main") \/ StopListen("main")
  BY <1>20, MainCloses DEF StopClient, StopListen
<1>21. CASE Shutdown("main") \/ Close("main")
  BY <1>21, ShutdownSafe, CloseSafe DEF Thread
<1>22. CASE Return
  <2>1. /\ M.at = "return" /\ Goto("main", "exited")
        /\ UNCHANGED <<fd, stopped, table, shut, result>>
    BY <1>22 DEF Return, At, M, flags
  <2>2. result' # "failed"
    BY <2>1 DEF Safe, StopMarked, StopIsClean
  <2> QED
    BY <2>1, <2>2, MainGoes
<1> QED
  BY <1>1, <1>2, <1>3, <1>4, <1>5, <1>6, <1>7, <1>8, <1>9, <1>10, <1>11,
     <1>12, <1>13, <1>14, <1>15, <1>16, <1>17, <1>18, <1>19, <1>20, <1>21,
     <1>22, BindSafe, CreateSocketSafe, LoadStoreSafe, StoreSafe,
     CloseFileSafe
     DEF Main, StopSteps

-----------------------------------------------------------------------------
(* The signal thread.                                                      *)

(* A step of the signal thread that changes its place and perhaps          *)
(* stopped_.                                                               *)
LEMMA SignalGoes ==
  ASSUME TypeOK, Safe, NEW l \in SignalLabel \ HoldLabel, Goto("signal", l),
         UNCHANGED <<fd, table, shut, result>>,
         stopped => stopped',
         S.at \notin HoldLabel \cup {"notStarted"},
         l \in {"stopClient", "stopListen"} => stopped'
  PROVE  Safe'
<1>1. l \in Label
  BY DEF SignalLabel, Label
<1>2. Becomes("signal", l, S.ret, S.num, S.on)
  BY <1>1, MoveAt DEF Goto, TypeOK, ThreadType, Thread, S
<1> QED
  BY <1>2, SignalMoves

(* closeSocket, in the stop() of the signal thread.                        *)
LEMMA SignalCloses ==
  ASSUME TypeOK, Safe, NEW here, NEW v \in {"listen", "client"}, NEW r,
         CloseSocket("signal", here, v, r),
         here \in {"stopClient", "stopListen"}, r \in {"stopListen", "ended"}
  PROVE  Safe'
<1> USE DEF Safe
<1>1. /\ S.at = here /\ UNCHANGED <<table, shut, stopped, result>> /\ stopped
      /\ "shutdown" \in Label /\ r \in Label /\ r \in SignalLabel \ HoldLabel
      /\ fd' = [fd EXCEPT ![v] = -1] /\ S.at \notin HoldLabel \cup {"notStarted"}
  BY DEF CloseSocket, At, S, flags, kernel, StopMarked, Label, HoldLabel,
         SignalLabel
<1>2. CASE fd[v] = -1
  <2>1. Goto("signal", r) /\ fd' = fd
    BY <1>1, <1>2 DEF CloseSocket, TypeOK
  <2> QED
    BY <1>1, <2>1, SignalGoes
<1>3. CASE fd[v] # -1
  <2>1. fd[v] \in Fds
    BY <1>3 DEF TypeOK
  <2>2. th' = [th EXCEPT !["signal"].at = "shutdown", !["signal"].ret = r,
                         !["signal"].num = fd[v]]
    BY <1>3 DEF CloseSocket
  <2>3. Becomes("signal", "shutdown", r, fd[v], S.on)
    BY <1>1, <2>1, <2>2, MoveTake DEF TypeOK, ThreadType, Thread, S
  <2> QED
    BY <1>1, <1>3, <2>3, SignalTakes
<1> QED
  BY <1>2, <1>3

(* One step of the signal thread, or the failure of its waitFor.           *)
LEMMA SignalSafe ==
  ASSUME TypeOK, Safe, Signal \/ WaitFails
  PROVE  Safe'
<1> USE DEF HoldLabel, SignalLabel
<1>1. CASE SignalTaken \/ WaitFails \/ SignalEnds
  <2>1. /\ S.at = "wait" /\ UNCHANGED <<fd, stopped, table, shut, result>>
        /\ Goto("signal", "stop") \/ Goto("signal", "ended")
    BY <1>1 DEF SignalTaken, WaitFails, SignalEnds, Jump, At, S, flags, kernel
  <2> QED
    BY <2>1, SignalGoes
<1>2. CASE Stop("signal")
  <2>1. /\ S.at = "stop" /\ stopped' /\ Goto("signal", "stopClient")
        /\ UNCHANGED <<fd, table, shut, result>>
    BY <1>2 DEF Stop, At, S, kernel
  <2> QED
    BY <2>1, SignalGoes
<1>3. CASE StopClient("signal") \/ StopListen("signal")
  BY <1>3, SignalCloses DEF StopClient, StopListen
<1>4. CASE Shutdown("signal") \/ Close("signal")
  BY <1>4, ShutdownSafe, CloseSafe DEF Thread
<1> QED
  BY <1>1, <1>2, <1>3, <1>4 DEF Signal, StopSteps

(* Clients and the operator touch neither descriptors nor threads.         *)
LEMMA UntouchedSafe ==
  ASSUME Safe, UNCHANGED <<fd, stopped, result, th, table, shut>>
  PROVE  Safe'
<1> USE DEF Safe, M, S
<1>1. Own'
  BY DEF Own, Holds
<1>2. Places' /\ NoClientHeld' /\ Kinds'
  BY DEF Places, NoClientHeld, Kinds, Closing
<1>3. StopMarked'
  BY DEF StopMarked, StopIsClean, Serves, Closing
<1> QED
  BY <1>1, <1>2, <1>3

(* Every step keeps Safe.                                                  *)
LEMMA SafeStep == TypeOK /\ Safe /\ [Next]_vars => Safe'
<1> SUFFICES ASSUME TypeOK, Safe, [Next]_vars
             PROVE  Safe'
  OBVIOUS
<1>1. CASE Main \/ AcceptFaults
  BY <1>1, MainSafe
<1>2. CASE Signal \/ WaitFails
  BY <1>2, SignalSafe
<1>3. CASE \/ SendSignal
           \/ \E c \in Clients : Connect(c) \/ SendFrame(c) \/ Leave(c)
           \/ UNCHANGED vars
  <2>1. UNCHANGED <<fd, stopped, result, th, table, shut>>
    BY <1>3 DEF SendSignal, Connect, SendFrame, Leave, vars, flags, kernel
  <2> QED
    BY <2>1, UntouchedSafe
<1> QED
  BY <1>1, <1>2, <1>3 DEF Next, Environment

-----------------------------------------------------------------------------
(* Types.                                                                  *)

(* A thread's record keeps its type when the thread goes elsewhere.        *)
LEMMA GotoType ==
  ASSUME TypeOK, NEW t \in Thread, NEW l \in Label, Goto(t, l)
  PROVE  th' \in [Thread -> ThreadType]
<1>1. Becomes(t, l, th[t].ret, th[t].num, th[t].on)
  BY MoveAt DEF Goto, TypeOK, ThreadType
<1> QED
  BY <1>1 DEF Becomes

(* Steps that change one place only.                                       *)
LEMMA JumpType ==
  ASSUME TypeOK, NEW t \in Thread, NEW here, NEW l \in Label, Jump(t, here, l)
  PROVE  TypeOK'
<1>1. th' \in [Thread -> ThreadType]
  BY GotoType DEF Jump
<1> QED
  BY <1>1 DEF TypeOK, ThreadType, Jump, flags, kernel, clients

(* The exchange of closeSocket.                                            *)
LEMMA CloseSocketType ==
  ASSUME TypeOK, NEW t \in Thread, NEW here, NEW v \in {"listen", "client"},
         NEW r \in Label, CloseSocket(t, here, v, r)
  PROVE  TypeOK'
<1>1. th' \in [Thread -> ThreadType]
  <2>1. CASE fd[v] = -1
    BY <2>1, GotoType DEF CloseSocket
  <2>2. CASE fd[v] # -1
    <3>1. fd[v] \in Fds /\ "shutdown" \in Label
      BY <2>2 DEF TypeOK, Label
    <3>2. th' = [th EXCEPT ![t].at = "shutdown", ![t].ret = r, ![t].num = fd[v]]
      BY <2>2 DEF CloseSocket
    <3>3. Becomes(t, "shutdown", r, fd[v], th[t].on)
      BY <3>1, <3>2, MoveTake DEF TypeOK, ThreadType
    <3> QED
      BY <3>3 DEF Becomes
  <2> QED
    BY <2>1, <2>2
<1>2. fd' \in [{"listen", "client"} -> Fds \cup {-1}]
  BY DEF CloseSocket, TypeOK
<1> QED
  BY <1>1, <1>2 DEF TypeOK, ThreadType, CloseSocket, flags, kernel, clients

(* A load of an atomic descriptor.                                         *)
LEMMA LoadFdType ==
  ASSUME TypeOK, NEW here, NEW v \in {"listen", "client"}, NEW l \in Label,
         NEW none \in Label, LoadFd(here, v, l, none)
  PROVE  TypeOK'
<1>1. th' \in [Thread -> ThreadType]
  <2>1. CASE fd[v] = -1
    BY <2>1, GotoType DEF LoadFd, Thread
  <2>2. CASE fd[v] # -1
    <3>1. fd[v] \in Fds
      BY <2>2 DEF TypeOK
    <3>2. th' = [th EXCEPT !["main"].at = l, !["main"].num = fd[v]]
      BY <2>2 DEF LoadFd
    <3>3. Becomes("main", l, M.ret, fd[v], M.on)
      BY <3>1, <3>2, MoveNum DEF TypeOK, ThreadType, Thread, M
    <3> QED
      BY <3>3 DEF Becomes
  <2> QED
    BY <2>1, <2>2
<1> QED
  BY <1>1 DEF TypeOK, ThreadType, LoadFd, flags, kernel, clients

(* What a system call waits on is a socket: a file's number is never in    *)
(* main's hands at that point.                                             *)
LEMMA CallType ==
  ASSUME TypeOK, Safe, NEW here \in {"acceptCall", "recv", "send"},
         NEW l \in Label, NEW failed \in Label, Call(here, l, failed)
  PROVE  TypeOK'
<1>1. th' \in [Thread -> ThreadType]
  <2>1. CASE table[M.num] = Free
    BY <2>1, GotoType DEF Call, Thread, M
  <2>2. CASE table[M.num] # Free
    <3>1. table[M.num] \in Socket \cup {Free}
      BY DEF Safe, Kinds, Call, At, M, Socket
    <3>2. th' = [th EXCEPT !["main"].at = l, !["main"].on = table[M.num]]
      BY <2>2 DEF Call, M
    <3>3. Becomes("main", l, M.ret, M.num, table[M.num])
      BY <3>1, <3>2, MoveOn DEF TypeOK, ThreadType, Thread, M
    <3> QED
      BY <3>3 DEF Becomes
  <2> QED
    BY <2>1, <2>2
<1> QED
  BY <1>1 DEF TypeOK, ThreadType, Call, flags, kernel, clients

(* Where main has opened something.                                        *)
LEMMA OpenType ==
  ASSUME TypeOK, NEW o \in Socket \cup {File}, NEW l \in Label, Open(o, l)
  PROVE  /\ th' \in [Thread -> ThreadType]
         /\ M'.num \in Fds
         /\ table' \in [Fds -> Socket \cup {File, Free}]
<1>1. PICK n \in Fds : /\ table[n] = Free
                       /\ table' = [table EXCEPT ![n] = o]
                       /\ Becomes("main", l, M.ret, n, M.on)
  BY OpenFacts
<1> QED
  BY <1>1 DEF Becomes, TypeOK, M

(* A number in a thread's hands is freed.                                  *)
LEMMA FreedType ==
  ASSUME TypeOK, NEW t \in Thread, table' = [table EXCEPT ![th[t].num] = Free]
  PROVE  table' \in [Fds -> Socket \cup {File, Free}]
BY DEF TypeOK

(* The other steps of stop() and closeSocket.                              *)
LEMMA StopType ==
  ASSUME TypeOK, NEW t \in Thread, Stop(t) \/ Shutdown(t) \/ Close(t)
  PROVE  TypeOK'
<1>1. CASE Stop(t)
  <2>1. th' \in [Thread -> ThreadType]
    BY <1>1, GotoType DEF Stop, Label
  <2> QED
    BY <1>1, <2>1 DEF Stop, TypeOK, ThreadType, kernel, clients
<1>2. CASE Shutdown(t)
  <2>1. th' \in [Thread -> ThreadType]
    BY <1>2, GotoType DEF Shutdown, Label
  <2>2. shut' \subseteq Socket
    BY <1>2 DEF Shutdown, TypeOK
  <2> QED
    BY <1>2, <2>1, <2>2 DEF Shutdown, TypeOK, ThreadType, flags, clients
<1>3. CASE Close(t)
  <2>1. th[t].ret \in Label
    BY Fields DEF TypeOK, ThreadType
  <2>2. th' \in [Thread -> ThreadType]
    BY <1>3, <2>1, GotoType DEF Close
  <2>3. table' \in [Fds -> Socket \cup {File, Free}]
    BY <1>3, FreedType DEF Close
  <2> QED
    BY <1>3, <2>2, <2>3 DEF Close, TypeOK, ThreadType, flags, clients
<1> QED
  BY <1>1, <1>2, <1>3

(* Every step of main keeps the types.                                     *)
LEMMA MainType ==
  ASSUME TypeOK, Safe, Main \/ AcceptFaults
  PROVE  TypeOK'
<1> USE DEF Label, Thread
<1> DEFINE Threads == [Thread -> ThreadType]
<1>1. CASE CreateSocket
  <2>1. CASE /\ Open(Listener, "bind")
             /\ fd' = [fd EXCEPT !.listen = th'["main"].num]
             /\ UNCHANGED result
    <3>1. /\ th' \in Threads /\ M'.num \in Fds
          /\ table' \in [Fds -> Socket \cup {File, Free}]
      BY <2>1, OpenType DEF Socket
    <3>2. fd' \in [{"listen", "client"} -> Fds \cup {-1}]
      BY <2>1, <3>1 DEF TypeOK, M
    <3> QED
      BY <1>1, <2>1, <3>1, <3>2 DEF CreateSocket, TypeOK, ThreadType, clients
  <2>2. CASE Fails("return") /\ UNCHANGED <<fd, table>>
    <3>1. th' \in Threads
      BY <2>2, GotoType DEF Fails
    <3> QED
      BY <1>1, <2>2, <3>1 DEF CreateSocket, Fails, TypeOK, ThreadType, clients
  <2> QED
    BY <1>1, <2>1, <2>2 DEF CreateSocket
<1>2. CASE Bind
  <2>1. CASE Jump("main", "bind", "load")
    BY <2>1, JumpType
  <2>2. CASE ~ Jump("main", "bind", "load")
    <3>a. M.at = "bind"
      BY <1>2, <2>2 DEF Bind, At, M
    <3>b. fd["listen"] # -1
      BY <3>a DEF Safe, Places
    <3>1. fd["listen"] \in Fds
      BY <3>b DEF TypeOK
    <3>2. th' = [th EXCEPT !["main"].at = "shutdown", !["main"].ret = "return",
                           !["main"].num = fd["listen"]]
      BY <1>2, <2>2 DEF Bind
    <3>3. Becomes("main", "shutdown", "return", fd["listen"], M.on)
      BY <3>1, <3>2, MoveTake DEF TypeOK, ThreadType, M
    <3>4. fd' \in [{"listen", "client"} -> Fds \cup {-1}]
      BY <1>2, <2>2 DEF Bind, TypeOK
    <3> QED
      BY <1>2, <2>2, <3>3, <3>4
         DEF Bind, Becomes, TypeOK, ThreadType, kernel, clients
  <2> QED
    BY <2>1, <2>2
<1>3. CASE LoadStore
  <2>1. CASE Fails("stop")
    <3>1. th' \in Threads
      BY <2>1, GotoType DEF Fails
    <3> QED
      BY <1>3, <2>1, <3>1 DEF LoadStore, Fails, TypeOK, ThreadType, kernel, clients
  <2>2. CASE /\ th' = [th EXCEPT !["main"].at = "loop", !["signal"].at = "wait"]
             /\ UNCHANGED result
    <3> DEFINE m == [th["main"] EXCEPT !.at = "loop"]
               s == [th["signal"] EXCEPT !.at = "wait"]
    <3>0. th["main"] \in ThreadType /\ th["signal"] \in ThreadType
      BY DEF TypeOK, ThreadType
    <3>a. m \in ThreadType
      BY <3>0 DEF ThreadType
    <3>b. s \in ThreadType
      BY <3>0 DEF ThreadType
    <3>2. th' = [th EXCEPT !["main"] = m, !["signal"] = s]
      BY <2>2
    <3> HIDE DEF m, s
    <3>3. th' \in Threads
      BY <3>a, <3>b, <3>2 DEF TypeOK, ThreadType
    <3> QED
      BY <1>3, <2>2, <3>3 DEF LoadStore, TypeOK, ThreadType, kernel, clients
  <2> QED
    BY <1>3, <2>1, <2>2 DEF LoadStore
<1>4. CASE \/ Loop \/ CheckStopped \/ AcceptWoken \/ AcceptFaults \/ Inner
           \/ ReceiveEnd \/ NothingNew \/ SendAck \/ SendFails \/ Join
           \/ Jump("main", "recheck", "inner")
  BY <1>4, JumpType
     DEF Loop, CheckStopped, AcceptWoken, AcceptFaults, Inner, ReceiveEnd,
         NothingNew, SendAck, SendFails, Join
<1>5. CASE \/ AcceptClient \/ CloseSocket("main", "recheck", "client", "join")
           \/ StopClient("main") \/ StopListen("main")
  BY <1>5, CloseSocketType DEF AcceptClient, StopClient, StopListen
<1>6. CASE LoadListenFd \/ LoadForReceive \/ LoadForAck
  BY <1>6, LoadFdType DEF LoadListenFd, LoadForReceive, LoadForAck
<1>7. CASE AcceptCall \/ RecvCall \/ SendCall
  BY <1>7, CallType DEF AcceptCall, RecvCall, SendCall
<1>8. CASE Accepted
  <2>1. Head(backlog) \in Clients /\ Tail(backlog) \in Seq(Clients)
    BY <1>8 DEF Accepted, TypeOK
  <2>2. th' \in Threads /\ table' \in [Fds -> Socket \cup {File, Free}]
    BY <1>8, <2>1, OpenType DEF Accepted, Socket
  <2> QED
    BY <1>8, <2>1, <2>2 DEF Accepted, TypeOK, ThreadType, flags
<1>9. CASE AcceptFailed
  <2>1. th' \in Threads /\ result' \in {"ok", "fault", "failed"}
    BY <1>9, GotoType DEF AcceptFailed, TypeOK
  <2> QED
    BY <1>9, <2>1 DEF AcceptFailed, TypeOK, ThreadType, kernel, clients
<1>10. CASE StoreClientFd
  <2>1. th' \in Threads
    BY <1>10, GotoType DEF StoreClientFd
  <2>2. fd' \in [{"listen", "client"} -> Fds \cup {-1}]
    BY <1>10 DEF StoreClientFd, TypeOK
  <2> QED
    BY <1>10, <2>1, <2>2
       DEF StoreClientFd, TypeOK, ThreadType, flags, kernel, clients
<1>11. CASE ReceiveFrame
  <2>1. th' \in Threads
    BY <1>11, GotoType DEF ReceiveFrame
  <2>2. M.on \in Clients
    BY <1>11 DEF ReceiveFrame, At, Safe, Kinds, M
  <2>3. sent[M.on] \in 0 .. MaxFrames /\ sent[M.on] > 0 /\ MaxFrames \in Nat
    BY <1>11, <2>2, ServerAssumption DEF ReceiveFrame, TypeOK, M
  <2>4. sent[M.on] - 1 \in 0 .. MaxFrames
    BY <2>3
  <2>5. sent' = [sent EXCEPT ![M.on] = sent[M.on] - 1]
    BY <1>11 DEF ReceiveFrame, M
  <2>6. sent' \in [Clients -> 0 .. MaxFrames]
    BY <2>4, <2>5 DEF TypeOK
  <2> QED
    BY <1>11, <2>1, <2>6 DEF ReceiveFrame, TypeOK, ThreadType, flags, kernel
<1>12. CASE OpenFile
  <2>1. th' \in Threads /\ table' \in [Fds -> Socket \cup {File, Free}]
    BY <1>12, OpenType DEF OpenFile
  <2> QED
    BY <1>12, <2>1 DEF OpenFile, TypeOK, ThreadType, flags, clients
<1>13. CASE CloseFile
  <2>1. th' \in Threads /\ table' \in [Fds -> Socket \cup {File, Free}]
    BY <1>13, GotoType, FreedType DEF CloseFile
  <2> QED
    BY <1>13, <2>1 DEF CloseFile, TypeOK, ThreadType, flags, clients
<1>14. CASE Return
  <2>1. th' \in Threads
    BY <1>14, GotoType DEF Return
  <2> QED
    BY <1>14, <2>1 DEF Return, TypeOK, ThreadType, flags, clients
<1>15. CASE Stop("main") \/ Shutdown("main") \/ Close("main")
  BY <1>15, StopType
<1> QED
  BY <1>1, <1>2, <1>3, <1>4, <1>5, <1>6, <1>7, <1>8, <1>9, <1>10, <1>11,
     <1>12, <1>13, <1>14, <1>15
     DEF Main, StopSteps, Recheck

(* Every step of the signal thread keeps the types.                        *)
LEMMA SignalType ==
  ASSUME TypeOK, Signal \/ WaitFails
  PROVE  TypeOK'
<1>1. CASE SignalTaken \/ WaitFails
  <2>1. th' \in [Thread -> ThreadType]
    BY <1>1, GotoType DEF SignalTaken, WaitFails, Label, Thread
  <2> QED
    BY <1>1, <2>1
       DEF SignalTaken, WaitFails, TypeOK, ThreadType, kernel, clients
<1>2. CASE SignalEnds
  BY <1>2, JumpType DEF SignalEnds, Label, Thread
<1>3. CASE StopClient("signal") \/ StopListen("signal")
  BY <1>3, CloseSocketType DEF StopClient, StopListen, Label, Thread
<1>4. CASE Stop("signal") \/ Shutdown("signal") \/ Close("signal")
  BY <1>4, StopType DEF Thread
<1> QED
  BY <1>1, <1>2, <1>3, <1>4 DEF Signal, StopSteps

(* The operator and the clients keep the types.                            *)
LEMMA OutsideType ==
  ASSUME TypeOK,
         SendSignal \/ \E c \in Clients : Connect(c) \/ SendFrame(c) \/ Leave(c)
  PROVE  TypeOK'
<1> USE DEF TypeOK, flags, kernel, clients
<1>1. CASE SendSignal
  BY <1>1 DEF SendSignal
<1>2. ASSUME NEW c \in Clients, Connect(c)
      PROVE  TypeOK'
  <2>1. backlog' \in Seq(Clients) /\ peer' \in [Clients -> {"new", "here", "gone"}]
    BY <1>2 DEF Connect
  <2> QED
    BY <1>2, <2>1 DEF Connect
<1>3. ASSUME NEW c \in Clients, SendFrame(c)
      PROVE  TypeOK'
  <2>1. sent[c] \in 0 .. MaxFrames /\ sent[c] < MaxFrames /\ MaxFrames \in Nat
    BY <1>3, ServerAssumption DEF SendFrame
  <2>2. sent[c] + 1 \in 0 .. MaxFrames
    BY <2>1
  <2>3. sent' = [sent EXCEPT ![c] = sent[c] + 1]
    BY <1>3 DEF SendFrame
  <2>4. sent' \in [Clients -> 0 .. MaxFrames]
    BY <2>2, <2>3
  <2> QED
    BY <1>3, <2>4 DEF SendFrame
<1>4. ASSUME NEW c \in Clients, Leave(c)
      PROVE  TypeOK'
  BY <1>4 DEF Leave
<1> QED
  BY <1>1, <1>2, <1>3, <1>4

(* Every step keeps the types; Call and ReceiveFrame need Safe for it.     *)
LEMMA TypeStep == TypeOK /\ Safe /\ [Next]_vars => TypeOK'
<1> SUFFICES ASSUME TypeOK, Safe, [Next]_vars
             PROVE  TypeOK'
  OBVIOUS
<1>1. CASE Main \/ AcceptFaults
  BY <1>1, MainType
<1>2. CASE Signal \/ WaitFails
  BY <1>2, SignalType
<1>3. CASE SendSignal \/ \E c \in Clients : Connect(c) \/ SendFrame(c) \/ Leave(c)
  BY <1>3, OutsideType
<1>4. CASE UNCHANGED vars
  BY <1>4 DEF vars, flags, kernel, clients, TypeOK
<1> QED
  BY <1>1, <1>2, <1>3, <1>4 DEF Next, Environment

-----------------------------------------------------------------------------
(* Before the constructor of TcpServer: nothing is open.                   *)
LEMMA InitSafe == Init => TypeOK /\ Safe
<1> SUFFICES ASSUME Init
             PROVE  TypeOK /\ Safe
  OBVIOUS
<1>1. 3 \in Fds /\ -1 \notin Fds
  BY ServerAssumption DEF Fds
<1>2. /\ fd \in [{"listen", "client"} -> Fds \cup {-1}]
      /\ fd["listen"] = -1 /\ fd["client"] = -1
  <2>1. fd = [listen |-> -1, client |-> -1]
    BY DEF Init
  <2>2. fd = [v \in {"listen", "client"} |-> -1]
    BY <2>1
  <2> QED
    BY <2>2
<1>3. th \in [Thread -> ThreadType]
  <2> DEFINE rec(t) ==
        LET start == IF t = "main" THEN "socket" ELSE "notStarted"
        IN  [at |-> start, ret |-> start, num |-> 3, on |-> Free]
  <2>1. \A t \in Thread : rec(t) \in ThreadType
    BY <1>1 DEF ThreadType, Label
  <2>2. th = [t \in Thread |-> rec(t)]
    BY DEF Init
  <2> QED
    BY <2>1, <2>2
<1>4. M.at = "socket" /\ S.at = "notStarted"
  BY DEF Init, Thread, M, S
<1>5. table \in [Fds -> Socket \cup {File, Free}] /\ \A n \in Fds : table[n] = Free
  BY DEF Init
<1>6. backlog \in Seq(Clients)
  BY DEF Init
<1>7. sent \in [Clients -> 0 .. MaxFrames]
  BY ServerAssumption DEF Init
<1>8. TypeOK
  BY <1>2, <1>3, <1>5, <1>6, <1>7 DEF TypeOK, ThreadType, Init
<1>9. Own
  BY <1>2, <1>4, <1>5 DEF Own, Holds, HoldLabel, Thread, M, S
<1>10. shut = {} /\ result = "ok"
  BY DEF Init
<1>11. Places /\ NoClientHeld /\ Kinds
  BY <1>2, <1>4, <1>10
     DEF Places, NoClientHeld, Kinds, Closing, AcceptLabel, SignalLabel, M, S
<1>12. StopMarked
  BY <1>4, <1>10
     DEF StopMarked, StopIsClean, Serves, ServeLabel, Closing, M, S
<1> QED
  BY <1>8, <1>9, <1>11, <1>12 DEF Safe

(* The inductive invariant.                                                *)
LEMMA SafeAlways == Spec => [](TypeOK /\ Safe)
<1>1. TypeOK /\ Safe /\ [Next]_vars => (TypeOK /\ Safe)'
  BY TypeStep, SafeStep
<1> QED
  BY <1>1, InitSafe, PTL DEF Spec

(* An owner is one of the two variables or one of the two threads, and     *)
(* Own leaves room for one only.                                           *)
LEMMA OwnersCounted == TypeOK /\ Safe => OneOwner
<1> SUFFICES ASSUME TypeOK, Safe, NEW n \in Fds
             PROVE  Cardinality(Owners(n)) = IF table[n] = Free THEN 0 ELSE 1
  BY DEF OneOwner
<1> USE DEF Safe
<1>1. n # -1
  BY DEF Fds
<1>2. \A x : x \in Owners(n) <=>
         \/ x \in {"listen", "client"} /\ fd[x] = n
         \/ x \in Thread /\ Holds(x) /\ th[x].num = n
  BY DEF Owners, Holds, HoldLabel
<1>3. CASE table[n] = Free
  <2>1. Owners(n) = {}
    BY <1>1, <1>2, <1>3, ServerAssumption DEF Own
  <2> QED
    BY <1>3, <2>1, FS_EmptySet
<1>4. CASE table[n] # Free
  <2>1. PICK x : x \in Owners(n)
    BY <1>2, <1>4 DEF Own
  <2>2. \A y \in Owners(n) : y = x
    BY <1>1, <1>2, <1>4, <2>1, ServerAssumption DEF Own, Thread, M, S
  <2>3. Owners(n) = {x}
    BY <2>1, <2>2
  <2> QED
    BY <1>4, <2>3, FS_Singleton
<1> QED
  BY <1>3, <1>4

(* The two threads are at known places with a descriptor number and an     *)
(* object of the right sort, and what a blocked call waits on is a socket, *)
(* never a file: no call reaches a number that was handed out again.       *)
THEOREM ServerTypeCorrect == Spec => []TypeOK
BY SafeAlways, PTL

(* An open descriptor of the server has one owner and a closed one none,   *)
(* whatever main and the signal thread interleave between the atomic       *)
(* operations and the system calls of acceptClient, closeSocket and stop:  *)
(* no socket is leaked and no number is closed twice.                      *)
THEOREM OneOwnerAlways == Spec => []OneOwner
<1>1. TypeOK /\ Safe => OneOwner
  BY OwnersCounted
<1> QED
  BY <1>1, SafeAlways, PTL

(* An accept that stop() interrupts, before the call, in it or after it,   *)
(* is never reported as a failure of the server (acceptClient's tests of   *)
(* stopped_).                                                              *)
THEOREM StopIsCleanAlways == Spec => []StopIsClean
<1>1. Safe => StopIsClean
  BY DEF Safe, StopMarked
<1> QED
  BY <1>1, SafeAlways, PTL

=============================================================================
