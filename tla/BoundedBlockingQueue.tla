------------------------ MODULE BoundedBlockingQueue ------------------------
(***************************************************************************)
(* The queue between the client's threads                                  *)
(* (include/BoundedBlockingQueue.h), at the grain of its mutex and its two *)
(* condition variables.  A step is what a thread does in one hold of       *)
(* mutex_, which ends when it unlocks or waits; the notifications that     *)
(* follow an unlock are steps of their own.                                *)
(*                                                                         *)
(* A condition variable is the set of threads waiting on it.  A waiting    *)
(* thread that has been removed from the set goes on, tests its predicate  *)
(* again and may wait again; it can be removed without a notification.     *)
(***************************************************************************)
EXTENDS Integers, Sequences, Functions

CONSTANTS Producers,  \* threads calling push
          Batchers,   \* threads calling popBatch
          Poppers,    \* threads calling pop
          Capacity,   \* capacity_
          MaxItems,   \* maxItems of every popBatch
          MaxPush     \* bound: elements each producer pushes

ASSUME CapacityAssumption == Capacity \in Nat \ {0}

ASSUME MaxItemsAssumption == MaxItems \in Nat \ {0}

ASSUME MaxPushAssumption == MaxPush \in Nat

ASSUME ThreadsAssumption == /\ Producers \cap (Batchers \cup Poppers) = {}
                            /\ Batchers \cap Poppers = {}

Consumers == Batchers \cup Poppers
Threads   == Producers \cup Consumers
Item      == Producers \X Nat

VARIABLES queue_,    \* the elements
          closed_,   \* no more elements are accepted
          notEmpty,  \* threads waiting on notEmpty_
          notFull,   \* threads waiting on notFull_
          pc,        \* where each thread is
          batch,     \* elements each consumer has taken and not yet returned
          pushed,    \* elements each producer has pushed
          closer,    \* the thread in close(): "idle", "notEmpty", "notFull"
                     \* (about to notify that variable), "done"
          accepted,  \* history: elements in the order push accepted them
          returned   \* history: elements handed to the consumers' callers

qvars == <<queue_, closed_, notEmpty, notFull, pc, batch, pushed, closer,
           accepted, returned>>

QTypeOK == /\ queue_ \in Seq(Item)
           /\ closed_ \in BOOLEAN
           /\ notEmpty \subseteq Consumers
           /\ notFull \subseteq Producers
           /\ pc \in [Threads -> {"call", "notify", "fill", "late", "done"}]
           /\ batch \in [Consumers -> Seq(Item)]
           /\ pushed \in [Producers -> Nat]
           /\ closer \in {"idle", "notEmpty", "notFull", "done"}
           /\ accepted \in Seq(Item)
           /\ returned \subseteq Item

QInit == /\ queue_ = << >>
         /\ closed_ = FALSE
         /\ notEmpty = {}
         /\ notFull = {}
         /\ pc = [t \in Threads |-> "call"]
         /\ batch = [c \in Consumers |-> << >>]
         /\ pushed = [p \in Producers |-> 0]
         /\ closer = "idle"
         /\ accepted = << >>
         /\ returned = {}

\* notify_one: some waiting thread, if there is one.
NotifyOne(waiting) == \/ waiting = {} /\ waiting' = {}
                      \/ \E t \in waiting : waiting' = waiting \ {t}

NotifyAll(waiting) == waiting' = {}

-----------------------------------------------------------------------------
(* push *)

CanPush(p) == p \in Producers /\ pc[p] = "call" /\ p \notin notFull

Push(p) == /\ CanPush(p)
           /\ ~ closed_
           /\ pushed[p] < MaxPush
           /\ Len(queue_) < Capacity
           /\ queue_' = Append(queue_, <<p, pushed[p]>>)
           /\ accepted' = Append(accepted, <<p, pushed[p]>>)
           /\ pushed' = [pushed EXCEPT ![p] = @ + 1]
           /\ pc' = [pc EXCEPT ![p] = "notify"]
           /\ UNCHANGED <<closed_, notEmpty, notFull, batch, closer, returned>>

PushWaits(p) == /\ CanPush(p)
                /\ ~ closed_
                /\ pushed[p] < MaxPush
                /\ Len(queue_) >= Capacity
                /\ notFull' = notFull \cup {p}
                /\ UNCHANGED <<queue_, closed_, notEmpty, pc, batch, pushed,
                               closer, accepted, returned>>

\* push returns false; or the producer has no more to push.
PushEnds(p) == /\ CanPush(p)
               /\ closed_ \/ pushed[p] = MaxPush
               /\ pc' = [pc EXCEPT ![p] = "done"]
               /\ UNCHANGED <<queue_, closed_, notEmpty, notFull, batch, pushed,
                              closer, accepted, returned>>

\* Mutant of PushNotifies: nobody is notified.
PushKeepsQuiet(p) == /\ p \in Producers
                     /\ pc[p] = "notify"
                     /\ pc' = [pc EXCEPT ![p] = "call"]
                     /\ UNCHANGED <<queue_, closed_, notEmpty, notFull, batch,
                                    pushed, closer, accepted, returned>>

PushNotifies(p) == /\ p \in Producers
                   /\ pc[p] = "notify"
                   /\ NotifyOne(notEmpty)
                   /\ pc' = [pc EXCEPT ![p] = "call"]
                   /\ UNCHANGED <<queue_, closed_, notFull, batch, pushed,
                                  closer, accepted, returned>>

-----------------------------------------------------------------------------
(* pop and popBatch *)

\* Mutant of PopEnds: a closed queue is not drained.
PopEndsWhenClosed(c) == /\ c \in Consumers
                        /\ pc[c] = "call"
                        /\ c \notin notEmpty
                        /\ closed_
                        /\ pc' = [pc EXCEPT ![c] = "done"]
                        /\ UNCHANGED <<queue_, closed_, notEmpty, notFull, batch,
                                       pushed, closer, accepted, returned>>

\* Nothing to take and nothing to wait for: the call returns empty-handed, and
\* its thread stops calling.
PopEnds(c) == /\ c \in Consumers
              /\ pc[c] = "call"
              /\ c \notin notEmpty
              /\ queue_ = << >>
              /\ closed_
              /\ pc' = [pc EXCEPT ![c] = "done"]
              /\ UNCHANGED <<queue_, closed_, notEmpty, notFull, batch, pushed,
                             closer, accepted, returned>>

\* The first wait of both operations, and the timed wait of popBatch.
PopWaits(c) == /\ c \in Consumers
               /\ pc[c] \in {"call", "fill"}
               /\ c \notin notEmpty
               /\ queue_ = << >>
               /\ ~ closed_
               /\ notEmpty' = notEmpty \cup {c}
               /\ UNCHANGED <<queue_, closed_, notFull, pc, batch, pushed,
                              closer, accepted, returned>>

Pop(c) == /\ c \in Poppers
          /\ pc[c] = "call"
          /\ c \notin notEmpty
          /\ queue_ # << >>
          /\ batch' = [batch EXCEPT ![c] = <<Head(queue_)>>]
          /\ queue_' = Tail(queue_)
          /\ pc' = [pc EXCEPT ![c] = "notify"]
          /\ UNCHANGED <<closed_, notEmpty, notFull, pushed, closer, accepted,
                         returned>>

\* Mutant of Room: what earlier rounds took is not counted.
RoomOfEmptyBatch(c) == MaxItems

\* How many elements popBatch takes before it is full or the queue is empty.
Room(c) == MaxItems - Len(batch[c])

TakeCount(c) == IF Room(c) < Len(queue_) THEN Room(c) ELSE Len(queue_)

\* Within one hold of the lock popBatch takes all it can.  A batch that is
\* still not full waits for more, unless the queue is closed.  One that is
\* late does so too: wait_until lets go of the lock and returns at once, that
\* is Deadline, and others may have come in between.
TakeBatch(c) ==
  /\ c \in Batchers
  /\ pc[c] \in {"call", "fill", "late"}
  /\ c \notin notEmpty
  /\ queue_ # << >>
  /\ LET n == TakeCount(c) IN
     /\ batch' = [batch EXCEPT ![c] = @ \o SubSeq(queue_, 1, n)]
     /\ queue_' = SubSeq(queue_, n + 1, Len(queue_))
     /\ IF n < Room(c) /\ ~ closed_
        THEN /\ pc' = [pc EXCEPT ![c] = "fill"]
             /\ notEmpty' = notEmpty \cup {c}
        ELSE /\ pc' = [pc EXCEPT ![c] = "notify"]
             /\ UNCHANGED notEmpty
  /\ UNCHANGED <<closed_, notFull, pushed, closer, accepted, returned>>

\* The queue was closed while popBatch waited, or nothing came in time.
BatchEnds(c) == /\ c \in Batchers
                /\ pc[c] \in {"fill", "late"}
                /\ c \notin notEmpty
                /\ queue_ = << >>
                /\ closed_ \/ pc[c] = "late"
                /\ pc' = [pc EXCEPT ![c] = "notify"]
                /\ UNCHANGED <<queue_, closed_, notEmpty, notFull, batch, pushed,
                               closer, accepted, returned>>

\* Mutant of Deadline: a batch that is late is dropped.
DeadlineDropsBatch(c) == /\ c \in Batchers
                         /\ pc[c] = "fill"
                         /\ pc' = [pc EXCEPT ![c] = "call"]
                         /\ notEmpty' = notEmpty \ {c}
                         /\ batch' = [batch EXCEPT ![c] = << >>]
                         /\ UNCHANGED <<queue_, closed_, notFull, pushed, closer,
                                        accepted, returned>>

\* The deadline of popBatch passes while it waits.
Deadline(c) == /\ c \in Batchers
               /\ pc[c] = "fill"
               /\ pc' = [pc EXCEPT ![c] = "late"]
               /\ notEmpty' = notEmpty \ {c}
               /\ UNCHANGED <<queue_, closed_, notFull, batch, pushed, closer,
                              accepted, returned>>

\* Mutant of PopNotifies: popBatch wakes one producer for many elements.
PopNotifiesOne(c) == /\ c \in Consumers
                     /\ pc[c] = "notify"
                     /\ NotifyOne(notFull)
                     /\ returned' = returned \cup Range(batch[c])
                     /\ batch' = [batch EXCEPT ![c] = << >>]
                     /\ pc' = [pc EXCEPT ![c] = "call"]
                     /\ UNCHANGED <<queue_, closed_, notEmpty, pushed, closer,
                                    accepted>>

\* Unlocked: notify the producers and return.
PopNotifies(c) == /\ c \in Consumers
                  /\ pc[c] = "notify"
                  /\ IF c \in Poppers THEN NotifyOne(notFull)
                                      ELSE NotifyAll(notFull)
                  /\ returned' = returned \cup Range(batch[c])
                  /\ batch' = [batch EXCEPT ![c] = << >>]
                  /\ pc' = [pc EXCEPT ![c] = "call"]
                  /\ UNCHANGED <<queue_, closed_, notEmpty, pushed, closer,
                                 accepted>>

-----------------------------------------------------------------------------
(* close, and wakeups without a cause *)

Close == /\ closer = "idle"
         /\ closed_' = TRUE
         /\ closer' = "notEmpty"
         /\ UNCHANGED <<queue_, notEmpty, notFull, pc, batch, pushed, accepted,
                        returned>>

\* Mutant of CloseNotifiesConsumers: only one waiting consumer is woken.
CloseNotifiesOneConsumer == /\ closer = "notEmpty"
                            /\ NotifyOne(notEmpty)
                            /\ closer' = "notFull"
                            /\ UNCHANGED <<queue_, closed_, notFull, pc, batch,
                                           pushed, accepted, returned>>

CloseNotifiesConsumers == /\ closer = "notEmpty"
                          /\ NotifyAll(notEmpty)
                          /\ closer' = "notFull"
                          /\ UNCHANGED <<queue_, closed_, notFull, pc, batch,
                                         pushed, accepted, returned>>

CloseNotifiesProducers == /\ closer = "notFull"
                          /\ NotifyAll(notFull)
                          /\ closer' = "done"
                          /\ UNCHANGED <<queue_, closed_, notEmpty, pc, batch,
                                         pushed, accepted, returned>>

SpuriousWakeup(t) == /\ t \in notEmpty \cup notFull
                     /\ notEmpty' = notEmpty \ {t}
                     /\ notFull' = notFull \ {t}
                     /\ UNCHANGED <<queue_, closed_, pc, batch, pushed, closer,
                                    accepted, returned>>

ThreadStep(t) == \/ Push(t) \/ PushWaits(t) \/ PushEnds(t) \/ PushNotifies(t)
                 \/ PopEnds(t) \/ PopWaits(t) \/ Pop(t)
                 \/ TakeBatch(t) \/ BatchEnds(t) \/ PopNotifies(t)

CloserStep == CloseNotifiesConsumers \/ CloseNotifiesProducers

QNext == \/ \E t \in Threads : ThreadStep(t) \/ Deadline(t) \/ SpuriousWakeup(t)
         \/ Close
         \/ CloserStep

QSpec == QInit /\ [][QNext]_qvars

\* A thread that can step does; close() once begun is finished; deadlines pass.
\* No fairness for close itself, and none for spurious wakeups.
QFairSpec == /\ QSpec
             /\ \A t \in Threads : WF_qvars(ThreadStep(t)) /\ WF_qvars(Deadline(t))
             /\ WF_qvars(CloserStep)

-----------------------------------------------------------------------------
(* Properties. *)

Taken == UNION {Range(batch[c]) : c \in Consumers}

\* An element push accepted is in the queue, with a consumer, or returned, and
\* in one of these places only; the queue holds the newest ones in order.
NothingLostOrDoubled ==
  /\ Range(accepted) = Range(queue_) \cup Taken \cup returned
  /\ Range(queue_) \cap (Taken \cup returned) = {}
  /\ Taken \cap returned = {}
  /\ queue_ = SubSeq(accepted, Len(accepted) - Len(queue_) + 1, Len(accepted))

\* popBatch never returns more than maxItems, and waits for more only with a
\* batch that has room; between calls a consumer holds nothing.
BatchBounded ==
  \A c \in Batchers : /\ Len(batch[c]) <= MaxItems
                      /\ pc[c] \in {"fill", "late"} => Len(batch[c]) < MaxItems
                      /\ pc[c] \in {"call", "done"} => batch[c] = << >>

\* No lost wakeup of a consumer: while one waits and there is an element, a
\* notification is on its way or another consumer is awake to take it.
ConsumerNotStranded ==
  notEmpty # {} /\ queue_ # << >> =>
     \/ \E p \in Producers : pc[p] = "notify"
     \/ \E c \in Consumers \ notEmpty : pc[c] \in {"call", "fill", "late"}
     \/ closer = "notEmpty"

\* No lost wakeup of a producer, and no producer asleep while a half-filled
\* popBatch is asleep too: a producer waits only while the queue is full or a
\* notification of notFull_ is on its way.  popBatch notifies only at its end,
\* so this needs a batch to be no larger than the queue.  pop wakes one
\* producer only: with threads that call it, room for a second one may also be
\* left to a producer that is awake, or to a popBatch that waits to be filled
\* and will notify at its deadline.
ProducerNotStranded ==
  notFull # {} =>
     \/ Len(queue_) >= Capacity
     \/ \E c \in Consumers : pc[c] = "notify"
     \/ closer \in {"notEmpty", "notFull"}
     \/ /\ Poppers # {}
        /\ \/ \E p \in Producers \ notFull : pc[p] # "done"
           \/ \E c \in Batchers : pc[c] \in {"fill", "late"}

\* After close every call returns and every thread comes to its end.
CloseReleasesAll == closed_ ~> \A t \in Threads : pc[t] = "done"

\* Whatever push accepted reaches a consumer, closed or not.
EverythingReturned == \A x \in Producers \X (0 .. MaxPush - 1) :
                         x \in Range(accepted) ~> x \in returned

=============================================================================
