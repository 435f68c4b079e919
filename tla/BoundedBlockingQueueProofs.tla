--------------------- MODULE BoundedBlockingQueueProofs ---------------------
(* Proofs about BoundedBlockingQueue, for any threads, capacity and batch size. *)
EXTENDS BoundedBlockingQueue, SequenceTheorems, FiniteSetTheorems, TLAPS

\* Removing a prefix of a queue leaves a queue of the remaining length.
LEMMA SplitType ==
  ASSUME NEW S, NEW s \in Seq(S), NEW n \in 0 .. Len(s)
  PROVE  /\ SubSeq(s, 1, n) \in Seq(S)
         /\ Len(SubSeq(s, 1, n)) = n
         /\ SubSeq(s, n + 1, Len(s)) \in Seq(S)
         /\ Len(SubSeq(s, n + 1, Len(s))) = Len(s) - n
<1>1. \A i \in 1 .. Len(s) : s[i] \in S
  BY ElementOfSeq
<1>2. Len(s) \in Nat
  BY LenProperties
<1> QED
  BY <1>1, <1>2, SubSeqProperties

\* What popBatch takes fits its batch; what it leaves of a full queue it leaves
\* because the batch is full.
LEMMA TakeFacts ==
  ASSUME QTypeOK, BatchBounded, NEW t, TakeBatch(t)
  PROVE  /\ TakeCount(t) \in 1 .. Len(queue_)
         /\ TakeCount(t) <= Room(t)
         /\ TakeCount(t) < Room(t) => TakeCount(t) = Len(queue_)
<1>1. t \in Batchers /\ batch[t] \in Seq(Item) /\ queue_ \in Seq(Item)
  BY DEF TakeBatch, QTypeOK, Consumers
<1>2. Len(batch[t]) \in Nat /\ Len(queue_) \in Nat /\ Len(queue_) # 0
  BY <1>1, LenProperties, EmptySeq DEF TakeBatch
<1>3. Len(batch[t]) < MaxItems
  <2>1. CASE pc[t] = "call"
    BY <1>1, <2>1, MaxItemsAssumption DEF BatchBounded
  <2>2. CASE pc[t] \in {"fill", "late"}
    BY <1>1, <2>2 DEF BatchBounded
  <2> QED
    BY <2>1, <2>2 DEF TakeBatch
<1>4. Room(t) \in Nat \ {0}
  BY <1>2, <1>3, MaxItemsAssumption DEF Room
<1> QED
  BY <1>2, <1>4 DEF TakeCount

\* Types, and the size of batches, are preserved together: that popBatch takes
\* a prefix of the queue depends on its batch having room.
LEMMA QueueTypeStep == QTypeOK /\ BatchBounded /\ [QNext]_qvars
                          => QTypeOK' /\ BatchBounded'
<1> SUFFICES ASSUME QTypeOK, BatchBounded, [QNext]_qvars
             PROVE  QTypeOK' /\ BatchBounded'
  OBVIOUS
<1> USE MaxItemsAssumption, CapacityAssumption, MaxPushAssumption, ThreadsAssumption
    DEF QTypeOK, Threads, Consumers, BatchBounded
<1>1. ASSUME NEW t \in Threads, Push(t) PROVE QTypeOK' /\ BatchBounded'
  <2>1. <<t, pushed[t]>> \in Item
    BY <1>1 DEF Push, CanPush, Item
  <2> QED
    BY <1>1, <2>1 DEF Push, CanPush
<1>2. ASSUME NEW t \in Threads, PushWaits(t) PROVE QTypeOK' /\ BatchBounded'
  BY <1>2 DEF PushWaits, CanPush
<1>3. ASSUME NEW t \in Threads, PushEnds(t) PROVE QTypeOK' /\ BatchBounded'
  BY <1>3 DEF PushEnds, CanPush
<1>4. ASSUME NEW t \in Threads, PushNotifies(t) PROVE QTypeOK' /\ BatchBounded'
  BY <1>4 DEF PushNotifies, NotifyOne
<1>5. ASSUME NEW t \in Threads, PopEnds(t) PROVE QTypeOK' /\ BatchBounded'
  BY <1>5 DEF PopEnds
<1>6. ASSUME NEW t \in Threads, PopWaits(t) PROVE QTypeOK' /\ BatchBounded'
  BY <1>6 DEF PopWaits
<1>7. ASSUME NEW t \in Threads, Pop(t) PROVE QTypeOK' /\ BatchBounded'
  <2>1. Head(queue_) \in Item /\ Tail(queue_) \in Seq(Item)
    BY <1>7, HeadTailProperties DEF Pop
  <2>2. <<Head(queue_)>> \in Seq(Item)
    BY <2>1
  <2> QED
    BY <1>7, <2>1, <2>2 DEF Pop
<1>8. ASSUME NEW t \in Threads, TakeBatch(t) PROVE QTypeOK' /\ BatchBounded'
  <2> DEFINE n == TakeCount(t)
             taken == SubSeq(queue_, 1, n)
             rest == SubSeq(queue_, n + 1, Len(queue_))
  <2>1. t \in Batchers /\ t \in Consumers /\ batch[t] \in Seq(Item)
    BY <1>8 DEF TakeBatch
  <2>2. n \in 0 .. Len(queue_) /\ n <= Room(t)
    BY <1>8, TakeFacts
  <2>3. taken \in Seq(Item) /\ Len(taken) = n /\ rest \in Seq(Item)
    BY <2>2, SplitType
  <2>4. /\ batch[t] \o taken \in Seq(Item)
        /\ Len(batch[t] \o taken) = Len(batch[t]) + n
    BY <2>1, <2>3, ConcatProperties
  <2>5. QTypeOK'
    BY <1>8, <2>1, <2>3, <2>4 DEF TakeBatch
  <2>6. Len(batch[t]) \in Nat
    BY <2>1, LenProperties
  <2>7. ASSUME NEW c \in Batchers, c # t
        PROVE  batch'[c] = batch[c] /\ pc'[c] = pc[c]
    BY <1>8, <2>1, <2>7 DEF TakeBatch
  <2>8. Len(batch'[t]) = Len(batch[t]) + n
    BY <1>8, <2>1, <2>4 DEF TakeBatch
  <2>9. \/ pc' = [pc EXCEPT ![t] = "notify"]
        \/ pc' = [pc EXCEPT ![t] = "fill"] /\ n < Room(t)
    BY <1>8, Zenon DEF TakeBatch
  <2> HIDE DEF n, taken, rest
  <2>10. pc'[t] = "notify" \/ (pc'[t] = "fill" /\ n < Room(t))
    BY <2>1, <2>9
  <2>11. Room(t) = MaxItems - Len(batch[t]) /\ Room(t) \in Int
    BY <2>6 DEF Room
  <2>12. /\ Len(batch'[t]) <= MaxItems
         /\ pc'[t] \in {"fill", "late"} => Len(batch'[t]) < MaxItems
         /\ pc'[t] \notin {"call", "done"}
    BY <2>2, <2>6, <2>8, <2>10, <2>11
  <2>13. BatchBounded'
    BY <2>7, <2>12
  <2> QED
    BY <2>5, <2>13
<1>9. ASSUME NEW t \in Threads, BatchEnds(t) PROVE QTypeOK' /\ BatchBounded'
  BY <1>9 DEF BatchEnds
<1>10. ASSUME NEW t \in Threads, PopNotifies(t) PROVE QTypeOK' /\ BatchBounded'
  <2>1. Range(batch[t]) \subseteq Item
    BY <1>10, ElementOfSeq DEF PopNotifies, Range
  <2> QED
    BY <1>10, <2>1 DEF PopNotifies, NotifyOne, NotifyAll
<1>11. ASSUME NEW t \in Threads, Deadline(t) PROVE QTypeOK' /\ BatchBounded'
  BY <1>11 DEF Deadline
<1>12. ASSUME NEW t \in Threads, SpuriousWakeup(t) PROVE QTypeOK' /\ BatchBounded'
  BY <1>12 DEF SpuriousWakeup
<1>13. CASE Close
  BY <1>13 DEF Close
<1>14. CASE CloserStep
  BY <1>14 DEF CloserStep, CloseNotifiesConsumers, CloseNotifiesProducers,
               NotifyAll
<1>15. CASE UNCHANGED qvars
  BY <1>15 DEF qvars
<1> QED
  BY <1>1, <1>2, <1>3, <1>4, <1>5, <1>6, <1>7, <1>8, <1>9, <1>10, <1>11,
     <1>12, <1>13, <1>14, <1>15 DEF QNext, ThreadStep

\* An empty queue and threads that hold nothing.
LEMMA QueueTypeInit == QInit => QTypeOK /\ BatchBounded
<1> SUFFICES ASSUME QInit PROVE QTypeOK /\ BatchBounded
  OBVIOUS
<1>1. << >> \in Seq(Item) /\ Len(<< >>) = 0
  BY EmptySeq
<1>2. QTypeOK
  BY <1>1 DEF QInit, QTypeOK, Threads, Consumers
<1>3. BatchBounded
  BY <1>1, MaxItemsAssumption DEF QInit, BatchBounded, Threads, Consumers
<1> QED
  BY <1>2, <1>3

\* Every variable keeps its type; only producers wait on notFull_, only
\* consumers on notEmpty_.
THEOREM QueueTypeCorrect == QSpec => []QTypeOK
  BY QueueTypeInit, QueueTypeStep, PTL DEF QSpec

\* popBatch never holds more than maxItems elements, and waits only with room.
THEOREM BatchesBounded == QSpec => []BatchBounded
  BY QueueTypeInit, QueueTypeStep, PTL DEF QSpec

-----------------------------------------------------------------------------
\* The strengthening that makes ProducerNotStranded inductive: once close() is
\* through, no producer waits, and none can start to.
CloserDone == /\ closer # "idle" <=> closed_
              /\ closer = "done" => notFull = {}

\* No producer sleeps while there is room and nobody is about to wake it,
\* provided a batch fits into the queue and only popBatch consumes: the case of
\* the client, with a capacity of 100 and batches of 10.
THEOREM NoProducerStranded ==
  ASSUME Poppers = {}, MaxItems <= Capacity
  PROVE  QSpec => []ProducerNotStranded
<1> DEFINE Inv == QTypeOK /\ BatchBounded /\ CloserDone /\ ProducerNotStranded
<1>1. QInit => Inv
  <2>1. QInit => QTypeOK /\ BatchBounded
    BY QueueTypeInit
  <2>2. QInit => CloserDone /\ ProducerNotStranded
    BY DEF QInit, CloserDone, ProducerNotStranded
  <2> QED
    BY <2>1, <2>2
<1>2. Inv /\ [QNext]_qvars => Inv'
  <2> SUFFICES ASSUME Inv, [QNext]_qvars PROVE CloserDone' /\ ProducerNotStranded'
    BY QueueTypeStep
  <2> USE DEF CloserDone, ProducerNotStranded
  <2>0. Consumers = Batchers /\ Batchers \subseteq Threads /\ Producers \subseteq Threads
    BY DEF Consumers, Threads
  <2>a. /\ pc \in [Threads -> {"call", "notify", "fill", "late", "done"}]
        /\ queue_ \in Seq(Item)
        /\ Len(queue_) \in Nat
        /\ closer \in {"idle", "notEmpty", "notFull", "done"}
        /\ closed_ \in BOOLEAN
        /\ notFull \subseteq Producers
    BY LenProperties DEF QTypeOK
  <2> USE <2>0, <2>a, CapacityAssumption, MaxItemsAssumption, ThreadsAssumption
  <2>1. ASSUME NEW t \in Threads, Push(t)
        PROVE  CloserDone' /\ ProducerNotStranded'
    <3>1. t \in Producers /\ t \notin Batchers
      BY <2>1 DEF Push, CanPush
    <3>2. Len(queue_') = Len(queue_) + 1
      BY <2>1, AppendProperties, <3>1 DEF Push
    <3>3. \A c \in Batchers : pc'[c] = pc[c]
      BY <2>1, <3>1 DEF Push
    <3> QED
      BY <2>1, <3>2, <3>3 DEF Push
  <2>2. ASSUME NEW t \in Threads, PushWaits(t)
        PROVE  CloserDone' /\ ProducerNotStranded'
    BY <2>2 DEF PushWaits, CanPush
  <2>3. ASSUME NEW t \in Threads, PushEnds(t) \/ PushNotifies(t)
        PROVE  CloserDone' /\ ProducerNotStranded'
    <3>1. \A c \in Batchers : pc'[c] = pc[c]
      BY <2>3 DEF PushEnds, CanPush, PushNotifies
    <3> QED
      BY <2>3, <3>1 DEF PushEnds, PushNotifies
  <2>4. ASSUME NEW t \in Threads, PopEnds(t) \/ PopWaits(t) \/ Deadline(t)
        PROVE  CloserDone' /\ ProducerNotStranded'
    <3>1. \A c \in Batchers : pc[c] = "notify" => pc'[c] = "notify"
      BY <2>4 DEF PopEnds, PopWaits, Deadline
    <3> QED
      BY <2>4, <3>1 DEF PopEnds, PopWaits, Deadline
  <2>5. ASSUME NEW t \in Threads, TakeBatch(t)
        PROVE  CloserDone' /\ ProducerNotStranded'
    <3>1. /\ TakeCount(t) \in 1 .. Len(queue_)
          /\ TakeCount(t) <= Room(t)
          /\ TakeCount(t) < Room(t) => TakeCount(t) = Len(queue_)
      BY <2>5, TakeFacts
    <3>2. /\ \A c \in Batchers : pc[c] = "notify" => pc'[c] = "notify"
          /\ UNCHANGED <<notFull, closer, closed_>>
          /\ t \in Batchers
          /\ pc'[t] # "notify" => TakeCount(t) < Room(t)
      BY <2>5, Zenon DEF TakeBatch
    <3>3. CASE pc'[t] = "notify"
      BY <3>2, <3>3
    <3>4. CASE pc'[t] # "notify"
      <4>1. Len(batch[t]) \in Nat
        BY <3>2, LenProperties DEF QTypeOK
      <4>2. Len(queue_) < Capacity
        BY <3>1, <3>2, <3>4, <4>1 DEF Room
      <4> QED
        BY <3>2, <4>2
    <3> QED
      BY <3>3, <3>4
  <2>6. ASSUME NEW t \in Threads, BatchEnds(t)
        PROVE  CloserDone' /\ ProducerNotStranded'
    BY <2>6 DEF BatchEnds
  <2>7. ASSUME NEW t \in Threads, PopNotifies(t)
        PROVE  CloserDone' /\ ProducerNotStranded'
    BY <2>7 DEF PopNotifies, NotifyAll
  <2>8. ASSUME NEW t \in Threads, SpuriousWakeup(t)
        PROVE  CloserDone' /\ ProducerNotStranded'
    BY <2>8 DEF SpuriousWakeup
  <2>9. CASE Close \/ CloserStep
    BY <2>9 DEF Close, CloserStep, CloseNotifiesConsumers,
                CloseNotifiesProducers, NotifyAll
  <2>10. CASE UNCHANGED qvars
    BY <2>10 DEF qvars
  <2>11. \A t : ~ Pop(t)
    BY DEF Pop
  <2> QED
    BY <2>1, <2>2, <2>3, <2>4, <2>5, <2>6, <2>7, <2>8, <2>9, <2>10, <2>11
       DEF QNext, ThreadStep
<1> QED
  BY <1>1, <1>2, PTL DEF QSpec

-----------------------------------------------------------------------------
(* Where the elements are. *)

Distinct(s) == \A i, j \in 1 .. Len(s) : s[i] = s[j] => i = j

\* The queue is the newest part of what was accepted.
Newest == /\ Len(queue_) <= Len(accepted)
          /\ \A k \in 1 .. Len(queue_) :
                queue_[k] = accepted[Len(accepted) - Len(queue_) + k]

\* No element is accepted twice, because a producer's elements are numbered.
Numbered == /\ Distinct(accepted)
            /\ \A i \in 1 .. Len(accepted) :
                  accepted[i][2] < pushed[accepted[i][1]]

\* Two consumers hold different elements, and between calls a consumer none.
Apart == /\ \A c, d \in Consumers :
               c # d => Range(batch[c]) \cap Range(batch[d]) = {}
         /\ \A c \in Consumers : pc[c] \in {"call", "done"} => batch[c] = << >>

Placed == /\ Range(accepted) = Range(queue_) \cup Taken \cup returned
          /\ Range(queue_) \cap (Taken \cup returned) = {}
          /\ Taken \cap returned = {}

\* The strengthening that makes NothingLostOrDoubled inductive.
Ledger == Newest /\ Numbered /\ Apart /\ Placed

\* An element is in a sequence when some position holds it.
LEMMA InRange ==
  ASSUME NEW S, NEW s \in Seq(S)
  PROVE  \A x : x \in Range(s) <=> \E i \in 1 .. Len(s) : s[i] = x
  BY RangeEquality

\* Append adds one element to the elements of a sequence.
LEMMA AppendRange ==
  ASSUME NEW S, NEW s \in Seq(S), NEW e \in S
  PROVE  Range(Append(s, e)) = Range(s) \cup {e}
<1> DEFINE r == Append(s, e)
<1>1. /\ r \in Seq(S) /\ Len(s) \in Nat /\ Len(r) = Len(s) + 1
      /\ \A i \in 1 .. Len(s) : r[i] = s[i]
      /\ r[Len(s) + 1] = e
  BY AppendProperties, LenProperties
<1> HIDE DEF r
<1>2. \A x : x \in Range(r) <=> \E i \in 1 .. Len(r) : r[i] = x
  BY <1>1, InRange
<1>3. \A x : x \in Range(s) <=> \E i \in 1 .. Len(s) : s[i] = x
  BY InRange
<1>4. ASSUME NEW x \in Range(r) PROVE x \in Range(s) \cup {e}
  <2>1. PICK i \in 1 .. Len(r) : r[i] = x
    BY <1>2
  <2>2. i \in 1 .. Len(s) \/ i = Len(s) + 1
    BY <1>1
  <2> QED
    BY <1>1, <1>3, <2>1, <2>2
<1>5. Range(s) \subseteq Range(r)
  BY <1>1, <1>2, <1>3
<1>6. e \in Range(r)
  BY <1>1, <1>2
<1>7. Range(r) = Range(s) \cup {e}
  BY <1>4, <1>5, <1>6
<1> QED
  BY <1>7 DEF r

\* Cutting a sequence without repetitions gives two disjoint parts of it.
LEMMA CutRange ==
  ASSUME NEW S, NEW s \in Seq(S), Distinct(s), NEW n \in 0 .. Len(s)
  PROVE  /\ Range(s) = Range(SubSeq(s, 1, n)) \cup Range(SubSeq(s, n + 1, Len(s)))
         /\ Range(SubSeq(s, 1, n)) \cap Range(SubSeq(s, n + 1, Len(s))) = {}
<1> DEFINE a == SubSeq(s, 1, n)
           b == SubSeq(s, n + 1, Len(s))
<1>1. Len(s) \in Nat /\ \A i \in 1 .. Len(s) : s[i] \in S
  BY LenProperties, ElementOfSeq
<1>2. /\ a \in Seq(S) /\ Len(a) = n
      /\ \A i \in 1 .. n : a[i] = s[i]
  BY <1>1, SubSeqProperties
<1>3. /\ b \in Seq(S) /\ Len(b) = Len(s) - n
      /\ \A i \in 1 .. Len(s) - n : b[i] = s[n + i]
  BY <1>1, SubSeqProperties
<1> HIDE DEF a, b
<1>4. ASSUME NEW x \in Range(s) PROVE x \in Range(a) \cup Range(b)
  <2>1. PICK i \in 1 .. Len(s) : s[i] = x
    BY InRange
  <2>2. CASE i <= n
    BY <1>1, <1>2, <2>1, <2>2, InRange
  <2>3. CASE i > n
    <3>1. i - n \in 1 .. Len(b) /\ b[i - n] = x
      BY <1>1, <1>3, <2>1, <2>3
    <3> QED
      BY <1>3, <3>1, InRange
  <2> QED
    BY <1>1, <2>2, <2>3
<1>5. Range(a) \subseteq Range(s)
  BY <1>1, <1>2, InRange
<1>6. Range(b) \subseteq Range(s)
  <2> SUFFICES ASSUME NEW x \in Range(b) PROVE x \in Range(s)
    OBVIOUS
  <2>1. PICK i \in 1 .. Len(b) : b[i] = x
    BY <1>3, InRange
  <2>2. n + i \in 1 .. Len(s) /\ s[n + i] = x
    BY <1>1, <1>3, <2>1
  <2> QED
    BY <2>2, InRange
<1>7. ASSUME NEW x \in Range(a), x \in Range(b) PROVE FALSE
  <2>1. PICK i \in 1 .. Len(a) : a[i] = x
    BY <1>2, InRange
  <2>2. PICK j \in 1 .. Len(b) : b[j] = x
    BY <1>3, <1>7, InRange
  <2>3. /\ i \in 1 .. Len(s) /\ n + j \in 1 .. Len(s)
        /\ s[i] = s[n + j] /\ i # n + j
    BY <1>1, <1>2, <1>3, <2>1, <2>2
  <2> QED
    BY <2>3 DEF Distinct
<1>8. Range(s) = Range(a) \cup Range(b) /\ Range(a) \cap Range(b) = {}
  BY <1>4, <1>5, <1>6, <1>7
<1> QED
  BY <1>8 DEF a, b

\* The queue holds no element twice.
LEMMA QueueDistinct ==
  ASSUME QTypeOK, Newest, Numbered
  PROVE  Distinct(queue_)
<1>1. Len(queue_) \in Nat /\ Len(accepted) \in Nat
  BY LenProperties DEF QTypeOK
<1> SUFFICES ASSUME NEW i \in 1 .. Len(queue_), NEW j \in 1 .. Len(queue_),
                    queue_[i] = queue_[j]
             PROVE  i = j
  BY DEF Distinct
<1> DEFINE d == Len(accepted) - Len(queue_)
<1>2. d + i \in 1 .. Len(accepted) /\ d + j \in 1 .. Len(accepted)
  BY <1>1 DEF Newest
<1>3. accepted[d + i] = accepted[d + j]
  BY DEF Newest
<1>4. d + i = d + j
  BY <1>2, <1>3 DEF Numbered, Distinct
<1> QED
  BY <1>1, <1>4

\* A consumer takes the first n elements of the queue: they change hands.
LEMMA TakeMoves ==
  ASSUME QTypeOK, Ledger, QTypeOK',
         NEW t \in Consumers, NEW n \in 0 .. Len(queue_),
         queue_' = SubSeq(queue_, n + 1, Len(queue_)),
         Range(batch'[t]) = Range(batch[t]) \cup Range(SubSeq(queue_, 1, n)),
         \A c \in Consumers : c # t => batch'[c] = batch[c] /\ pc'[c] = pc[c],
         pc'[t] \notin {"call", "done"},
         UNCHANGED <<accepted, pushed, returned>>
  PROVE  Ledger'
<1> DEFINE T == Range(SubSeq(queue_, 1, n))
<1>1. Len(queue_) \in Nat /\ Len(accepted) \in Nat
  BY LenProperties DEF QTypeOK
<1>2. /\ Range(queue_) = T \cup Range(queue_')
      /\ T \cap Range(queue_') = {}
  BY QueueDistinct, CutRange DEF QTypeOK, Ledger
<1>3. Newest'
  <2>1. \A i \in 1 .. Len(queue_) : queue_[i] \in Item
    BY ElementOfSeq DEF QTypeOK
  <2>2. /\ Len(queue_') = Len(queue_) - n
        /\ \A i \in 1 .. Len(queue_) - n : queue_'[i] = queue_[n + i]
    BY <1>1, <2>1, SubSeqProperties
  <2>3. ASSUME NEW k \in 1 .. Len(queue_')
        PROVE  queue_'[k] = accepted'[Len(accepted') - Len(queue_') + k]
    <3>1. n + k \in 1 .. Len(queue_) /\ queue_'[k] = queue_[n + k]
      BY <1>1, <2>2
    <3>2. queue_[n + k] = accepted[Len(accepted) - Len(queue_) + (n + k)]
      BY <3>1 DEF Newest, Ledger
    <3>3. Len(accepted) - Len(queue_) + (n + k) = Len(accepted') - Len(queue_') + k
      BY <1>1, <2>2
    <3> QED
      BY <3>1, <3>2, <3>3
  <2>4. Len(queue_') <= Len(accepted')
    BY <1>1, <2>2 DEF Newest, Ledger
  <2> QED
    BY <2>3, <2>4 DEF Newest
<1>4. Numbered'
  BY DEF Ledger, Numbered
<1> HIDE DEF T
<1>5. Taken' = Taken \cup T
  <2>1. ASSUME NEW x \in Taken' PROVE x \in Taken \cup T
    <3>1. PICK c \in Consumers : x \in Range(batch'[c])
      BY DEF Taken
    <3> QED
      BY <3>1 DEF Taken, T
  <2>2. ASSUME NEW x \in Taken PROVE x \in Taken'
    <3>1. PICK c \in Consumers : x \in Range(batch[c])
      BY DEF Taken
    <3>2. x \in Range(batch'[c])
      BY <3>1
    <3> QED
      BY <3>2 DEF Taken
  <2>3. T \subseteq Taken'
    BY DEF Taken, T
  <2> QED
    BY <2>1, <2>2, <2>3
<1>6. Placed'
  BY <1>2, <1>5 DEF Ledger, Placed
<1>7. \A c \in Consumers : T \cap Range(batch[c]) = {}
  BY <1>2 DEF Ledger, Placed, Taken
<1>8. Apart'
  <2>1. \A c, d \in Consumers :
           c # d => Range(batch'[c]) \cap Range(batch'[d]) = {}
    BY <1>7 DEF Ledger, Apart, T
  <2> QED
    BY <2>1 DEF Ledger, Apart
<1> QED
  BY <1>3, <1>4, <1>6, <1>8 DEF Ledger

\* Steps that only move threads about leave the elements where they are.
LEMMA LedgerQuiet ==
  ASSUME Ledger,
         UNCHANGED <<queue_, batch, pushed, accepted, returned>>,
         \A c \in Consumers : pc'[c] \in {"call", "done"} =>
                                 pc[c] \in {"call", "done"}
  PROVE  Ledger'
<1>1. Taken' = Taken
  BY DEF Taken
<1>2. Newest' /\ Numbered' /\ Placed'
  BY <1>1 DEF Ledger, Newest, Numbered, Placed
<1>3. Apart'
  BY DEF Ledger, Apart
<1> QED
  BY <1>2, <1>3 DEF Ledger

\* push adds an element that was never accepted before.
LEMMA LedgerPush ==
  ASSUME QTypeOK, QTypeOK', Ledger, NEW t \in Threads, Push(t)
  PROVE  Ledger'
<1> DEFINE e == <<t, pushed[t]>>
<1>1. /\ t \in Producers /\ t \notin Consumers /\ pushed[t] \in Nat
      /\ e \in Item /\ queue_ \in Seq(Item) /\ accepted \in Seq(Item)
      /\ Len(queue_) \in Nat /\ Len(accepted) \in Nat
  BY LenProperties, ThreadsAssumption DEF Push, CanPush, QTypeOK, Item, Consumers
<1>2. /\ queue_' = Append(queue_, e) /\ accepted' = Append(accepted, e)
      /\ batch' = batch /\ returned' = returned
      /\ pushed' = [pushed EXCEPT ![t] = @ + 1]
      /\ \A c \in Consumers : pc'[c] = pc[c]
  BY <1>1 DEF Push, CanPush
<1>3. e[1] = t /\ e[2] = pushed[t]
  OBVIOUS
<1> HIDE DEF e
<1>4. /\ Len(queue_') = Len(queue_) + 1
      /\ \A i \in 1 .. Len(queue_) : queue_'[i] = queue_[i]
      /\ queue_'[Len(queue_) + 1] = e
  BY <1>1, <1>2, AppendProperties
<1>5. /\ Len(accepted') = Len(accepted) + 1
      /\ \A i \in 1 .. Len(accepted) : accepted'[i] = accepted[i]
      /\ accepted'[Len(accepted) + 1] = e
  BY <1>1, <1>2, AppendProperties
<1>6. \A i \in 1 .. Len(accepted) :
         /\ accepted[i] \in Item
         /\ accepted[i][1] \in Producers /\ accepted[i][2] \in Nat
  BY <1>1, ElementOfSeq DEF Item
<1>7. \A i \in 1 .. Len(accepted) : accepted[i] # e
  <2> SUFFICES ASSUME NEW i \in 1 .. Len(accepted), accepted[i] = e
               PROVE  FALSE
    OBVIOUS
  <2>1. pushed[t] < pushed[t]
    BY <1>3 DEF Ledger, Numbered
  <2> QED
    BY <1>1, <2>1
<1>8. Newest'
  <2>1. ASSUME NEW k \in 1 .. Len(queue_')
        PROVE  queue_'[k] = accepted'[Len(accepted') - Len(queue_') + k]
    <3>1. CASE k \in 1 .. Len(queue_)
      <4> DEFINE m == Len(accepted) - Len(queue_) + k
      <4>1. /\ Len(accepted') - Len(queue_') + k = m
            /\ m \in 1 .. Len(accepted)
        BY <1>1, <1>4, <1>5, <3>1 DEF Ledger, Newest
      <4>2. queue_[k] = accepted[m]
        BY <3>1 DEF Ledger, Newest
      <4> QED
        BY <1>4, <1>5, <3>1, <4>1, <4>2
    <3>2. CASE k = Len(queue_) + 1
      <4>1. Len(accepted') - Len(queue_') + k = Len(accepted) + 1
        BY <1>1, <1>4, <1>5, <3>2
      <4> QED
        BY <1>4, <1>5, <3>2, <4>1
    <3> QED
      BY <1>1, <1>4, <3>1, <3>2
  <2>2. Len(queue_') <= Len(accepted')
    BY <1>1, <1>4, <1>5 DEF Ledger, Newest
  <2> QED
    BY <2>1, <2>2 DEF Newest
<1>9. Numbered'
  <2>1. ASSUME NEW i \in 1 .. Len(accepted'), NEW j \in 1 .. Len(accepted'),
               accepted'[i] = accepted'[j]
        PROVE  i = j
    <3>1. CASE i \in 1 .. Len(accepted) /\ j \in 1 .. Len(accepted)
      BY <1>5, <2>1, <3>1 DEF Ledger, Numbered, Distinct
    <3>2. CASE i = Len(accepted) + 1 \/ j = Len(accepted) + 1
      BY <1>1, <1>5, <1>7, <2>1, <3>2
    <3> QED
      BY <1>1, <1>5, <3>1, <3>2
  <2>2. ASSUME NEW i \in 1 .. Len(accepted')
        PROVE  accepted'[i][2] < pushed'[accepted'[i][1]]
    <3>1. pushed \in [Producers -> Nat]
      BY DEF QTypeOK
    <3>2. CASE i \in 1 .. Len(accepted)
      <4>1. accepted[i][2] < pushed[accepted[i][1]]
        BY <3>2 DEF Ledger, Numbered
      <4>2. pushed[accepted[i][1]] <= pushed'[accepted[i][1]]
        BY <1>1, <1>2, <1>6, <3>1, <3>2
      <4>3. pushed[accepted[i][1]] \in Nat /\ pushed'[accepted[i][1]] \in Nat
        BY <1>6, <3>2 DEF QTypeOK
      <4>4. accepted[i][2] < pushed'[accepted[i][1]]
        BY <1>6, <3>2, <4>1, <4>2, <4>3
      <4> QED
        BY <1>5, <3>2, <4>4
    <3>3. CASE i = Len(accepted) + 1
      BY <1>1, <1>2, <1>3, <1>5, <3>1, <3>3
    <3> QED
      BY <1>1, <1>5, <3>2, <3>3
  <2>3. Distinct(accepted')
    BY <2>1 DEF Distinct
  <2>4. Distinct(accepted)'
    BY <2>3 DEF Distinct
  <2> QED
    BY <2>2, <2>4 DEF Numbered
<1>10. Taken' = Taken
  BY <1>2 DEF Taken
<1>11. Range(queue_') = Range(queue_) \cup {e}
  BY <1>1, <1>2, AppendRange
<1>12. Range(accepted') = Range(accepted) \cup {e}
  BY <1>1, <1>2, AppendRange
<1>13. e \notin Range(accepted)
  BY <1>1, <1>7, InRange
<1>14. Placed'
  BY <1>2, <1>10, <1>11, <1>12, <1>13 DEF Ledger, Placed
<1>15. Apart'
  BY <1>2 DEF Ledger, Apart
<1> QED
  BY <1>8, <1>9, <1>14, <1>15 DEF Ledger

\* Every step keeps the ledger.
LEMMA LedgerStep == QTypeOK /\ BatchBounded /\ Ledger /\ [QNext]_qvars => Ledger'
<1> SUFFICES ASSUME QTypeOK, BatchBounded, Ledger, [QNext]_qvars PROVE Ledger'
  OBVIOUS
<1>0. QTypeOK'
  BY QueueTypeStep
<1>a. /\ Consumers \subseteq Threads /\ Producers \cap Consumers = {}
      /\ Batchers \subseteq Consumers /\ Poppers \subseteq Consumers
      /\ pc \in [Threads -> {"call", "notify", "fill", "late", "done"}]
      /\ batch \in [Consumers -> Seq(Item)]
      /\ queue_ \in Seq(Item)
  BY ThreadsAssumption DEF Consumers, Threads, QTypeOK
<1> USE <1>a
<1>1. ASSUME NEW t \in Threads, Push(t) PROVE Ledger'
  BY <1>0, <1>1, LedgerPush
<1>2. ASSUME NEW t \in Threads, PushWaits(t) \/ PushEnds(t) \/ PushNotifies(t)
      PROVE  Ledger'
  <2>1. \A c \in Consumers : pc'[c] = pc[c]
    BY <1>2 DEF PushWaits, PushEnds, PushNotifies, CanPush
  <2>2. UNCHANGED <<queue_, batch, pushed, accepted, returned>>
    BY <1>2 DEF PushWaits, PushEnds, PushNotifies
  <2> QED
    BY <2>1, <2>2, LedgerQuiet
<1>3. ASSUME NEW t \in Threads,
             PopEnds(t) \/ PopWaits(t) \/ BatchEnds(t) \/ Deadline(t)
      PROVE  Ledger'
  <2>1. \A c \in Consumers : pc'[c] \in {"call", "done"} =>
                                pc[c] \in {"call", "done"}
    BY <1>3 DEF PopEnds, PopWaits, BatchEnds, Deadline
  <2>2. UNCHANGED <<queue_, batch, pushed, accepted, returned>>
    BY <1>3 DEF PopEnds, PopWaits, BatchEnds, Deadline
  <2> QED
    BY <2>1, <2>2, LedgerQuiet
<1>4. ASSUME NEW t \in Threads, Pop(t) PROVE Ledger'
  <2>1. /\ t \in Consumers /\ pc[t] = "call" /\ queue_ # << >>
        /\ queue_' = Tail(queue_)
        /\ batch'[t] = <<Head(queue_)>>
        /\ pc'[t] = "notify"
        /\ \A c \in Consumers : c # t => batch'[c] = batch[c] /\ pc'[c] = pc[c]
        /\ UNCHANGED <<accepted, pushed, returned>>
    BY <1>4 DEF Pop
  <2>2. batch[t] = << >>
    BY <2>1 DEF Ledger, Apart
  <2>3. Len(queue_) \in Nat \ {0}
    BY <2>1, EmptySeq
  <2>4. queue_' = SubSeq(queue_, 1 + 1, Len(queue_))
    BY <2>1, TailIsSubSeq
  <2>5. /\ SubSeq(queue_, 1, 1) \in Seq(Item)
        /\ Len(SubSeq(queue_, 1, 1)) = 1
        /\ SubSeq(queue_, 1, 1)[1] = queue_[1]
    <3>1. \A i \in 1 .. 1 : queue_[i] \in Item
      BY <2>3, ElementOfSeq
    <3> QED
      BY <3>1, SubSeqProperties
  <2>6. Range(SubSeq(queue_, 1, 1)) = {Head(queue_)}
    <3>1. Head(queue_) = queue_[1]
      BY <2>1
    <3>2. \A x : x \in Range(SubSeq(queue_, 1, 1)) <=>
                   \E i \in 1 .. 1 : SubSeq(queue_, 1, 1)[i] = x
      <4>1. \A s \in Seq(Item) : \A x : x \in Range(s) <=>
                                        \E i \in 1 .. Len(s) : s[i] = x
        BY InRange
      <4> QED
        BY <2>5, <4>1, Zenon
    <3>3. \A i \in 1 .. 1 : i = 1
      OBVIOUS
    <3> QED
      BY <2>5, <3>1, <3>2, <3>3
  <2>7. Range(batch'[t]) = {Head(queue_)}
    BY <2>1 DEF Range
  <2>8. Range(batch[t]) = {}
    BY <2>2 DEF Range
  <2>9. Range(batch'[t]) = Range(batch[t]) \cup Range(SubSeq(queue_, 1, 1))
    BY <2>6, <2>7, <2>8
  <2>10. 1 \in 0 .. Len(queue_) /\ pc'[t] \notin {"call", "done"}
    BY <2>1, <2>3
  <2> QED
    BY <1>0, <2>1, <2>4, <2>9, <2>10, TakeMoves
<1>5. ASSUME NEW t \in Threads, TakeBatch(t) PROVE Ledger'
  <2> DEFINE n == TakeCount(t)
  <2>1. t \in Batchers /\ n \in 0 .. Len(queue_)
    <3>1. TakeCount(t) \in 1 .. Len(queue_)
      BY <1>5, TakeFacts
    <3> QED
      BY <1>5, <3>1 DEF TakeBatch
  <2>2. /\ queue_' = SubSeq(queue_, n + 1, Len(queue_))
        /\ batch' = [batch EXCEPT ![t] = @ \o SubSeq(queue_, 1, n)]
        /\ UNCHANGED <<accepted, pushed, returned>>
    BY <1>5 DEF TakeBatch
  <2>3. pc' = [pc EXCEPT ![t] = "fill"] \/ pc' = [pc EXCEPT ![t] = "notify"]
    BY <1>5, Zenon DEF TakeBatch
  <2> HIDE DEF n
  <2>4. SubSeq(queue_, 1, n) \in Seq(Item)
    BY <2>1, SplitType
  <2>5. /\ batch'[t] = batch[t] \o SubSeq(queue_, 1, n)
        /\ \A c \in Consumers : c # t => batch'[c] = batch[c]
    BY <2>1, <2>2
  <2>6. Range(batch'[t]) = Range(batch[t]) \cup Range(SubSeq(queue_, 1, n))
    <3>1. batch[t] \in Seq(Item)
      BY <2>1
    <3>2. Range(batch[t] \o SubSeq(queue_, 1, n))
             = Range(batch[t]) \cup Range(SubSeq(queue_, 1, n))
      <4>1. \A a, b \in Seq(Item) : Range(a \o b) = Range(a) \cup Range(b)
        BY RangeConcatenation
      <4> QED
        BY <2>4, <3>1, <4>1, Zenon
    <3> QED
      BY <2>5, <3>2
  <2>7. /\ pc'[t] \notin {"call", "done"}
        /\ \A c \in Consumers : c # t => pc'[c] = pc[c]
    BY <2>1, <2>3
  <2>8. \A c \in Consumers : c # t => batch'[c] = batch[c] /\ pc'[c] = pc[c]
    BY <2>5, <2>7
  <2> QED
    BY <1>0, <2>1, <2>2, <2>6, <2>7, <2>8, TakeMoves
<1>6. ASSUME NEW t \in Threads, PopNotifies(t) PROVE Ledger'
  <2>1. /\ t \in Consumers
        /\ returned' = returned \cup Range(batch[t])
        /\ batch'[t] = << >>
        /\ \A c \in Consumers : c # t => batch'[c] = batch[c] /\ pc'[c] = pc[c]
        /\ UNCHANGED <<queue_, pushed, accepted>>
    BY <1>6 DEF PopNotifies
  <2>2. Range(<< >>) = {}
    BY DEF Range
  <2>3. Taken' = UNION {Range(batch[c]) : c \in Consumers \ {t}}
    <3>1. ASSUME NEW x \in Taken'
          PROVE  x \in UNION {Range(batch[c]) : c \in Consumers \ {t}}
      <4>1. PICK c \in Consumers : x \in Range(batch'[c])
        BY DEF Taken
      <4>2. c # t
        BY <2>1, <2>2, <4>1
      <4> QED
        BY <2>1, <4>1, <4>2
    <3>2. ASSUME NEW x \in UNION {Range(batch[c]) : c \in Consumers \ {t}}
          PROVE  x \in Taken'
      <4>1. PICK c \in Consumers \ {t} : x \in Range(batch[c])
        OBVIOUS
      <4>2. x \in Range(batch'[c])
        BY <2>1, <4>1
      <4> QED
        BY <4>2 DEF Taken
    <3> QED
      BY <3>1, <3>2
  <2>4. Taken = Taken' \cup Range(batch[t])
    BY <2>1, <2>3 DEF Taken
  <2>5. Taken' \cap Range(batch[t]) = {}
    BY <2>1, <2>3 DEF Ledger, Apart
  <2>6. Placed'
    BY <2>1, <2>4, <2>5 DEF Ledger, Placed
  <2>7. Newest' /\ Numbered'
    BY <2>1 DEF Ledger, Newest, Numbered
  <2>8. Apart'
    BY <2>1, <2>2 DEF Ledger, Apart
  <2> QED
    BY <2>6, <2>7, <2>8 DEF Ledger
<1>7. ASSUME UNCHANGED <<queue_, pc, batch, pushed, accepted, returned>>
      PROVE  Ledger'
  BY <1>7, LedgerQuiet
<1>8. ASSUME NEW t \in Threads, SpuriousWakeup(t) PROVE Ledger'
  BY <1>7, <1>8 DEF SpuriousWakeup
<1>9. CASE Close \/ CloserStep
  BY <1>7, <1>9 DEF Close, CloserStep, CloseNotifiesConsumers,
                    CloseNotifiesProducers
<1>10. CASE UNCHANGED qvars
  BY <1>7, <1>10 DEF qvars
<1> QED
  BY <1>1, <1>2, <1>3, <1>4, <1>5, <1>6, <1>8, <1>9, <1>10 DEF QNext, ThreadStep

\* At the start nothing has been accepted.
LEMMA LedgerInit == QInit => Ledger
<1> SUFFICES ASSUME QInit PROVE Ledger
  OBVIOUS
<1>1. Range(<< >>) = {} /\ Len(<< >>) = 0
  BY DEF Range
<1>2. \A c \in Consumers : batch[c] = << >>
  BY DEF QInit
<1>3. Taken = {}
  BY <1>1, <1>2 DEF Taken
<1>4. Newest /\ Numbered
  BY <1>1 DEF QInit, Newest, Numbered, Distinct
<1>5. Apart /\ Placed
  BY <1>1, <1>2, <1>3 DEF QInit, Apart, Placed
<1> QED
  BY <1>4, <1>5 DEF Ledger

\* Whatever the threads interleave, an element that push accepted is in exactly
\* one of the queue, the hands of a consumer or what was returned, and the queue
\* is in the order of acceptance (push, pop and popBatch).
THEOREM NothingLostOrDoubledAlways == QSpec => []NothingLostOrDoubled
<1> DEFINE I == QTypeOK /\ BatchBounded /\ Ledger
<1>1. QInit => I
  BY QueueTypeInit, LedgerInit
<1>2. I /\ [QNext]_qvars => I'
  BY QueueTypeStep, LedgerStep
<1>3. I => NothingLostOrDoubled
  <2> SUFFICES ASSUME QTypeOK, Ledger PROVE NothingLostOrDoubled
    OBVIOUS
  <2> DEFINE m == Len(accepted) - Len(queue_) + 1
             tail == SubSeq(accepted, m, Len(accepted))
  <2>1. /\ queue_ \in Seq(Item) /\ Len(queue_) \in Nat
        /\ Len(accepted) \in Nat /\ Len(queue_) <= Len(accepted)
        /\ \A i \in 1 .. Len(accepted) : accepted[i] \in Item
    BY LenProperties, ElementOfSeq DEF QTypeOK, Ledger, Newest
  <2>2. m \in Int /\ \A i \in m .. Len(accepted) : accepted[i] \in Item
    BY <2>1
  <2>3. /\ tail \in Seq(Item)
        /\ Len(tail) = Len(queue_)
        /\ \A i \in 1 .. Len(queue_) : tail[i] = accepted[m + i - 1]
    BY <2>1, <2>2, SubSeqProperties
  <2>4. ASSUME NEW k \in 1 .. Len(queue_) PROVE queue_[k] = tail[k]
    <3>1. m + k - 1 = Len(accepted) - Len(queue_) + k
      BY <2>1
    <3> QED
      BY <2>3, <3>1 DEF Ledger, Newest
  <2> HIDE DEF tail, m
  <2>5. queue_ = tail
    BY <2>1, <2>3, <2>4, SeqEqual
  <2> QED
    BY <2>5 DEF NothingLostOrDoubled, Ledger, Placed, tail, m
<1> QED
  BY <1>1, <1>2, <1>3, PTL DEF QSpec

-----------------------------------------------------------------------------
(* No lost wakeup of a consumer. *)

Notifying == {p \in Producers : pc[p] = "notify"}

Awake == {c \in Consumers \ notEmpty : pc[c] \in {"call", "fill", "late"}}

\* Only a consumer in one of its two waits is on notEmpty_, and none is when
\* close() has notified it.
Waiting == /\ \A c \in notEmpty : pc[c] \in {"call", "fill"}
           /\ closer # "idle" <=> closed_
           /\ closer \in {"notFull", "done"} => notEmpty = {}

\* The strengthening that makes ConsumerNotStranded inductive.  That somebody
\* is about to notify or is awake is not preserved: a thread that is awake may
\* take one element and leave others.  There are as many of them as elements.
EnoughAwake == notEmpty # {} =>
                  \/ closer = "notEmpty"
                  \/ Len(queue_) <= Cardinality(Notifying) + Cardinality(Awake)

\* The two sets are counted by numbers.
LEMMA CountType ==
  ASSUME IsFiniteSet(Threads)
  PROVE  /\ IsFiniteSet(Notifying) /\ Cardinality(Notifying) \in Nat
         /\ IsFiniteSet(Awake) /\ Cardinality(Awake) \in Nat
<1>1. Notifying \subseteq Threads /\ Awake \subseteq Threads
  BY DEF Notifying, Awake, Threads
<1>2. IsFiniteSet(Notifying) /\ IsFiniteSet(Awake)
  BY <1>1, FS_Subset
<1> QED
  BY <1>2, FS_CardinalityType

\* A step that takes no thread out of the two sets and adds no element.
LEMMA EnoughStill ==
  ASSUME IsFiniteSet(Threads), EnoughAwake,
         notEmpty' # {} => notEmpty # {},
         Notifying \subseteq Notifying', Awake \subseteq Awake',
         UNCHANGED <<queue_, closer>>,
         Len(queue_) \in Nat
  PROVE  EnoughAwake'
<1> DEFINE N == Notifying
           A == Awake
<1>1. /\ Cardinality(N) \in Nat /\ Cardinality(A) \in Nat
  BY CountType
<1>2. Notifying' \subseteq Threads /\ Awake' \subseteq Threads
  BY DEF Notifying, Awake, Threads, Consumers
<1>3. /\ IsFiniteSet(Notifying') /\ IsFiniteSet(Awake')
      /\ Cardinality(Notifying') \in Nat /\ Cardinality(Awake') \in Nat
  <2>1. IsFiniteSet(Notifying') /\ IsFiniteSet(Awake')
    BY <1>2, FS_Subset
  <2> QED
    BY <2>1, FS_CardinalityType
<1> HIDE DEF N, A
<1>4. /\ Cardinality(N) <= Cardinality(Notifying')
      /\ Cardinality(A) <= Cardinality(Awake')
  BY <1>3, FS_Subset DEF N, A
<1>5. notEmpty # {} => \/ closer = "notEmpty"
                       \/ Len(queue_) <= Cardinality(N) + Cardinality(A)
  BY DEF EnoughAwake, N, A
<1> QED
  BY <1>1, <1>3, <1>4, <1>5 DEF EnoughAwake

\* One thread leaves the two sets and at least one element the queue.
LEMMA EnoughLess ==
  ASSUME IsFiniteSet(Threads), EnoughAwake, NEW t \in Awake,
         notEmpty' = notEmpty, closer' = closer,
         Notifying' = Notifying, Awake' = Awake \ {t},
         Len(queue_) \in Nat, Len(queue_') \in Nat, Len(queue_') < Len(queue_)
  PROVE  EnoughAwake'
<1>1. /\ Cardinality(Notifying) \in Nat
      /\ IsFiniteSet(Awake) /\ Cardinality(Awake) \in Nat
  BY CountType
<1>2. Cardinality(Awake') = Cardinality(Awake) - 1
  BY <1>1, FS_RemoveElement
<1>3. Cardinality(Notifying') = Cardinality(Notifying)
  OBVIOUS
<1> QED
  BY <1>1, <1>2, <1>3 DEF EnoughAwake

\* Every step keeps it.
LEMMA EnoughStep ==
  ASSUME IsFiniteSet(Threads), QTypeOK, BatchBounded, Waiting, EnoughAwake,
         [QNext]_qvars
  PROVE  Waiting' /\ EnoughAwake'
<1>a. /\ Consumers \subseteq Threads /\ Producers \cap Consumers = {}
      /\ Producers \subseteq Threads
      /\ Batchers \subseteq Consumers /\ Poppers \subseteq Consumers
      /\ pc \in [Threads -> {"call", "notify", "fill", "late", "done"}]
      /\ queue_ \in Seq(Item)
      /\ Len(queue_) \in Nat
      /\ notEmpty \subseteq Consumers /\ notFull \subseteq Producers
      /\ closer \in {"idle", "notEmpty", "notFull", "done"}
      /\ closed_ \in BOOLEAN
  BY ThreadsAssumption, LenProperties DEF Consumers, Threads, QTypeOK
<1>b. Len(queue_') \in Nat
  BY QueueTypeStep, LenProperties DEF QTypeOK
<1>c. /\ IsFiniteSet(Notifying) /\ Cardinality(Notifying) \in Nat
      /\ IsFiniteSet(Awake) /\ Cardinality(Awake) \in Nat
  BY CountType
<1>d. Cardinality(Notifying') \in Nat /\ Cardinality(Awake') \in Nat
  <2>1. Notifying' \subseteq Threads /\ Awake' \subseteq Threads
    BY DEF Notifying, Awake, Threads, Consumers
  <2>2. IsFiniteSet(Notifying') /\ IsFiniteSet(Awake')
    BY <2>1, FS_Subset
  <2> QED
    BY <2>2, FS_CardinalityType
\* An empty queue leaves nothing to show.
<1>e. ASSUME Len(queue_') = 0 PROVE EnoughAwake'
  BY <1>d, <1>e DEF EnoughAwake
<1>f. Len(<< >>) = 0
  BY EmptySeq
<1> USE <1>a
<1>1. ASSUME NEW t \in Threads, Push(t) PROVE Waiting' /\ EnoughAwake'
  <2>1. /\ t \in Producers /\ pc[t] = "call" /\ pc' = [pc EXCEPT ![t] = "notify"]
        /\ <<t, pushed[t]>> \in Item
        /\ queue_' = Append(queue_, <<t, pushed[t]>>)
        /\ notEmpty' = notEmpty /\ closer' = closer /\ closed_' = closed_
    BY <1>1 DEF Push, CanPush, QTypeOK, Item
  <2>2. Len(queue_') = Len(queue_) + 1
    BY <2>1, AppendProperties
  <2>3. Notifying' = Notifying \cup {t} /\ t \notin Notifying
    BY <2>1 DEF Notifying
  <2>4. Awake' = Awake
    BY <2>1 DEF Awake
  <2>5. Cardinality(Notifying') = Cardinality(Notifying) + 1
    BY <1>c, <2>3, FS_AddElement
  <2>6. EnoughAwake'
    BY <1>c, <2>1, <2>2, <2>4, <2>5 DEF EnoughAwake
  <2> QED
    BY <2>1, <2>6 DEF Waiting
<1>2. ASSUME NEW t \in Threads, PushWaits(t) \/ PushEnds(t)
      PROVE  Waiting' /\ EnoughAwake'
  <2>1. /\ \A c \in Consumers : pc'[c] = pc[c]
        /\ \A p \in Producers : pc[p] = "notify" => pc'[p] = "notify"
        /\ UNCHANGED <<notEmpty, closer, closed_, queue_>>
    BY <1>2 DEF PushWaits, PushEnds, CanPush
  <2>2. Notifying \subseteq Notifying' /\ Awake \subseteq Awake'
    BY <2>1 DEF Notifying, Awake
  <2>3. EnoughAwake'
    BY <2>1, <2>2, EnoughStill
  <2> QED
    BY <2>1, <2>3 DEF Waiting
<1>3. ASSUME NEW t \in Threads, PushNotifies(t) PROVE Waiting' /\ EnoughAwake'
  <2>1. /\ t \in Producers /\ pc[t] = "notify" /\ pc' = [pc EXCEPT ![t] = "call"]
        /\ UNCHANGED <<closer, closed_, queue_>>
        /\ NotifyOne(notEmpty)
    BY <1>3 DEF PushNotifies
  <2>2. CASE notEmpty = {} /\ notEmpty' = {}
    BY <2>1, <2>2 DEF Waiting, EnoughAwake
  <2>3. ASSUME NEW c \in notEmpty, notEmpty' = notEmpty \ {c}
        PROVE  Waiting' /\ EnoughAwake'
    <3>1. Notifying' = Notifying \ {t} /\ t \in Notifying
      BY <2>1 DEF Notifying
    <3>2. Awake' = Awake \cup {c} /\ c \notin Awake
      BY <2>1, <2>3 DEF Awake, Waiting
    <3>3. Cardinality(Notifying') = Cardinality(Notifying) - 1
      BY <1>c, <3>1, FS_RemoveElement
    <3>4. Cardinality(Awake') = Cardinality(Awake) + 1
      BY <1>c, <3>2, FS_AddElement
    <3>5. EnoughAwake'
      BY <1>c, <2>1, <2>3, <3>3, <3>4 DEF EnoughAwake
    <3> QED
      BY <2>1, <2>3, <3>5 DEF Waiting
  <2> QED
    BY <2>1, <2>2, <2>3 DEF NotifyOne
<1>4. ASSUME NEW t \in Threads, PopEnds(t) \/ PopWaits(t) \/ BatchEnds(t)
      PROVE  Waiting' /\ EnoughAwake'
  <2>1. EnoughAwake'
    BY <1>4, <1>e, <1>f DEF PopEnds, PopWaits, BatchEnds
  <2>2. Waiting'
    BY <1>4 DEF PopEnds, PopWaits, BatchEnds, Waiting
  <2> QED
    BY <2>1, <2>2
<1>5. ASSUME NEW t \in Threads, Pop(t) PROVE Waiting' /\ EnoughAwake'
  <2>1. /\ t \in Consumers /\ t \notin notEmpty /\ pc[t] = "call"
        /\ pc' = [pc EXCEPT ![t] = "notify"]
        /\ queue_ # << >> /\ queue_' = Tail(queue_)
        /\ UNCHANGED <<closer, closed_, notEmpty>>
    BY <1>5 DEF Pop
  <2>2. Len(queue_') < Len(queue_)
    BY <2>1, HeadTailProperties
  <2>3. Notifying' = Notifying
    BY <2>1 DEF Notifying
  <2>4. t \in Awake /\ Awake' = Awake \ {t}
    BY <2>1 DEF Awake
  <2>5. EnoughAwake'
    BY <1>b, <2>1, <2>2, <2>3, <2>4, EnoughLess
  <2> QED
    BY <2>1, <2>5 DEF Waiting
<1>6. ASSUME NEW t \in Threads, TakeBatch(t) PROVE Waiting' /\ EnoughAwake'
  <2> DEFINE n == TakeCount(t)
  <2>1. /\ n \in 1 .. Len(queue_)
        /\ n < Room(t) => n = Len(queue_)
    BY <1>6, TakeFacts
  <2>2. /\ t \in Consumers /\ t \notin notEmpty /\ pc[t] \in {"call", "fill", "late"}
        /\ queue_' = SubSeq(queue_, n + 1, Len(queue_))
        /\ UNCHANGED <<closer, closed_>>
    BY <1>6 DEF TakeBatch
  <2>3. \/ /\ n < Room(t) /\ ~ closed_
           /\ pc' = [pc EXCEPT ![t] = "fill"] /\ notEmpty' = notEmpty \cup {t}
        \/ pc' = [pc EXCEPT ![t] = "notify"] /\ notEmpty' = notEmpty
    BY <1>6, Zenon DEF TakeBatch
  <2> HIDE DEF n
  <2>4. Len(queue_') = Len(queue_) - n
    <3>1. n \in 0 .. Len(queue_)
      BY <2>1
    <3> QED
      BY <2>2, <3>1, SplitType
  <2>5. CASE /\ n < Room(t) /\ ~ closed_
             /\ pc' = [pc EXCEPT ![t] = "fill"] /\ notEmpty' = notEmpty \cup {t}
    <3>1. Len(queue_') = 0
      BY <2>1, <2>4, <2>5
    <3>2. EnoughAwake'
      BY <1>e, <3>1
    <3>3. Waiting'
      BY <2>2, <2>5 DEF Waiting
    <3> QED
      BY <3>2, <3>3
  <2>6. CASE pc' = [pc EXCEPT ![t] = "notify"] /\ notEmpty' = notEmpty
    <3>1. Len(queue_') < Len(queue_)
      BY <2>1, <2>4
    <3>2. Notifying' = Notifying
      BY <2>2, <2>6 DEF Notifying
    <3>3. t \in Awake /\ Awake' = Awake \ {t}
      BY <2>2, <2>6 DEF Awake
    <3>4. EnoughAwake'
      BY <1>b, <2>2, <2>6, <3>1, <3>2, <3>3, EnoughLess
    <3> QED
      BY <2>2, <2>6, <3>4 DEF Waiting
  <2> QED
    BY <2>3, <2>5, <2>6
<1>7. ASSUME NEW t \in Threads, Deadline(t) \/ PopNotifies(t) \/ SpuriousWakeup(t)
      PROVE  Waiting' /\ EnoughAwake'
  <2>1. /\ notEmpty' \subseteq notEmpty
        /\ UNCHANGED <<closer, closed_, queue_>>
        /\ \A p \in Producers : pc'[p] = pc[p]
        /\ \A c \in notEmpty' : pc'[c] = pc[c]
        /\ \A c \in Consumers : pc[c] \in {"call", "fill", "late"} =>
                                   pc'[c] \in {"call", "fill", "late"}
    BY <1>7 DEF Deadline, PopNotifies, SpuriousWakeup, Waiting
  <2>2. Notifying \subseteq Notifying' /\ Awake \subseteq Awake'
    BY <2>1 DEF Notifying, Awake
  <2>3. EnoughAwake'
    BY <2>1, <2>2, EnoughStill
  <2> QED
    BY <2>1, <2>3 DEF Waiting
<1>8. CASE Close
  BY <1>8 DEF Close, Waiting, EnoughAwake
<1>9. CASE CloserStep
  BY <1>9 DEF CloserStep, CloseNotifiesConsumers, CloseNotifiesProducers,
              NotifyAll, Waiting, EnoughAwake
<1>10. CASE UNCHANGED qvars
  <2>1. Notifying' = Notifying /\ Awake' = Awake
    BY <1>10 DEF qvars, Notifying, Awake
  <2>2. EnoughAwake'
    BY <1>10, <2>1, EnoughStill DEF qvars
  <2> QED
    BY <1>10, <2>2 DEF qvars, Waiting
<1> QED
  BY <1>1, <1>2, <1>3, <1>4, <1>5, <1>6, <1>7, <1>8, <1>9, <1>10
     DEF QNext, ThreadStep

\* push notifies one consumer and after it has unlocked, popBatch may take any
\* number of elements or come back late, a wakeup may have no cause: still no
\* consumer sleeps on an element that nobody will take (any finite number of
\* threads, pop and popBatch mixed).
THEOREM NoConsumerStranded ==
  ASSUME IsFiniteSet(Threads)
  PROVE  QSpec => []ConsumerNotStranded
<1> DEFINE I == QTypeOK /\ BatchBounded /\ Waiting /\ EnoughAwake
<1>1. QInit => I
  <2>1. QInit => Waiting /\ EnoughAwake
    BY DEF QInit, Waiting, EnoughAwake
  <2> QED
    BY <2>1, QueueTypeInit
<1>2. I /\ [QNext]_qvars => I'
  BY QueueTypeStep, EnoughStep
<1>3. I => ConsumerNotStranded
  <2> SUFFICES ASSUME QTypeOK, EnoughAwake, notEmpty # {}, queue_ # << >>,
                      closer # "notEmpty"
               PROVE  Notifying # {} \/ Awake # {}
    BY DEF ConsumerNotStranded, Notifying, Awake
  <2>1. Len(queue_) \in Nat \ {0}
    BY EmptySeq DEF QTypeOK
  <2>2. Len(queue_) <= Cardinality(Notifying) + Cardinality(Awake)
    BY DEF EnoughAwake
  <2>3. Cardinality(Notifying) \in Nat /\ Cardinality(Awake) \in Nat
    BY CountType
  <2>4. Cardinality(Notifying) # 0 \/ Cardinality(Awake) # 0
    BY <2>1, <2>2, <2>3
  <2> QED
    BY <2>4, FS_EmptySet
<1> QED
  BY <1>1, <1>2, <1>3, PTL DEF QSpec

-----------------------------------------------------------------------------
(* No lost wakeup of a producer when some threads call pop. *)

Popped == {c \in Poppers : pc[c] = "notify"}

Hungry == {p \in Producers \ notFull : pc[p] = "call" /\ pushed[p] < MaxPush}

Asleep == /\ \A p \in notFull : pc[p] = "call" /\ pushed[p] < MaxPush
          /\ CloserDone

\* The strengthening that makes ProducerNotStranded inductive when pop is used:
\* unless a popBatch is under way, which will notify all, there are as many
\* pops about to notify and producers awake as there are free places.
EnoughRoom == notFull # {} =>
                 \/ closer \in {"notEmpty", "notFull"}
                 \/ \E c \in Batchers : pc[c] \in {"fill", "late", "notify"}
                 \/ Capacity - Len(queue_) <= Cardinality(Popped)
                                              + Cardinality(Hungry)

\* Every step keeps it.
LEMMA EnoughRoomStep ==
  ASSUME IsFiniteSet(Threads), QTypeOK, BatchBounded, Asleep, EnoughRoom,
         [QNext]_qvars
  PROVE  Asleep' /\ EnoughRoom'
<1>a. /\ Consumers \subseteq Threads /\ Producers \cap Consumers = {}
      /\ Producers \subseteq Threads
      /\ Consumers = Batchers \cup Poppers /\ Batchers \cap Poppers = {}
      /\ pc \in [Threads -> {"call", "notify", "fill", "late", "done"}]
      /\ pushed \in [Producers -> Nat]
      /\ queue_ \in Seq(Item)
      /\ Len(queue_) \in Nat
      /\ notEmpty \subseteq Consumers /\ notFull \subseteq Producers
      /\ closer \in {"idle", "notEmpty", "notFull", "done"}
      /\ closed_ \in BOOLEAN
      /\ Capacity \in Nat
  BY ThreadsAssumption, CapacityAssumption, LenProperties
     DEF Consumers, Threads, QTypeOK
<1>b. Len(queue_') \in Nat
  BY QueueTypeStep, LenProperties DEF QTypeOK
<1>c. /\ IsFiniteSet(Popped) /\ Cardinality(Popped) \in Nat
      /\ IsFiniteSet(Hungry) /\ Cardinality(Hungry) \in Nat
  <2>1. Popped \subseteq Threads /\ Hungry \subseteq Threads
    BY DEF Popped, Hungry, Threads, Consumers
  <2>2. IsFiniteSet(Popped) /\ IsFiniteSet(Hungry)
    BY <2>1, FS_Subset
  <2> QED
    BY <2>2, FS_CardinalityType
<1>d. /\ IsFiniteSet(Popped') /\ Cardinality(Popped') \in Nat
      /\ IsFiniteSet(Hungry') /\ Cardinality(Hungry') \in Nat
  <2>1. Popped' \subseteq Threads /\ Hungry' \subseteq Threads
    BY DEF Popped, Hungry, Threads, Consumers
  <2>2. IsFiniteSet(Popped') /\ IsFiniteSet(Hungry')
    BY <2>1, FS_Subset
  <2> QED
    BY <2>2, FS_CardinalityType
<1> USE <1>a
\* A step that frees no place and takes no thread out of the two sets.
<1>e. ASSUME notFull' # {} => notFull # {},
             Popped \subseteq Popped', Hungry \subseteq Hungry',
             \A c \in Batchers : pc[c] \in {"fill", "late", "notify"} =>
                                    pc'[c] \in {"fill", "late", "notify"},
             UNCHANGED <<queue_, closer>>
      PROVE  EnoughRoom'
  <2>1. /\ Cardinality(Popped) <= Cardinality(Popped')
        /\ Cardinality(Hungry) <= Cardinality(Hungry')
    BY <1>d, <1>e, FS_Subset
  <2> QED
    BY <1>c, <1>d, <1>e, <2>1 DEF EnoughRoom
<1>1. ASSUME NEW t \in Threads, Push(t) PROVE Asleep' /\ EnoughRoom'
  <2>1. /\ t \in Producers /\ t \notin notFull /\ pc[t] = "call"
        /\ pushed[t] < MaxPush
        /\ pc' = [pc EXCEPT ![t] = "notify"]
        /\ pushed' = [pushed EXCEPT ![t] = @ + 1]
        /\ <<t, pushed[t]>> \in Item
        /\ queue_' = Append(queue_, <<t, pushed[t]>>)
        /\ UNCHANGED <<notFull, closer, closed_>>
    BY <1>1 DEF Push, CanPush, QTypeOK, Item
  <2>2. Len(queue_') = Len(queue_) + 1
    BY <2>1, AppendProperties
  <2>3. t \in Hungry /\ Hungry' = Hungry \ {t}
    BY <2>1 DEF Hungry
  <2>4. Popped' = Popped
    BY <2>1 DEF Popped
  <2>5. Cardinality(Hungry') = Cardinality(Hungry) - 1
    BY <1>c, <2>3, FS_RemoveElement
  <2>6. \A c \in Batchers : pc'[c] = pc[c]
    BY <2>1
  <2>7. EnoughRoom'
    BY <1>c, <2>1, <2>2, <2>4, <2>5, <2>6 DEF EnoughRoom
  <2>8. Asleep'
    BY <2>1 DEF Asleep, CloserDone
  <2> QED
    BY <2>7, <2>8
<1>2. ASSUME NEW t \in Threads, PushWaits(t) PROVE Asleep' /\ EnoughRoom'
  <2>1. EnoughRoom'
    BY <1>2, <1>d DEF PushWaits, EnoughRoom
  <2> QED
    BY <1>2, <2>1 DEF PushWaits, CanPush, Asleep, CloserDone
<1>3. ASSUME NEW t \in Threads, PushEnds(t) PROVE Asleep' /\ EnoughRoom'
  <2>1. /\ t \in Producers /\ t \notin notFull /\ pc[t] = "call"
        /\ closed_ \/ pushed[t] = MaxPush
        /\ pc' = [pc EXCEPT ![t] = "done"]
        /\ UNCHANGED <<queue_, notFull, closer, closed_, pushed>>
    BY <1>3 DEF PushEnds, CanPush
  <2>2. Asleep'
    BY <2>1 DEF Asleep, CloserDone
  <2>3. CASE closed_
    BY <2>1, <2>3 DEF EnoughRoom, Asleep, CloserDone
  <2>4. CASE pushed[t] = MaxPush
    <3>1. /\ Popped \subseteq Popped' /\ Hungry \subseteq Hungry'
          /\ \A c \in Batchers : pc'[c] = pc[c]
      BY <2>1, <2>4, MaxPushAssumption DEF Popped, Hungry
    <3> QED
      BY <1>e, <2>1, <2>2, <3>1
  <2> QED
    BY <2>1, <2>2, <2>3, <2>4
<1>4. ASSUME NEW t \in Threads, PushNotifies(t) PROVE Asleep' /\ EnoughRoom'
  <2>1. /\ t \in Producers /\ pc[t] = "notify"
        /\ pc' = [pc EXCEPT ![t] = "call"]
        /\ UNCHANGED <<queue_, notFull, closer, closed_, pushed>>
    BY <1>4 DEF PushNotifies
  <2>2. /\ Popped \subseteq Popped' /\ Hungry \subseteq Hungry'
        /\ \A c \in Batchers : pc'[c] = pc[c]
    BY <2>1 DEF Popped, Hungry
  <2>3. EnoughRoom'
    BY <1>e, <2>1, <2>2
  <2> QED
    BY <2>1, <2>3 DEF Asleep, CloserDone
<1>5. ASSUME NEW t \in Threads, PopEnds(t) \/ PopWaits(t) \/ Deadline(t)
      PROVE  Asleep' /\ EnoughRoom'
  <2>1. /\ UNCHANGED <<queue_, notFull, closer, closed_, pushed>>
        /\ \A p \in Producers : pc'[p] = pc[p]
        /\ \A c \in Consumers : pc[c] = "notify" => pc'[c] = "notify"
        /\ \A c \in Batchers : pc[c] \in {"fill", "late", "notify"} =>
                                  pc'[c] \in {"fill", "late", "notify"}
    BY <1>5 DEF PopEnds, PopWaits, Deadline
  <2>2. Popped \subseteq Popped' /\ Hungry \subseteq Hungry'
    BY <2>1 DEF Popped, Hungry
  <2>3. EnoughRoom'
    BY <1>e, <2>1, <2>2
  <2> QED
    BY <2>1, <2>3 DEF Asleep, CloserDone
<1>6. ASSUME NEW t \in Threads, Pop(t) PROVE Asleep' /\ EnoughRoom'
  <2>1. /\ t \in Poppers /\ pc[t] = "call"
        /\ pc' = [pc EXCEPT ![t] = "notify"]
        /\ queue_ # << >> /\ queue_' = Tail(queue_)
        /\ UNCHANGED <<closer, closed_, notFull, pushed>>
    BY <1>6 DEF Pop
  <2>2. Len(queue_') = Len(queue_) - 1
    BY <2>1, HeadTailProperties
  <2>3. Popped' = Popped \cup {t} /\ t \notin Popped
    BY <2>1 DEF Popped
  <2>4. Hungry' = Hungry
    BY <2>1 DEF Hungry
  <2>5. Cardinality(Popped') = Cardinality(Popped) + 1
    BY <1>c, <2>3, FS_AddElement
  <2>6. \A c \in Batchers : pc'[c] = pc[c]
    BY <2>1
  <2>7. EnoughRoom'
    BY <1>c, <2>1, <2>2, <2>4, <2>5, <2>6 DEF EnoughRoom
  <2> QED
    BY <2>1, <2>7 DEF Asleep, CloserDone
<1>7. ASSUME NEW t \in Threads, TakeBatch(t) \/ BatchEnds(t)
      PROVE  Asleep' /\ EnoughRoom'
  <2>1. /\ t \in Batchers
        /\ UNCHANGED <<closer, closed_, notFull, pushed>>
    BY <1>7 DEF TakeBatch, BatchEnds
  <2>2. pc' = [pc EXCEPT ![t] = "fill"] \/ pc' = [pc EXCEPT ![t] = "notify"]
    BY <1>7, Zenon DEF TakeBatch, BatchEnds
  <2>3. pc'[t] \in {"fill", "late", "notify"} /\ \A p \in Producers : pc'[p] = pc[p]
    BY <2>1, <2>2
  <2> QED
    BY <2>1, <2>3 DEF Asleep, CloserDone, EnoughRoom
<1>8. ASSUME NEW t \in Threads, PopNotifies(t) PROVE Asleep' /\ EnoughRoom'
  <2>1. /\ t \in Consumers /\ pc[t] = "notify"
        /\ pc' = [pc EXCEPT ![t] = "call"]
        /\ UNCHANGED <<queue_, closer, closed_, pushed>>
        /\ t \in Poppers => NotifyOne(notFull)
        /\ t \notin Poppers => NotifyAll(notFull)
    BY <1>8 DEF PopNotifies
  <2>2. CASE notFull' = {}
    BY <2>1, <2>2 DEF Asleep, CloserDone, EnoughRoom
  <2>3. ASSUME t \in Poppers, NEW p \in notFull, notFull' = notFull \ {p}
        PROVE  Asleep' /\ EnoughRoom'
    <3>1. t \in Popped /\ Popped' = Popped \ {t}
      BY <2>1, <2>3 DEF Popped
    <3>2. p \notin Hungry /\ Hungry' = Hungry \cup {p}
      BY <2>1, <2>3 DEF Hungry, Asleep
    <3>3. Cardinality(Popped') = Cardinality(Popped) - 1
      BY <1>c, <3>1, FS_RemoveElement
    <3>4. Cardinality(Hungry') = Cardinality(Hungry) + 1
      BY <1>c, <3>2, FS_AddElement
    <3>5. \A c \in Batchers : pc'[c] = pc[c]
      BY <2>1, <2>3
    <3>6. EnoughRoom'
      BY <1>c, <2>1, <2>3, <3>3, <3>4, <3>5 DEF EnoughRoom
    <3> QED
      BY <2>1, <2>3, <3>6 DEF Asleep, CloserDone
  <2> QED
    BY <2>1, <2>2, <2>3 DEF NotifyOne, NotifyAll
<1>9. ASSUME NEW t \in Threads, SpuriousWakeup(t) PROVE Asleep' /\ EnoughRoom'
  <2>1. /\ notFull' \subseteq notFull
        /\ UNCHANGED <<queue_, closer, closed_, pc, pushed>>
    BY <1>9 DEF SpuriousWakeup
  <2>2. Popped \subseteq Popped' /\ Hungry \subseteq Hungry'
    BY <2>1 DEF Popped, Hungry
  <2>3. EnoughRoom'
    BY <1>e, <2>1, <2>2
  <2> QED
    BY <2>1, <2>3 DEF Asleep, CloserDone
<1>10. CASE Close \/ CloserStep
  BY <1>10 DEF Close, CloserStep, CloseNotifiesConsumers,
               CloseNotifiesProducers, NotifyAll, Asleep, CloserDone, EnoughRoom
<1>11. CASE UNCHANGED qvars
  <2>1. Popped' = Popped /\ Hungry' = Hungry
    BY <1>11 DEF qvars, Popped, Hungry
  <2>2. EnoughRoom'
    BY <1>e, <1>11, <2>1 DEF qvars
  <2> QED
    BY <1>11, <2>2 DEF qvars, Asleep, CloserDone
<1> QED
  BY <1>1, <1>2, <1>3, <1>4, <1>5, <1>6, <1>7, <1>8, <1>9, <1>10, <1>11
     DEF QNext, ThreadStep

\* pop wakes one producer and popBatch all, at its end: also when both are
\* used, and for batches of any size, no producer sleeps beside a free place
\* that nobody awake will fill or announce.
THEOREM NoProducerStrandedByPop ==
  ASSUME IsFiniteSet(Threads), Poppers # {}
  PROVE  QSpec => []ProducerNotStranded
<1> DEFINE I == QTypeOK /\ BatchBounded /\ Asleep /\ EnoughRoom
<1>1. QInit => I
  <2>1. QInit => Asleep /\ EnoughRoom
    BY DEF QInit, Asleep, CloserDone, EnoughRoom
  <2> QED
    BY <2>1, QueueTypeInit
<1>2. I /\ [QNext]_qvars => I'
  BY QueueTypeStep, EnoughRoomStep
<1>3. I => ProducerNotStranded
  <2> SUFFICES ASSUME QTypeOK, EnoughRoom, notFull # {}
               PROVE  ProducerNotStranded
    BY DEF ProducerNotStranded
  <2>1. CASE closer \in {"notEmpty", "notFull"}
    BY <2>1 DEF ProducerNotStranded
  <2>2. CASE \E c \in Batchers : pc[c] \in {"fill", "late", "notify"}
    BY <2>2 DEF ProducerNotStranded, Consumers
  <2>3. CASE Capacity - Len(queue_) <= Cardinality(Popped) + Cardinality(Hungry)
    <3>1. Len(queue_) \in Nat /\ Capacity \in Nat
      BY CapacityAssumption, LenProperties DEF QTypeOK
    <3>2. Popped = {} /\ Hungry = {} => Len(queue_) >= Capacity
      BY <2>3, <3>1, FS_EmptySet
    <3>3. \A c \in Popped : c \in Consumers /\ pc[c] = "notify"
      BY DEF Popped, Consumers
    <3>4. \A p \in Hungry : p \in Producers \ notFull /\ pc[p] # "done"
      BY DEF Hungry
    <3> QED
      BY <3>2, <3>3, <3>4 DEF ProducerNotStranded
  <2> QED
    BY <2>1, <2>2, <2>3 DEF EnoughRoom
<1> QED
  BY <1>1, <1>2, <1>3, PTL DEF QSpec

=============================================================================
