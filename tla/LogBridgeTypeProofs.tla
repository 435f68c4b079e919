------------------------ MODULE LogBridgeTypeProofs ------------------------
(***************************************************************************)
(* Type correctness of LogBridge, for every number of lines, width of IDs, *)
(* batch size, queue capacity, backlog and budget of faults.  That a local *)
(* variable is used only where it has a value (a batch while it is being   *)
(* delivered, a connection while it is served) is part of the argument, so *)
(* types and control points are proved together.                           *)
(***************************************************************************)
EXTENDS LogBridgeInv, SequenceTheorems, WellFoundedInduction, TLAPS

-----------------------------------------------------------------------------
(* Facts about sequences, and about sequences of messages with increasing  *)
(* IDs, that this and the next two modules rest on.                        *)

\* Cutting a sequence in two: types and lengths of the parts.
LEMMA SplitType ==
  ASSUME NEW S, NEW s \in Seq(S), NEW n \in 0 .. Len(s)
  PROVE  /\ SubSeq(s, 1, n) \in Seq(S)
         /\ Len(SubSeq(s, 1, n)) = n
         /\ \A i \in 1 .. n : SubSeq(s, 1, n)[i] = s[i]
         /\ SubSeq(s, n + 1, Len(s)) \in Seq(S)
         /\ Len(SubSeq(s, n + 1, Len(s))) = Len(s) - n
         /\ \A i \in 1 .. Len(s) - n : SubSeq(s, n + 1, Len(s))[i] = s[n + i]
<1>1. \A i \in 1 .. Len(s) : s[i] \in S
  BY ElementOfSeq
<1>2. Len(s) \in Nat
  BY LenProperties
<1>3. /\ SubSeq(s, 1, n) \in Seq(S)
      /\ Len(SubSeq(s, 1, n)) = n
      /\ \A i \in 1 .. n : SubSeq(s, 1, n)[i] = s[i]
  <2>1. \A i \in 1 .. n : s[i] \in S
    BY <1>1, <1>2
  <2>2. /\ SubSeq(s, 1, n) \in Seq(S)
        /\ Len(SubSeq(s, 1, n)) = IF 1 <= n THEN n - 1 + 1 ELSE 0
        /\ \A i \in 1 .. n - 1 + 1 : SubSeq(s, 1, n)[i] = s[1 + i - 1]
    BY <1>2, <2>1, SubSeqProperties
  <2> QED
    BY <1>2, <2>2
<1>4. /\ SubSeq(s, n + 1, Len(s)) \in Seq(S)
      /\ Len(SubSeq(s, n + 1, Len(s))) = Len(s) - n
      /\ \A i \in 1 .. Len(s) - n : SubSeq(s, n + 1, Len(s))[i] = s[n + i]
  <2>1. \A i \in n + 1 .. Len(s) : s[i] \in S
    BY <1>1, <1>2
  <2>2. /\ SubSeq(s, n + 1, Len(s)) \in Seq(S)
        /\ Len(SubSeq(s, n + 1, Len(s))) =
             IF n + 1 <= Len(s) THEN Len(s) - (n + 1) + 1 ELSE 0
        /\ \A i \in 1 .. Len(s) - (n + 1) + 1 :
             SubSeq(s, n + 1, Len(s))[i] = s[n + 1 + i - 1]
    BY <1>2, <2>1, SubSeqProperties
  <2> QED
    BY <1>2, <2>2
<1> QED
  BY <1>3, <1>4

\* A sequence's elements, by index.
LEMMA RangeIsElements ==
  ASSUME NEW S, NEW s \in Seq(S)
  PROVE  /\ Len(s) \in Nat
         /\ DOMAIN s = 1 .. Len(s)
         /\ Range(s) = {s[i] : i \in 1 .. Len(s)}
         /\ Range(s) \subseteq S
         /\ s = << >> <=> Len(s) = 0
         /\ s = << >> <=> Range(s) = {}
<1>1. Len(s) \in Nat /\ DOMAIN s = 1 .. Len(s)
  BY LenProperties
<1>2. Range(s) = {s[i] : i \in 1 .. Len(s)}
  BY <1>1 DEF Range
<1>3. Range(s) \subseteq S
  BY <1>2, ElementOfSeq
<1>4. s = << >> <=> Len(s) = 0
  BY <1>1, EmptySeq
<1>5. s = << >> <=> Range(s) = {}
  BY <1>1, <1>2, <1>4
<1> QED
  BY <1>1, <1>2, <1>3, <1>4, <1>5

\* The elements of an extended sequence.
LEMMA RangeAppend ==
  ASSUME NEW S, NEW s \in Seq(S), NEW x \in S
  PROVE  /\ Append(s, x) \in Seq(S)
         /\ Range(Append(s, x)) = Range(s) \cup {x}
<1> DEFINE t == Append(s, x)
<1>1. /\ t \in Seq(S)
      /\ Len(t) = Len(s) + 1
      /\ \A i \in 1 .. Len(s) : t[i] = s[i]
      /\ t[Len(s) + 1] = x
  BY AppendProperties
<1>2. Range(s) = {s[i] : i \in 1 .. Len(s)} /\ Len(s) \in Nat
  BY RangeIsElements
<1> HIDE DEF t
<1>3. Range(t) = {t[i] : i \in 1 .. Len(s) + 1}
  BY <1>1, RangeIsElements
<1>4. Range(t) = Range(s) \cup {x}
  <2>1. ASSUME NEW i \in 1 .. Len(s) + 1 PROVE t[i] \in Range(s) \cup {x}
    <3>1. i \in 1 .. Len(s) \/ i = Len(s) + 1
      BY <1>2
    <3> QED
      BY <1>1, <1>2, <3>1
  <2>2. \A i \in 1 .. Len(s) : i \in 1 .. Len(s) + 1
    BY <1>2
  <2>3. Len(s) + 1 \in 1 .. Len(s) + 1
    BY <1>2
  <2> QED
    BY <1>1, <1>2, <1>3, <2>1, <2>2, <2>3
<1> QED
  BY <1>1, <1>4 DEF t

\* The elements of the two parts of a sequence.
LEMMA RangeSplit ==
  ASSUME NEW S, NEW s \in Seq(S), NEW n \in 0 .. Len(s)
  PROVE  Range(s) = Range(SubSeq(s, 1, n)) \cup Range(SubSeq(s, n + 1, Len(s)))
<1> DEFINE a == SubSeq(s, 1, n)
           b == SubSeq(s, n + 1, Len(s))
<1>1. /\ a \in Seq(S) /\ Len(a) = n /\ \A i \in 1 .. n : a[i] = s[i]
      /\ b \in Seq(S) /\ Len(b) = Len(s) - n
      /\ \A i \in 1 .. Len(s) - n : b[i] = s[n + i]
  BY SplitType
<1> HIDE DEF a, b
<1>a. Range(s) = {s[i] : i \in 1 .. Len(s)} /\ Len(s) \in Nat
  BY RangeIsElements
<1>b. Range(a) = {a[i] : i \in 1 .. n}
  BY <1>1, RangeIsElements
<1>c. Range(b) = {b[i] : i \in 1 .. Len(s) - n}
  BY <1>1, RangeIsElements
<1>2. /\ Range(s) = {s[i] : i \in 1 .. Len(s)} /\ Len(s) \in Nat
      /\ Range(a) = {a[i] : i \in 1 .. n}
      /\ Range(b) = {b[i] : i \in 1 .. Len(s) - n}
  BY <1>a, <1>b, <1>c
<1>3. ASSUME NEW m \in Range(s) PROVE m \in Range(a) \cup Range(b)
  <2>1. PICK i \in 1 .. Len(s) : m = s[i]
    BY <1>2
  <2>2. CASE i <= n
    BY <1>1, <1>2, <2>1, <2>2
  <2>3. CASE i > n
    <3>1. i - n \in 1 .. Len(s) - n /\ n + (i - n) = i
      BY <1>2, <2>3
    <3>2. b[i - n] = m
      BY <1>1, <2>1, <3>1
    <3> QED
      BY <1>2, <3>1, <3>2
  <2> QED
    BY <1>2, <2>2, <2>3
<1>4. Range(a) \subseteq Range(s)
  BY <1>1, <1>2
<1>5. Range(b) \subseteq Range(s)
  <2>1. \A i \in 1 .. Len(s) - n : n + i \in 1 .. Len(s)
    BY <1>2
  <2> QED
    BY <1>1, <1>2, <2>1
<1> QED
  BY <1>3, <1>4, <1>5 DEF a, b

-----------------------------------------------------------------------------
\* remove_if finds where the confirmed messages end.
LEMMA ConfirmedCount ==
  ASSUME NEW s \in Seq(Message), NEW id \in Int
  PROVE  LET n == Confirmed(s, id) IN
         /\ n \in 0 .. Len(s)
         /\ \A i \in 1 .. n : s[i].id <= id
         /\ n < Len(s) => s[n + 1].id > id
<1> DEFINE P(n) == /\ \A i \in 1 .. n : s[i].id <= id
                   /\ n < Len(s) => s[n + 1].id > id
           T == {n \in Nat : n <= Len(s) /\ (n < Len(s) => s[n + 1].id > id)}
<1>1. Len(s) \in Nat /\ \A i \in 1 .. Len(s) : s[i] \in Message
  BY RangeIsElements, ElementOfSeq
<1>2. T \subseteq Nat /\ T # {}
  <2>1. Len(s) \in T
    BY <1>1
  <2> QED
    BY <2>1
<1>3. \E x \in T : \A y \in T : ~ (<<y, x>> \in OpToRel(<, Nat))
  BY <1>2, NatLessThanWellFounded, WFMin
<1>4. PICK x \in T : \A y \in T : ~ (y < x)
  BY <1>2, <1>3 DEF OpToRel
<1>5. \A i \in 1 .. x : s[i].id <= id
  <2> SUFFICES ASSUME NEW i \in 1 .. x PROVE s[i].id <= id
    OBVIOUS
  <2>1. i - 1 \in Nat /\ i - 1 < x /\ i - 1 < Len(s) /\ (i - 1) + 1 = i /\ i \in 1 .. Len(s)
    BY <1>1
  <2>2. i - 1 \notin T
    BY <1>4, <2>1
  <2>3. ~ (s[i].id > id)
    BY <2>1, <2>2
  <2>4. s[i].id \in Int
    BY <1>1, <2>1, BoundAssumption DEF Message, MessageId
  <2> QED
    BY <2>3, <2>4
<1>6. x \in 0 .. Len(s) /\ P(x)
  BY <1>1, <1>4, <1>5
<1> QED
  BY <1>6 DEF Confirmed

\* What confirm keeps: the messages above the confirmed ID, in order.
LEMMA UnconfirmedFacts ==
  ASSUME NEW s \in Seq(Message), Increasing(s), NEW id \in Int
  PROVE  LET kept == Unconfirmed(s, id) IN
         /\ kept \in Seq(Message)
         /\ Increasing(kept)
         /\ Range(kept) = {m \in Range(s) : m.id > id}
         /\ kept # << >> => LastId(kept) = LastId(s)
<1> DEFINE n == Confirmed(s, id)
           kept == SubSeq(s, n + 1, Len(s))
<1>1. /\ n \in 0 .. Len(s)
      /\ \A i \in 1 .. n : s[i].id <= id
      /\ n < Len(s) => s[n + 1].id > id
  BY ConfirmedCount
<1> HIDE DEF n
<1>a. Len(s) \in Nat /\ Range(s) = {s[i] : i \in 1 .. Len(s)}
  BY RangeIsElements
<1>b. \A i \in 1 .. Len(s) : s[i] \in Message
  BY ElementOfSeq
<1>c. \A m \in Message : m.id \in Int
  BY BoundAssumption DEF Message, MessageId
<1>2. /\ Len(s) \in Nat
      /\ Range(s) = {s[i] : i \in 1 .. Len(s)}
      /\ \A i \in 1 .. Len(s) : s[i] \in Message /\ s[i].id \in Int
  BY <1>a, <1>b, <1>c
<1>3. /\ kept \in Seq(Message)
      /\ Len(kept) = Len(s) - n
      /\ \A i \in 1 .. Len(s) - n : kept[i] = s[n + i]
  BY <1>1, SplitType
<1> HIDE DEF kept
<1>4. Range(kept) = {kept[i] : i \in 1 .. Len(s) - n}
  BY <1>3, RangeIsElements
<1>5. \A i \in 1 .. Len(s) : s[i].id > id <=> i > n
  <2> SUFFICES ASSUME NEW i \in 1 .. Len(s) PROVE s[i].id > id <=> i > n
    OBVIOUS
  <2>1. CASE i <= n
    BY <1>1, <1>2, <2>1
  <2>2. CASE i = n + 1
    BY <1>1, <1>2, <2>2
  <2>3. CASE i > n + 1
    <3>1. n + 1 \in 1 .. Len(s) /\ n + 1 < i /\ n < Len(s)
      BY <1>1, <1>2, <2>3
    <3>2. s[n + 1].id < s[i].id
      BY <3>1 DEF Increasing
    <3> QED
      BY <1>1, <1>2, <2>3, <3>1, <3>2
  <2> QED
    BY <1>1, <1>2, <2>1, <2>2, <2>3
<1>6. Increasing(kept)
  <2> SUFFICES ASSUME NEW i \in 1 .. Len(kept), NEW j \in 1 .. Len(kept), i < j
               PROVE  kept[i].id < kept[j].id
    BY DEF Increasing
  <2>1. n + i \in 1 .. Len(s) /\ n + j \in 1 .. Len(s) /\ n + i < n + j
    BY <1>1, <1>2, <1>3
  <2> QED
    BY <1>3, <2>1 DEF Increasing
<1>7. ASSUME NEW m \in Range(kept) PROVE m \in Range(s) /\ m.id > id
  <2>1. PICK i \in 1 .. Len(s) - n : m = s[n + i]
    BY <1>3, <1>4
  <2>2. n + i \in 1 .. Len(s) /\ n + i > n
    BY <1>1, <1>2
  <2> QED
    BY <1>2, <1>5, <2>1, <2>2
<1>8. ASSUME NEW m \in Range(s), m.id > id PROVE m \in Range(kept)
  <2>1. PICK i \in 1 .. Len(s) : m = s[i]
    BY <1>2
  <2>2. i > n
    BY <1>5, <1>8, <2>1
  <2>3. i - n \in 1 .. Len(s) - n /\ n + (i - n) = i
    BY <1>1, <1>2, <2>2
  <2>4. kept[i - n] = m
    BY <1>3, <2>1, <2>3
  <2> QED
    BY <1>4, <2>3, <2>4
<1>9. kept # << >> => LastId(kept) = LastId(s)
  <2> SUFFICES ASSUME kept # << >> PROVE LastId(kept) = LastId(s)
    OBVIOUS
  <2>1. Len(kept) # 0 /\ Len(kept) \in Nat
    BY <1>3, RangeIsElements
  <2>2. Len(s) - n \in 1 .. Len(s) - n /\ n + (Len(s) - n) = Len(s) /\ Len(s) # 0
    BY <1>1, <1>2, <1>3, <2>1
  <2>3. kept[Len(kept)] = s[Len(s)]
    BY <1>3, <2>2
  <2>4. s # << >>
    BY <2>2, RangeIsElements
  <2> QED
    BY <2>3, <2>4 DEF LastId
<1> QED
  BY <1>3, <1>6, <1>7, <1>8, <1>9 DEF Unconfirmed, kept, n

\* The last message has the highest ID; 0 stands for no message.
LEMMA LastIdIsMax ==
  ASSUME NEW s \in Seq(Message), Increasing(s)
  PROVE  /\ LastId(s) \in 0 .. MaxUint64 - 1
         /\ \A m \in Range(s) : m.id <= LastId(s)
         /\ s # << >> => \E m \in Range(s) : m.id = LastId(s)
<1>a. Len(s) \in Nat /\ Range(s) = {s[i] : i \in 1 .. Len(s)}
  BY RangeIsElements
<1>b. \A i \in 1 .. Len(s) : s[i] \in Message
  BY ElementOfSeq
<1>c. \A m \in Message : m.id \in 1 .. MaxUint64 - 1
  BY DEF Message, MessageId
<1>1. /\ Len(s) \in Nat
      /\ Range(s) = {s[i] : i \in 1 .. Len(s)}
      /\ \A i \in 1 .. Len(s) : s[i].id \in 1 .. MaxUint64 - 1
  BY <1>a, <1>b, <1>c
<1>2. CASE s = << >>
  BY <1>1, <1>2, RangeIsElements, BoundAssumption DEF LastId
<1>3. CASE s # << >>
  <2>1. Len(s) \in 1 .. Len(s)
    BY <1>1, <1>3, RangeIsElements
  <2>2. LastId(s) = s[Len(s)].id
    BY <1>3 DEF LastId
  <2>3. \A i \in 1 .. Len(s) : s[i].id <= s[Len(s)].id
    BY <1>1, <2>1, BoundAssumption DEF Increasing
  <2> QED
    BY <1>1, <2>1, <2>2, <2>3, BoundAssumption
<1> QED
  BY <1>2, <1>3

-----------------------------------------------------------------------------
(* Runs of increasing IDs: extended, cut, joined. *)

\* The fields of a message.
LEMMA MessageFields ==
  ASSUME NEW m \in Message
  PROVE  /\ m.id \in MessageId /\ m.id \in Int /\ m.id > 0
         /\ m.clientId \in ClientIds
         /\ m.line \in Line
BY BoundAssumption DEF Message, MessageId

\* The index of an element.
LEMMA ElementAt ==
  ASSUME NEW s \in Seq(Message), NEW m \in Range(s)
  PROVE  m \in Message /\ m.id \in MessageId /\ m.id \in Int /\ \E i \in 1 .. Len(s) : m = s[i]
<1>1. m \in Message /\ \E i \in 1 .. Len(s) : m = s[i]
  BY RangeIsElements
<1> QED
  BY <1>1, BoundAssumption DEF Message, MessageId

\* The empty run.
LEMMA EmptyRun == /\ Range(<< >>) = {}
                  /\ Increasing(<< >>)
                  /\ LastId(<< >>) = 0
                  /\ << >> \in Seq(Message)
<1>1. << >> \in Seq(Message) /\ Len(<< >>) = 0
  BY EmptySeq
<1>2. Range(<< >>) = {}
  BY <1>1, RangeIsElements
<1>3. Increasing(<< >>)
  BY <1>1 DEF Increasing
<1> QED
  BY <1>1, <1>2, <1>3 DEF LastId

\* A message above all others may be appended.
LEMMA IncreasingAppend ==
  ASSUME NEW s \in Seq(Message), Increasing(s), NEW m \in Message,
         \A n \in Range(s) : n.id < m.id
  PROVE  /\ Append(s, m) \in Seq(Message)
         /\ Range(Append(s, m)) = Range(s) \cup {m}
         /\ Increasing(Append(s, m))
         /\ LastId(Append(s, m)) = m.id
<1> DEFINE t == Append(s, m)
<1>1. /\ t \in Seq(Message)
      /\ Len(t) = Len(s) + 1
      /\ \A i \in 1 .. Len(s) : t[i] = s[i]
      /\ t[Len(s) + 1] = m
  BY AppendProperties
<1>2. Len(s) \in Nat /\ Range(s) = {s[i] : i \in 1 .. Len(s)}
  BY RangeIsElements
<1>3. Range(t) = Range(s) \cup {m}
  BY RangeAppend
<1> HIDE DEF t
<1>4. Increasing(t)
  <2> SUFFICES ASSUME NEW i \in 1 .. Len(t), NEW j \in 1 .. Len(t), i < j
               PROVE  t[i].id < t[j].id
    BY DEF Increasing
  <2>1. i \in 1 .. Len(s) /\ (j \in 1 .. Len(s) \/ j = Len(s) + 1)
    BY <1>1, <1>2
  <2> QED
    BY <1>1, <1>2, <2>1 DEF Increasing
<1>5. LastId(t) = m.id
  <2>1. t # << >>
    BY <1>1, <1>2, RangeIsElements
  <2> QED
    BY <1>1, <2>1 DEF LastId
<1> QED
  BY <1>1, <1>3, <1>4, <1>5 DEF t

\* Both parts of a run are runs, the second above the first.
LEMMA IncreasingSplit ==
  ASSUME NEW s \in Seq(Message), Increasing(s), NEW n \in 0 .. Len(s)
  PROVE  LET a == SubSeq(s, 1, n)
             b == SubSeq(s, n + 1, Len(s))
         IN  /\ a \in Seq(Message) /\ b \in Seq(Message)
             /\ Increasing(a) /\ Increasing(b)
             /\ Range(s) = Range(a) \cup Range(b)
             /\ \A x \in Range(a), y \in Range(b) : x.id < y.id
<1> DEFINE a == SubSeq(s, 1, n)
           b == SubSeq(s, n + 1, Len(s))
<1>1. /\ a \in Seq(Message) /\ Len(a) = n /\ \A i \in 1 .. n : a[i] = s[i]
      /\ b \in Seq(Message) /\ Len(b) = Len(s) - n
      /\ \A i \in 1 .. Len(s) - n : b[i] = s[n + i]
  BY SplitType
<1>2. Range(s) = Range(a) \cup Range(b)
  BY RangeSplit
<1> HIDE DEF a, b
<1>3. Len(s) \in Nat
  BY LenProperties
<1>4. Increasing(a)
  <2> SUFFICES ASSUME NEW i \in 1 .. Len(a), NEW j \in 1 .. Len(a), i < j
               PROVE  a[i].id < a[j].id
    BY DEF Increasing
  <2>1. i \in 1 .. n /\ j \in 1 .. n /\ i \in 1 .. Len(s) /\ j \in 1 .. Len(s)
    BY <1>1, <1>3
  <2> QED
    BY <1>1, <2>1 DEF Increasing
<1>5. Increasing(b)
  <2> SUFFICES ASSUME NEW i \in 1 .. Len(b), NEW j \in 1 .. Len(b), i < j
               PROVE  b[i].id < b[j].id
    BY DEF Increasing
  <2>1. n + i \in 1 .. Len(s) /\ n + j \in 1 .. Len(s) /\ n + i < n + j
    BY <1>1, <1>3
  <2> QED
    BY <1>1, <2>1 DEF Increasing
<1>6. ASSUME NEW x \in Range(a), NEW y \in Range(b) PROVE x.id < y.id
  <2>1. PICK i \in 1 .. Len(a) : x = a[i]
    BY <1>1, RangeIsElements
  <2>2. PICK j \in 1 .. Len(b) : y = b[j]
    BY <1>1, RangeIsElements
  <2>3. i \in 1 .. Len(s) /\ n + j \in 1 .. Len(s) /\ i < n + j
    BY <1>1, <1>3
  <2> QED
    BY <1>1, <2>1, <2>2, <2>3 DEF Increasing
<1> QED
  BY <1>1, <1>2, <1>4, <1>5, <1>6 DEF a, b

\* The same for the first message and the rest.
LEMMA IncreasingTail ==
  ASSUME NEW s \in Seq(Message), Increasing(s), s # << >>
  PROVE  /\ Head(s) \in Message
         /\ Tail(s) \in Seq(Message)
         /\ Increasing(Tail(s))
         /\ Range(s) = {Head(s)} \cup Range(Tail(s))
         /\ \A y \in Range(Tail(s)) : Head(s).id < y.id
<1> DEFINE t == Tail(s)
<1>1. /\ Head(s) \in Message /\ Head(s) = s[1]
      /\ t \in Seq(Message) /\ Len(t) = Len(s) - 1
      /\ \A i \in 1 .. Len(t) : t[i] = s[i + 1]
  BY HeadTailProperties
<1>2. Len(s) \in Nat \ {0} /\ Range(s) = {s[i] : i \in 1 .. Len(s)}
  BY RangeIsElements
<1> HIDE DEF t
<1>3. Range(t) = {t[i] : i \in 1 .. Len(t)}
  BY <1>1, RangeIsElements
<1>4. Increasing(t)
  <2> SUFFICES ASSUME NEW i \in 1 .. Len(t), NEW j \in 1 .. Len(t), i < j
               PROVE  t[i].id < t[j].id
    BY DEF Increasing
  <2>1. i + 1 \in 1 .. Len(s) /\ j + 1 \in 1 .. Len(s) /\ i + 1 < j + 1
    BY <1>1, <1>2
  <2> QED
    BY <1>1, <2>1 DEF Increasing
<1>5. ASSUME NEW m \in Range(s) PROVE m \in {Head(s)} \cup Range(t)
  <2>1. PICK i \in 1 .. Len(s) : m = s[i]
    BY <1>2
  <2>2. CASE i = 1
    BY <1>1, <2>1, <2>2
  <2>3. CASE i # 1
    <3>1. i - 1 \in 1 .. Len(t) /\ (i - 1) + 1 = i
      BY <1>1, <1>2, <2>3
    <3>2. t[i - 1] = m
      BY <1>1, <2>1, <3>1
    <3> QED
      BY <1>3, <3>1, <3>2
  <2> QED
    BY <2>2, <2>3
<1>6. ASSUME NEW y \in Range(t) PROVE y \in Range(s) /\ Head(s).id < y.id
  <2>1. PICK i \in 1 .. Len(t) : y = s[i + 1]
    BY <1>1, <1>3
  <2>2. i + 1 \in 1 .. Len(s) /\ 1 \in 1 .. Len(s) /\ 1 < i + 1
    BY <1>1, <1>2
  <2> QED
    BY <1>1, <1>2, <2>1, <2>2 DEF Increasing
<1>7. Head(s) \in Range(s)
  BY <1>1, <1>2
<1>8. Range(s) = {Head(s)} \cup Range(t)
  BY <1>5, <1>6, <1>7
<1> QED
  BY <1>1, <1>4, <1>6, <1>8 DEF t

\* Two runs, the second above the first, make one.
LEMMA IncreasingConcat ==
  ASSUME NEW s \in Seq(Message), Increasing(s), NEW t \in Seq(Message), Increasing(t),
         \A m \in Range(s), n \in Range(t) : m.id < n.id
  PROVE  /\ s \o t \in Seq(Message)
         /\ Increasing(s \o t)
         /\ Range(s \o t) = Range(s) \cup Range(t)
<1> DEFINE u == s \o t
<1>1. /\ u \in Seq(Message) /\ Len(u) = Len(s) + Len(t)
      /\ \A i \in 1 .. Len(s) : u[i] = s[i]
      /\ \A i \in 1 .. Len(t) : u[Len(s) + i] = t[i]
  <2>1. /\ u \in Seq(Message) /\ Len(u) = Len(s) + Len(t)
        /\ \A i \in 1 .. Len(s) + Len(t) :
             u[i] = IF i <= Len(s) THEN s[i] ELSE t[i - Len(s)]
    BY ConcatProperties
  <2>2. Len(s) \in Nat /\ Len(t) \in Nat
    BY LenProperties
  <2> HIDE DEF u
  <2>3. ASSUME NEW i \in 1 .. Len(s) PROVE u[i] = s[i]
    BY <2>1, <2>2
  <2>4. ASSUME NEW i \in 1 .. Len(t) PROVE u[Len(s) + i] = t[i]
    <3>1. /\ Len(s) + i \in 1 .. Len(s) + Len(t)
          /\ ~ (Len(s) + i <= Len(s))
          /\ (Len(s) + i) - Len(s) = i
      BY <2>2
    <3> QED
      BY <2>1, <3>1
  <2> QED
    BY <2>1, <2>3, <2>4
<1>2. Len(s) \in Nat /\ Range(s) = {s[i] : i \in 1 .. Len(s)}
  BY RangeIsElements
<1>3. Len(t) \in Nat /\ Range(t) = {t[i] : i \in 1 .. Len(t)}
  BY RangeIsElements
<1> HIDE DEF u
<1>4. Range(u) = {u[i] : i \in 1 .. Len(u)}
  BY <1>1, RangeIsElements
<1>5. ASSUME NEW i \in 1 .. Len(u)
      PROVE  i \in 1 .. Len(s) \/ \E k \in 1 .. Len(t) : i = Len(s) + k
  <2>1. CASE i <= Len(s)
    BY <1>1, <1>2, <1>3, <2>1
  <2>2. CASE i > Len(s)
    <3>1. i - Len(s) \in 1 .. Len(t) /\ i = Len(s) + (i - Len(s))
      BY <1>1, <1>2, <1>3, <2>2
    <3> QED
      BY <3>1
  <2> QED
    BY <1>2, <2>1, <2>2
<1>6. Increasing(u)
  <2> SUFFICES ASSUME NEW i \in 1 .. Len(u), NEW j \in 1 .. Len(u), i < j
               PROVE  u[i].id < u[j].id
    BY DEF Increasing
  <2>1. CASE i \in 1 .. Len(s) /\ j \in 1 .. Len(s)
    BY <1>1, <2>1 DEF Increasing
  <2>2. CASE i \in 1 .. Len(s) /\ \E k \in 1 .. Len(t) : j = Len(s) + k
    BY <1>1, <1>2, <1>3, <2>2
  <2>3. CASE \E k \in 1 .. Len(t) : i = Len(s) + k
    <3>1. PICK k \in 1 .. Len(t) : i = Len(s) + k
      BY <2>3
    <3>2. PICK l \in 1 .. Len(t) : j = Len(s) + l
      BY <1>2, <1>5, <3>1
    <3>3. k < l
      BY <1>2, <3>1, <3>2
    <3> QED
      BY <1>1, <3>1, <3>2, <3>3 DEF Increasing
  <2> QED
    BY <1>5, <2>1, <2>2, <2>3
<1>7. Range(u) = Range(s) \cup Range(t)
  <2>1. ASSUME NEW i \in 1 .. Len(u) PROVE u[i] \in Range(s) \cup Range(t)
    <3>1. CASE i \in 1 .. Len(s)
      BY <1>1, <1>2, <3>1
    <3>2. CASE \E k \in 1 .. Len(t) : i = Len(s) + k
      BY <1>1, <1>3, <3>2
    <3> QED
      BY <1>5, <3>1, <3>2
  <2>2. \A i \in 1 .. Len(s) : i \in 1 .. Len(u)
    BY <1>1, <1>2, <1>3
  <2>3. \A i \in 1 .. Len(t) : Len(s) + i \in 1 .. Len(u)
    BY <1>1, <1>2, <1>3
  <2>4. Range(s) \subseteq Range(u)
    BY <1>1, <1>2, <1>4, <2>2
  <2>5. Range(t) \subseteq Range(u)
    BY <1>1, <1>3, <1>4, <2>3
  <2> QED
    BY <1>4, <2>1, <2>4, <2>5
<1> QED
  BY <1>1, <1>6, <1>7 DEF u

\* In a run an ID names one message.
LEMMA IncreasingUnique ==
  ASSUME NEW s \in Seq(Message), Increasing(s),
         NEW m \in Range(s), NEW n \in Range(s), m.id = n.id
  PROVE  m = n
<1>1. PICK i \in 1 .. Len(s) : m = s[i]
  BY ElementAt
<1>2. PICK j \in 1 .. Len(s) : n = s[j]
  BY ElementAt
<1>3. m.id \in Int /\ n.id \in Int /\ Len(s) \in Nat
  BY ElementAt, LenProperties
<1>4. ~ (i < j) /\ ~ (j < i)
  BY <1>1, <1>2, <1>3 DEF Increasing
<1>5. i = j
  BY <1>3, <1>4
<1> QED
  BY <1>1, <1>2, <1>5

\* A run within another ends no later.
LEMMA LastIdWithin ==
  ASSUME NEW s \in Seq(Message), Increasing(s), NEW t \in Seq(Message), Increasing(t),
         Range(s) \subseteq Range(t)
  PROVE  LastId(s) <= LastId(t)
<1>1. LastId(t) \in 0 .. MaxUint64 - 1 /\ \A m \in Range(t) : m.id <= LastId(t)
  BY LastIdIsMax
<1>2. CASE s = << >>
  BY <1>1, <1>2, EmptyRun
<1>3. CASE s # << >>
  <2>1. \E m \in Range(s) : m.id = LastId(s)
    BY <1>3, LastIdIsMax
  <2> QED
    BY <1>1, <2>1
<1> QED
  BY <1>2, <1>3

-----------------------------------------------------------------------------
(* Types and control points. *)

TypeInv == TypeOK /\ ClientShape /\ ServerShape

\* The empty sequence is the one of length zero.
LEMMA EmptyIffLen ==
  ASSUME NEW S, NEW s \in Seq(S)
  PROVE  s = << >> <=> Len(s) = 0
BY EmptySeq

\* Compacting the WAL keeps messages.
LEMMA UnconfirmedType ==
  ASSUME NEW s \in Seq(Message), NEW id \in Int
  PROVE  Unconfirmed(s, id) \in Seq(Message)
BY ConfirmedCount, SplitType DEF Unconfirmed

\* Changing one field of one connection leaves the connections as many.
LEMMA ConnsUpdate ==
  ASSUME NEW s \in Seq(Connection), NEW i
  PROVE  /\ \A b \in BOOLEAN : /\ [s EXCEPT ![i].open = b] \in Seq(Connection)
                               /\ Len([s EXCEPT ![i].open = b]) = Len(s)
         /\ \A f \in Seq(Message) : /\ [s EXCEPT ![i].frame = f] \in Seq(Connection)
                                    /\ Len([s EXCEPT ![i].frame = f]) = Len(s)
<1>1. Len(s) \in Nat /\ DOMAIN s = 1 .. Len(s) /\ \A j \in 1 .. Len(s) : s[j] \in Connection
  BY LenProperties, ElementOfSeq
<1>2. ASSUME NEW b \in BOOLEAN
      PROVE  /\ [s EXCEPT ![i].open = b] \in Seq(Connection)
             /\ Len([s EXCEPT ![i].open = b]) = Len(s)
  <2> DEFINE t == [s EXCEPT ![i].open = b]
  <2>1. \A j \in 1 .. Len(s) : t[j] \in Connection
    BY <1>1 DEF Connection
  <2>2. DOMAIN t = 1 .. Len(s) /\ t = [j \in 1 .. Len(s) |-> t[j]]
    BY <1>1
  <2> HIDE DEF t
  <2>3. t \in [1 .. Len(s) -> Connection]
    BY <2>1, <2>2
  <2>4. t \in Seq(Connection) /\ Len(t) = Len(s)
    BY <1>1, <2>2, <2>3, SeqDef, LenProperties
  <2> QED
    BY <2>4 DEF t
<1>3. ASSUME NEW f \in Seq(Message)
      PROVE  /\ [s EXCEPT ![i].frame = f] \in Seq(Connection)
             /\ Len([s EXCEPT ![i].frame = f]) = Len(s)
  <2> DEFINE t == [s EXCEPT ![i].frame = f]
  <2>1. \A j \in 1 .. Len(s) : t[j] \in Connection
    BY <1>1 DEF Connection
  <2>2. DOMAIN t = 1 .. Len(s) /\ t = [j \in 1 .. Len(s) |-> t[j]]
    BY <1>1
  <2> HIDE DEF t
  <2>3. t \in [1 .. Len(s) -> Connection]
    BY <2>1, <2>2
  <2>4. t \in Seq(Connection) /\ Len(t) = Len(s)
    BY <1>1, <2>2, <2>3, SeqDef, LenProperties
  <2> QED
    BY <2>4 DEF t
<1> QED
  BY <1>2, <1>3

-----------------------------------------------------------------------------
(* The steps of the client.  None of them touches the server's variables. *)

ClientSideType == ClientTypeOK /\ WalTypeOK /\ StateTypeOK /\ ClientShape

\* The message under construction is a message.
LEMMA NewMessageType ==
  ASSUME ClientSideType, ppc = "append"
  PROVE  NewMessage \in Message
BY BoundAssumption
   DEF ClientSideType, ClientTypeOK, StateTypeOK, ClientShape, ClientStateType,
       NewMessage, Message, MessageId, Line

\* The state after an allocation.
LEMMA AllocatedType ==
  ASSUME state \in ClientStateType, ~ IdsExhausted
  PROVE  /\ Allocated \in ClientStateType
         /\ Allocated.clientId = state.clientId
         /\ Allocated.nextId = state.nextId + 1
         /\ Allocated.nextId > 1
         /\ Allocated.fileOffset = state.fileOffset
BY BoundAssumption DEF Allocated, IdsExhausted, ClientStateType

\* The producer's steps, failing ones included.
LEMMA ProducerType ==
  ASSUME ClientSideType, Producer \/ ProducerFault
  PROVE  ClientSideType'
<1> USE BoundAssumption
    DEF ClientSideType, ClientTypeOK, WalTypeOK, StateTypeOK, ClientShape,
        ProducerPc, ConsumerPc, ProducerUnchanged, producerVars, queueVars,
        consumerVars, walVars, stateVars, netVars
<1>1. CASE ReadNewLines
  BY <1>1 DEF ReadNewLines
<1>2. CASE ProducerLeavesLoop
  BY <1>2 DEF ProducerLeavesLoop
<1>3. CASE AllocId
  <2>1. ~ IdsExhausted
    BY <1>3 DEF AllocId, NextMessageId
  <2>2. /\ Allocated \in ClientStateType
        /\ Allocated.clientId = state.clientId
        /\ Allocated.nextId > 1
    BY <2>1, AllocatedType
  <2> QED
    BY <1>3, <2>2 DEF AllocId, NextMessageId, Persist
<1>4. CASE AllocExhausted \/ AppendOversized \/ ReadFails
  BY <1>4, EmptySeq DEF AllocExhausted, AppendOversized, ReadFails, ProducerThrows
<1>5. CASE AppendMessage
  <2>1. NewMessage \in Message
    BY <1>5, NewMessageType DEF AppendMessage
  <2>2. /\ Append(walFile, NewMessage) \in Seq(Message)
        /\ Append(pending, NewMessage) \in Seq(Message)
        /\ Append(messages, NewMessage) \in Seq(Message)
        /\ Append(messages, NewMessage) # << >>
    BY <2>1, AppendProperties
  <2> QED
    BY <1>5, <2>2 DEF AppendMessage, WalAppend
<1>6. CASE Checkpoint
  BY <1>6 DEF Checkpoint, UpdateFileCheckpoint, Persist, AtOffset, ClientStateType
<1>7. CASE PushMessage
  <2>1. messages # << >>
    BY <1>7 DEF PushMessage
  <2>2. /\ Head(messages) \in Message
        /\ Tail(messages) \in Seq(Message)
        /\ Len(Tail(messages)) = Len(messages) - 1
    BY <2>1, HeadTailProperties
  <2>3. Append(queue, Head(messages)) \in Seq(Message)
    BY <2>2, AppendProperties
  <2>4. Len(messages) \in Nat
    BY LenProperties
  <2>5. Tail(messages) = << >> <=> Len(messages) = 1
    <3>1. Tail(messages) = << >> <=> Len(Tail(messages)) = 0
      BY <2>2, EmptyIffLen
    <3> QED
      BY <2>2, <2>4, <3>1
  <2> QED
    BY <1>7, <2>2, <2>3, <2>5 DEF PushMessage
<1>8. CASE PushRefused
  BY <1>8, EmptySeq DEF PushRefused
<1>9. CASE ProducerClose
  BY <1>9 DEF ProducerClose
<1>10. CASE AllocFails
  <2>1. ~ IdsExhausted
    BY <1>10 DEF AllocFails, NextMessageIdFails
  <2>2. Allocated \in ClientStateType
    BY <2>1, AllocatedType
  <2> QED
    BY <1>10, <2>2, EmptySeq DEF AllocFails, NextMessageIdFails, PersistFails,
                                 ProducerThrows
<1>11. CASE AppendFails
  <2>1. NewMessage \in Message
    BY <1>11, NewMessageType DEF AppendFails
  <2>2. Append(walFile, NewMessage) \in Seq(Message)
    BY <2>1, AppendProperties
  <2> QED
    BY <1>11, <2>2, EmptySeq DEF AppendFails, WalAppendFails, WalTornAppend,
                                 ProducerThrows
<1>12. CASE CheckpointFails
  BY <1>12, EmptySeq DEF CheckpointFails, UpdateFileCheckpointFails,
              PersistFails, AtOffset, ClientStateType, ProducerThrows
<1> QED
  BY <1>1, <1>2, <1>3, <1>4, <1>5, <1>6, <1>7, <1>8, <1>9, <1>10, <1>11, <1>12
     DEF Producer, ProducerFault

\* Giving a connection up leaves the others as many.
LEMMA ClientCloseType ==
  ASSUME NetTypeOK, ClientClose
  PROVE  NetTypeOK' /\ Len(conns') = Len(conns) /\ UNCHANGED listening
<1>1. conns' \in Seq(Connection) /\ Len(conns') = Len(conns)
  BY ConnsUpdate DEF NetTypeOK, ClientClose
<1> QED
  BY <1>1, EmptySeq DEF NetTypeOK, ClientClose

\* The batch at the head of what is to be sent.
LEMMA BatchFacts ==
  ASSUME sending \in Seq(Message), sending # << >>
  PROVE  /\ Batch \in Seq(Message)
         /\ Len(Batch) \in 1 .. Len(sending)
         /\ Len(Batch) <= SendBatchSize
         /\ \A i \in 1 .. Len(Batch) : Batch[i] = sending[i]
         /\ Batch # << >>
<1>1. Len(sending) \in Nat \ {0}
  BY EmptySeq
<1> DEFINE n == Smaller(SendBatchSize, Len(sending))
<1>2. n \in 1 .. Len(sending) /\ n <= SendBatchSize
  BY <1>1, BatchAssumption DEF Smaller
<1> HIDE DEF n
<1>3. /\ SubSeq(sending, 1, n) \in Seq(Message)
      /\ Len(SubSeq(sending, 1, n)) = n
      /\ \A i \in 1 .. n : SubSeq(sending, 1, n)[i] = sending[i]
  <2>1. n \in 0 .. Len(sending)
    BY <1>1, <1>2
  <2> QED
    BY <2>1, SplitType
<1>4. Batch = SubSeq(sending, 1, n)
  BY DEF Batch, n
<1>5. Batch # << >>
  BY <1>1, <1>2, <1>3, <1>4, EmptySeq
<1> QED
  BY <1>2, <1>3, <1>4, <1>5

\* The ID that confirms the batch.
LEMMA BatchLastIdType ==
  ASSUME sending \in Seq(Message), sending # << >>
  PROVE  LastId(Batch) \in MessageId /\ LastId(Batch) \in Int
<1>1. Batch \in Seq(Message) /\ Batch # << >> /\ Len(Batch) \in Nat \ {0}
  BY BatchFacts, EmptySeq
<1>2. Batch[Len(Batch)] \in Message
  BY <1>1, ElementOfSeq
<1> QED
  BY <1>1, <1>2, BoundAssumption DEF LastId, Message, MessageId

\* What a consumer step leaves alone, and what it has to establish.
ConsumerShape ==
  /\ cpc \in {"loop", "pop", "done"} => sending = << >>
  /\ cpc = "fill" => Len(sending) < SendBatchSize
  /\ cpc \in {"fill", "deliver", "send", "await", "confirm", "backoff"} =>
        sending # << >>

ConsumerType == /\ queue \in Seq(Message)
                /\ closed \in BOOLEAN
                /\ cpc \in ConsumerPc \ {"off"}
                /\ sending \in Seq(Message)
                /\ ConsumerShape

\* A step of the consumer changes nothing of the producer and of main.
LEMMA ConsumerFrame ==
  ASSUME ClientSideType, cpc # "off", ConsumerUnchanged, WalTypeOK', ConsumerType'
  PROVE  ClientSideType'
<1>1. proc = "up"
  BY DEF ClientSideType, ClientShape
<1>2. UNCHANGED <<written, proc, running, ppc, cur, readPos, messages, state,
                  stateFile, usedIds>>
  BY DEF ConsumerUnchanged, producerVars, stateVars
<1>3. ClientTypeOK'
  BY <1>2 DEF ClientSideType, ClientTypeOK, ConsumerType
<1>4. StateTypeOK'
  BY <1>2 DEF ClientSideType, StateTypeOK
<1>5. ClientShape'
  BY <1>1, <1>2 DEF ClientSideType, ClientShape, ConsumerType, ConsumerShape
<1> QED
  BY <1>3, <1>4, <1>5 DEF ClientSideType

\* The facts about its own variables that the consumer starts a step from.
LEMMA ConsumerNow ==
  ASSUME ClientSideType
  PROVE  /\ cpc # "off" => ConsumerType
         /\ WalTypeOK
         /\ proc # "up" => cpc = "off"
BY DEF ClientSideType, ClientTypeOK, ClientShape, ConsumerType, ConsumerShape,
       ConsumerPc

\* The client adds a connection only to a listening server and removes none.
NetGrows == /\ NetTypeOK'
            /\ Len(conns') >= Len(conns)
            /\ ~ listening => Len(conns') = Len(conns)
            /\ UNCHANGED listening

\* A step that leaves the network alone or closes the socket makes no connection.
LEMMA NetStill ==
  ASSUME NetTypeOK, UNCHANGED netVars \/ ClientClose
  PROVE  NetGrows
<1>1. Len(conns) \in Nat
  BY LenProperties DEF NetTypeOK
<1>2. CASE UNCHANGED netVars
  BY <1>1, <1>2 DEF netVars, NetTypeOK, NetGrows
<1>3. CASE ClientClose
  BY <1>1, <1>3, ClientCloseType DEF NetGrows
<1> QED
  BY <1>2, <1>3

\* The consumer's steps: each leaves a well-formed consumer, WAL and network.
LEMMA ConsumerSteps ==
  ASSUME ClientSideType, NetTypeOK, Consumer \/ SendFails \/ ConfirmFails
  PROVE  /\ cpc # "off"
         /\ ConsumerUnchanged
         /\ WalTypeOK'
         /\ ConsumerType'
         /\ NetGrows
<1> DEFINE Goal == /\ cpc # "off"
                   /\ ConsumerUnchanged
                   /\ WalTypeOK'
                   /\ ConsumerType'
                   /\ NetGrows
<1>a. (cpc # "off" => ConsumerType) /\ WalTypeOK
  BY ConsumerNow
<1>b. UNCHANGED walVars => WalTypeOK'
  BY <1>a DEF walVars, WalTypeOK
<1>c. ASSUME cpc # "off", ConsumerEnds, UNCHANGED closed \/ closed' = TRUE
      PROVE  Goal
  <2>1. ConsumerType'
    BY <1>a, <1>c, EmptySeq DEF ConsumerEnds, ConsumerType, ConsumerShape, ConsumerPc
  <2>2. WalTypeOK'
    BY <1>b, <1>c DEF ConsumerEnds, walVars
  <2> QED
    BY <1>c, <2>1, <2>2, NetStill DEF ConsumerEnds
<1>d. ASSUME cpc \notin {"off", "loop", "pop", "done"}, DeliveryThrows, WalTypeOK'
      PROVE  Goal
  <2>1. ConsumerType'
    BY <1>a, <1>d DEF DeliveryThrows, ConsumerType, ConsumerShape, ConsumerPc, queueVars
  <2> QED
    BY <1>d, <2>1, NetStill DEF DeliveryThrows
<1>1. CASE LoopAgain
  <2>1. ConsumerType'
    BY <1>a, <1>1 DEF LoopAgain, ConsumerType, ConsumerShape, ConsumerPc, queueVars
  <2> QED
    BY <1>1, <1>b, <2>1, NetStill DEF LoopAgain, walVars, netVars
<1>2. CASE ConsumerLeavesLoop \/ PopClosed \/ AbandonDelivery
  BY <1>2, <1>c DEF ConsumerLeavesLoop, PopClosed, AbandonDelivery
<1>3. CASE PopBatch
  <2> DEFINE n == Smaller(SendBatchSize - Len(sending), Len(queue))
  <2>0. /\ cpc \in {"pop", "fill"}
        /\ queue # << >>
        /\ queue \in Seq(Message)
        /\ sending \in Seq(Message)
        /\ closed \in BOOLEAN
        /\ cpc = "pop" => sending = << >>
        /\ cpc = "fill" => Len(sending) < SendBatchSize
    BY <1>a, <1>3 DEF PopBatch, ConsumerType, ConsumerShape
  <2>1. Len(queue) \in Nat \ {0} /\ Len(sending) \in Nat
    BY <2>0, EmptyIffLen, LenProperties
  <2>2. Len(sending) < SendBatchSize
    <3>1. CASE cpc = "pop"
      <4>1. Len(sending) = 0
        BY <2>0, <3>1, EmptyIffLen
      <4> QED
        BY <4>1, BatchAssumption
    <3> QED
      BY <2>0, <3>1
  <2>3. n \in 1 .. Len(queue) /\ n + Len(sending) <= SendBatchSize
    BY <2>1, <2>2, BatchAssumption DEF Smaller
  <2>4. TakeFromQueue(n)
    BY <1>3 DEF PopBatch
  <2> HIDE DEF n
  <2>5. /\ SubSeq(queue, 1, n) \in Seq(Message)
        /\ Len(SubSeq(queue, 1, n)) = n
        /\ SubSeq(queue, n + 1, Len(queue)) \in Seq(Message)
    <3>1. n \in 0 .. Len(queue)
      BY <2>1, <2>3
    <3> QED
      BY <2>0, <3>1, SplitType
  <2>6. /\ sending \o SubSeq(queue, 1, n) \in Seq(Message)
        /\ Len(sending \o SubSeq(queue, 1, n)) = Len(sending) + n
    BY <2>0, <2>5, ConcatProperties
  <2>7. sending' \in Seq(Message) /\ Len(sending') = Len(sending) + n
    BY <2>4, <2>6 DEF TakeFromQueue
  <2>8. sending' # << >>
    <3>1. Len(sending') # 0
      BY <2>1, <2>3, <2>7
    <3> QED
      BY <2>7, <3>1, EmptyIffLen
  <2>9. /\ cpc' \in {"fill", "deliver"}
        /\ cpc' = "fill" => Len(sending') < SendBatchSize
    BY <2>4, <2>7 DEF TakeFromQueue
  <2>10. ConsumerType'
    BY <2>0, <2>4, <2>5, <2>7, <2>8, <2>9
       DEF TakeFromQueue, ConsumerType, ConsumerShape, ConsumerPc
  <2> QED
    BY <2>0, <2>4, <2>10, <1>b, NetStill DEF TakeFromQueue, walVars, netVars
<1>4. CASE BatchDeadline \/ RetryDelivery
  <2>1. ConsumerType'
    BY <1>a, <1>4 DEF BatchDeadline, RetryDelivery, ConsumerType, ConsumerShape,
                      ConsumerPc, queueVars
  <2> QED
    BY <1>4, <1>b, <2>1, NetStill DEF BatchDeadline, RetryDelivery, walVars, netVars
<1>5. CASE Connect
  <2>1. [frame |-> << >>, open |-> TRUE] \in Connection
    BY EmptySeq DEF Connection
  <2>2. conns' \in Seq(Connection) /\ Len(conns') = Len(conns) + 1
    BY <1>5, <2>1, AppendProperties DEF Connect, ClientConnect, NetTypeOK
  <2>3. Len(conns) \in Nat
    BY LenProperties DEF NetTypeOK
  <2>4. NetGrows
    BY <1>5, <2>2, <2>3, EmptySeq DEF Connect, ClientConnect, NetTypeOK, NetGrows
  <2>5. ConsumerType'
    BY <1>a, <1>5 DEF Connect, ConsumerType, ConsumerShape, ConsumerPc, queueVars
  <2> QED
    BY <1>5, <1>b, <2>4, <2>5 DEF Connect, walVars
<1>6. CASE ConnectFails \/ SendToClosed \/ SendFails \/ ServerClosed \/ AckTimesOut
  <2>1. cpc \notin {"off", "loop", "pop", "done"} /\ DeliveryThrows /\ UNCHANGED walVars
    BY <1>6 DEF ConnectFails, SendToClosed, SendFails, AtSend, ServerClosed, AckTimesOut
  <2> QED
    BY <1>b, <1>d, <2>1
<1>7. CASE SendBatch
  <2>1. cpc \in {"send", "deliver"} /\ sending # << >> /\ sending \in Seq(Message)
    BY <1>a, <1>7 DEF SendBatch, AtSend, ConsumerType, ConsumerShape
  <2>2. Batch \in Seq(Message)
    BY <2>1, BatchFacts
  <2>3. conns' \in Seq(Connection) /\ Len(conns') = Len(conns) /\ Len(conns) \in Nat
    BY <1>7, <2>2, ConnsUpdate, LenProperties DEF SendBatch, ClientSend, NetTypeOK
  <2>4. NetGrows
    BY <1>7, <2>3 DEF SendBatch, ClientSend, NetTypeOK, NetGrows
  <2>5. ConsumerType'
    BY <1>a, <1>7, <2>1 DEF SendBatch, ConsumerType, ConsumerShape, ConsumerPc, queueVars
  <2> QED
    BY <1>7, <1>b, <2>1, <2>4, <2>5 DEF SendBatch, walVars
<1>8. CASE ReceiveAck
  <2>0. cpc = "await" /\ UNCHANGED walVars
    BY <1>8 DEF ReceiveAck
  <2>1. CASE Head(inbox) = LastId(Batch)
    <3>1. inbox' \in Seq(0 .. MaxUint64)
      BY <1>8, <2>1, HeadTailProperties DEF ReceiveAck, ClientReceive, NetTypeOK
    <3>2. Len(conns) \in Nat
      BY LenProperties DEF NetTypeOK
    <3>3. NetGrows
      BY <1>8, <2>1, <3>1, <3>2 DEF ReceiveAck, ClientReceive, NetTypeOK, NetGrows
    <3>4. ConsumerType'
      BY <1>a, <1>8, <2>0, <2>1
         DEF ReceiveAck, ConsumerType, ConsumerShape, ConsumerPc, queueVars
    <3> QED
      BY <1>8, <1>b, <2>0, <2>1, <3>3, <3>4 DEF ReceiveAck
  <2>2. CASE Head(inbox) # LastId(Batch)
    <3>1. DeliveryThrows
      BY <1>8, <2>2 DEF ReceiveAck
    <3> QED
      BY <1>b, <1>d, <2>0, <3>1
  <2> QED
    BY <2>1, <2>2
<1>9. CASE ConfirmBatch
  <2>1. cpc = "confirm" /\ sending # << >> /\ sending \in Seq(Message)
    BY <1>a, <1>9 DEF ConfirmBatch, ConsumerType, ConsumerShape
  <2>2. Batch \in Seq(Message) /\ Len(Batch) \in 1 .. Len(sending)
    BY <2>1, BatchFacts
  <2>3. Len(sending) \in Nat /\ Len(Batch) \in 0 .. Len(sending)
    BY <2>1, <2>2, LenProperties
  <2>4. Unconfirmed(pending, LastId(Batch)) \in Seq(Message)
    BY <1>a, <2>1, BatchLastIdType, UnconfirmedType DEF WalTypeOK
  <2>5. WalTypeOK'
    BY <1>a, <1>9, <2>4 DEF ConfirmBatch, WalConfirm, WalTypeOK, walVars
  <2>6. /\ sending' \in Seq(Message)
        /\ Len(sending') = Len(sending) - Len(Batch)
    BY <1>9, <2>1, <2>3, SplitType DEF ConfirmBatch
  <2>7. sending' = << >> <=> ~ (Len(Batch) < Len(sending))
    <3>1. sending' = << >> <=> Len(sending') = 0
      BY <2>6, EmptyIffLen
    <3> QED
      BY <2>3, <2>6, <3>1
  <2>8. ConsumerType'
    BY <1>a, <1>9, <2>1, <2>6, <2>7
       DEF ConfirmBatch, ConsumerType, ConsumerShape, ConsumerPc, queueVars
  <2> QED
    BY <1>9, <2>1, <2>5, <2>8, NetStill DEF ConfirmBatch, netVars
<1>10. CASE ConfirmFails
  <2>1. cpc = "confirm" /\ sending # << >> /\ sending \in Seq(Message)
    BY <1>a, <1>10 DEF ConfirmFails, ConsumerType, ConsumerShape
  <2>2. Unconfirmed(pending, LastId(Batch)) \in Seq(Message)
    BY <1>a, <2>1, BatchLastIdType, UnconfirmedType DEF WalTypeOK
  <2>3. WalTypeOK'
    BY <1>a, <1>10, <2>2 DEF ConfirmFails, WalConfirmFails, WalTypeOK
  <2> QED
    BY <1>10, <1>d, <2>1, <2>3 DEF ConfirmFails
<1> QED
  BY <1>1, <1>2, <1>3, <1>4, <1>5, <1>6, <1>7, <1>8, <1>9, <1>10 DEF Consumer

-----------------------------------------------------------------------------
(* The main thread, the log file and the faults of the client's machine. *)

\* The last ID of a sequence of messages is 0 or a message ID.
LEMMA LastIdType ==
  ASSUME NEW s \in Seq(Message)
  PROVE  LastId(s) \in 0 .. MaxUint64 - 1
<1>1. CASE s = << >>
  BY <1>1, BoundAssumption DEF LastId
<1>2. CASE s # << >>
  <2>1. Len(s) \in Nat \ {0}
    BY <1>2, EmptyIffLen, LenProperties
  <2>2. s[Len(s)] \in Message
    BY <2>1, ElementOfSeq
  <2> QED
    BY <1>2, <2>2, BoundAssumption DEF LastId, Message, MessageId
<1> QED
  BY <1>1, <1>2

\* The constructor of ClientState leaves a state with an identity.
LEMMA StateLoadType ==
  ASSUME StateTypeOK, NEW recovered \in Seq(Message), StateLoad(recovered)
  PROVE  StateTypeOK' /\ state'.clientId \in ClientIds
<1>1. LastId(recovered) \in 0 .. MaxUint64 - 1
  BY LastIdType
<1>2. ChosenClientIds(recovered) \subseteq ClientIds
  <2>1. CASE StateExists
    BY <2>1 DEF StateExists, ChosenClientIds, StateTypeOK, ClientStateType
  <2>2. CASE ~ StateExists /\ recovered # << >>
    <3>1. recovered[1] \in Message
      BY <2>2, EmptyIffLen, LenProperties, ElementOfSeq
    <3> QED
      BY <2>2, <3>1 DEF ChosenClientIds, Message
  <2>3. CASE ~ StateExists /\ recovered = << >>
    BY <2>3 DEF ChosenClientIds
  <2> QED
    BY <2>1, <2>2, <2>3
<1>3. PICK c \in ChosenClientIds(recovered) :
        /\ state' = [clientId   |-> c,
                     nextId     |-> IF stateFile.nextId <= LastId(recovered)
                                    THEN LastId(recovered) + 1
                                    ELSE stateFile.nextId,
                     fileOffset |-> stateFile.fileOffset]
        /\ usedIds' = usedIds \cup {c}
  BY DEF StateLoad
<1>4. c \in ClientIds
  BY <1>2, <1>3
<1>5. state' \in ClientStateType
  BY <1>1, <1>3, <1>4, BoundAssumption DEF StateTypeOK, ClientStateType
<1> QED
  BY <1>3, <1>4, <1>5 DEF StateTypeOK, StateLoad

\* A process that is gone leaves no local variables behind.
LEMMA GoneType ==
  ASSUME ClientSideType, NetTypeOK, ClientGone,
         walFile' \in Seq(Message), walTail' \in {"clean", "torn", "corrupt"}
  PROVE  ClientSideType' /\ NetGrows
<1>0. 0 \in 0 .. MaxLine /\ << >> \in Seq(Message)
  BY BoundAssumption, EmptySeq
<1>1. ClientTypeOK'
  BY <1>0 DEF ClientSideType, ClientTypeOK, ClientGone, ProducerPc, ConsumerPc
<1>2. WalTypeOK'
  BY EmptySeq DEF ClientSideType, WalTypeOK, ClientGone, WalForget
<1>3. StateTypeOK'
  BY BoundAssumption
     DEF ClientSideType, StateTypeOK, ClientGone, StateForget, NoState, ClientStateType
<1>4. ClientShape'
  BY DEF ClientGone, ClientShape
<1>5. NetGrows
  BY NetStill DEF ClientGone
<1> QED
  BY <1>1, <1>2, <1>3, <1>4, <1>5 DEF ClientSideType

\* Steps of main, of the log file and crashes keep the types of the client.
LEMMA MainSteps ==
  ASSUME ClientSideType, NetTypeOK,
         Main \/ StopSignal \/ WriteLine \/ Crash \/ LoseState
  PROVE  ClientSideType' /\ NetGrows
<1> USE DEF ClientSideType
<1>1. CASE MainClose \/ StopSignal \/ WriteLine
  <2>a. written' \in 0 .. MaxLine
    BY <1>1, BoundAssumption DEF ClientTypeOK, MainClose, StopSignal, WriteLine
  <2>b. UNCHANGED closed \/ closed' = TRUE
    BY <1>1 DEF MainClose, StopSignal, WriteLine, queueVars
  <2>c. UNCHANGED running \/ running' = FALSE
    BY <1>1 DEF MainClose, StopSignal, WriteLine
  <2>d. running' \in BOOLEAN /\ closed' \in BOOLEAN
    BY <2>b, <2>c, Zenon DEF ClientTypeOK
  <2>1. ClientTypeOK'
    BY <1>1, <2>a, <2>d
       DEF ClientTypeOK, MainClose, StopSignal, WriteLine, producerVars, queueVars,
           consumerVars
  <2>2. UNCHANGED <<walVars, stateVars, netVars, proc, ppc, cur, readPos, messages,
                    cpc, sending, queue>>
    BY <1>1 DEF MainClose, StopSignal, WriteLine, producerVars, queueVars, consumerVars
  <2>3. WalTypeOK' /\ StateTypeOK'
    BY <2>2 DEF WalTypeOK, StateTypeOK, walVars, stateVars
  <2>4. ClientShape'
    BY <2>2 DEF ClientShape, stateVars
  <2> QED
    BY <2>1, <2>2, <2>3, <2>4, NetStill
<1>2. CASE StartWal
  <2>1. UNCHANGED <<written, running, ppc, cur, readPos, messages, queue, closed,
                    cpc, sending, state, stateFile, usedIds>>
    BY <1>2 DEF StartWal, producerVars, queueVars, consumerVars, stateVars
  <2>2. ClientTypeOK' /\ StateTypeOK' /\ ClientShape'
    BY <1>2, <2>1 DEF StartWal, ClientTypeOK, StateTypeOK, ClientShape
  <2>3. WalTypeOK'
    BY <1>2 DEF StartWal, WalLoad, WalTypeOK
  <2> QED
    BY <1>2, <2>2, <2>3, NetStill DEF StartWal, netVars
<1>3. CASE StartState
  <2>1. StateTypeOK' /\ state'.clientId \in ClientIds
    BY <1>3, StateLoadType DEF StartState, WalTypeOK
  <2>2. state'.fileOffset \in 0 .. MaxLine
    BY <2>1 DEF StateTypeOK, ClientStateType
  <2>3. /\ UNCHANGED <<written, messages, queue, closed, pending, walFile, walTail>>
        /\ proc = "loading" /\ proc' = "up" /\ running' = TRUE /\ ppc' = "read"
        /\ cur' = state'.fileOffset /\ readPos' = cur'
        /\ sending' = pending
        /\ cpc' = IF pending = << >> THEN "loop" ELSE "deliver"
    BY <1>3 DEF StartState, queueVars, walVars
  <2>4. ClientTypeOK' /\ WalTypeOK'
    BY <2>2, <2>3 DEF ClientTypeOK, WalTypeOK, ProducerPc, ConsumerPc
  <2>5. ClientShape'
    BY <2>1, <2>3 DEF ClientShape
  <2> QED
    BY <1>3, <2>1, <2>4, <2>5, NetStill DEF StartState, netVars
<1>4. CASE Exit
  BY <1>4, GoneType DEF Exit, WalTypeOK
<1>5. CASE Crash
  <2>1. walFile' \in Seq(Message) /\ walTail' \in {"clean", "torn", "corrupt"}
    <3>1. CASE UNCHANGED <<walFile, walTail>>
      BY <3>1 DEF WalTypeOK
    <3>2. CASE ppc = "append" /\ WalTornAppend(NewMessage)
      <4>1. Append(walFile, NewMessage) \in Seq(Message)
        BY <3>2, NewMessageType, AppendProperties DEF WalTypeOK
      <4> QED
        BY <3>2, <4>1 DEF WalTornAppend, WalTypeOK
    <3> QED
      BY <1>5, <3>1, <3>2 DEF Crash
  <2> QED
    BY <1>5, <2>1, GoneType DEF Crash
<1>6. CASE LoseState
  <2>1. UNCHANGED <<walVars, netVars, proc, ppc, cur, readPos, messages, cpc,
                    sending, queue, closed, written, running, state, usedIds>>
    BY <1>6 DEF LoseState, clientVars, producerVars, queueVars, consumerVars
  <2>2. ClientTypeOK' /\ WalTypeOK' /\ ClientShape'
    BY <2>1 DEF ClientTypeOK, WalTypeOK, ClientShape, walVars
  <2>3. StateTypeOK'
    BY <1>6, <2>1, BoundAssumption DEF LoseState, StateTypeOK, NoState, ClientStateType
  <2> QED
    BY <2>1, <2>2, <2>3, NetStill
<1> QED
  BY <1>1, <1>2, <1>3, <1>4, <1>5, <1>6 DEF Main

-----------------------------------------------------------------------------
(* The steps of the server.  None of them touches the client's variables, the *)
(* state of its socket apart. *)

ServerSideType == ServerTypeOK /\ DedupTypeOK /\ NetTypeOK /\ ServerShape

\* Closing the client of the server keeps the types of the network.
LEMMA ServerCloseClientType ==
  ASSUME NetTypeOK, ServerCloseClient, conns # << >>
  PROVE  NetTypeOK'
<1>1. Tail(conns) \in Seq(Connection)
  BY HeadTailProperties DEF NetTypeOK
<1> QED
  BY <1>1 DEF NetTypeOK, ServerCloseClient

\* Leaving a client behind keeps the types of the server.
LEMMA BackToAcceptType ==
  ASSUME ServerSideType, BackToAccept, spc \in {"receive", "persist", "ack"},
         DedupTypeOK'
  PROVE  ServerSideType'
<1>1. ServerTypeOK'
  BY BoundAssumption, EmptySeq
     DEF ServerSideType, ServerTypeOK, BackToAccept, NoBatch, ServerPc
<1>2. CASE stopping
  BY <1>1, <1>2
     DEF ServerSideType, BackToAccept, NoBatch, NetTypeOK, netVars, ServerShape, Serving
<1>3. CASE ~ stopping
  <2>1. conns # << >>
    BY <1>3 DEF ServerSideType, ServerShape, Serving
  <2>2. NetTypeOK'
    BY <1>3, <2>1, ServerCloseClientType DEF ServerSideType, BackToAccept
  <2>3. ServerShape'
    BY <1>3 DEF BackToAccept, NoBatch, ServerShape, Serving
  <2> QED
    BY <1>1, <2>2, <2>3 DEF ServerSideType
<1> QED
  BY <1>2, <1>3 DEF ServerSideType, ServerTypeOK

\* Steps of the server and of its faults keep its types.
LEMMA ServerSteps ==
  ASSUME ServerSideType,
         Server \/ ServerFault \/ ConnectionFails \/ ServerStopSignal
  PROVE  ServerSideType'
<1> USE DEF ServerSideType
<1>a. UNCHANGED dedupVars => DedupTypeOK'
  BY DEF dedupVars, DedupTypeOK
<1>b. UNCHANGED netVars => NetTypeOK'
  BY DEF netVars, NetTypeOK
<1>1. CASE ServerStart
  <2>1. ServerTypeOK'
    BY <1>1 DEF ServerStart, ServerTypeOK, ServerPc
  <2>2. NetTypeOK' /\ DedupTypeOK'
    BY <1>1 DEF ServerStart, ServerListen, DedupLoad, NetTypeOK, DedupTypeOK
  <2>3. ServerShape'
    BY <1>1 DEF ServerStart, ServerListen, ServerShape, Serving
  <2> QED
    BY <2>1, <2>2, <2>3
<1>2. CASE AcceptClient
  <2>1. ServerTypeOK' /\ ServerShape'
    BY <1>2 DEF AcceptClient, ServerTypeOK, ServerPc, ServerShape, Serving, netVars
  <2> QED
    BY <1>2, <1>a, <1>b, <2>1 DEF AcceptClient, dedupVars, netVars
<1>3. CASE ReceiveBatch
  <2>1. conns # << >> /\ conns \in Seq(Connection)
    BY <1>3 DEF ReceiveBatch, ServerShape, Serving, NetTypeOK
  <2>2. Len(conns) \in Nat \ {0} /\ conns[1] \in Connection
    BY <2>1, EmptyIffLen, LenProperties, ElementOfSeq
  <2>3. conns[1].frame \in Seq(Message) /\ conns[1].frame # << >>
    BY <1>3, <2>2 DEF ReceiveBatch, ServerReceive, Connection
  <2>4. Len(conns[1].frame) \in Nat \ {0} /\ conns[1].frame[1] \in Message
    BY <2>3, EmptyIffLen, LenProperties, ElementOfSeq
  <2>5. dedup[conns[1].frame[1].clientId] \in 0 .. MaxUint64 - 1
    BY <2>4 DEF DedupTypeOK, Message
  <2>6. conns' \in Seq(Connection) /\ Len(conns') = Len(conns)
    <3>1. << >> \in Seq(Message)
      BY EmptySeq
    <3>2. conns' = [conns EXCEPT ![1].frame = << >>]
      BY <1>3 DEF ReceiveBatch, ServerReceive
    <3>3. PICK f \in Seq(Message) : f = << >>
      BY <3>1
    <3>4. conns' = [conns EXCEPT ![1].frame = f]
      BY <3>2, <3>3
    <3> QED
      BY <2>1, <3>4, ConnsUpdate
  <2>7. conns' # << >>
    BY <2>2, <2>6, EmptyIffLen
  <2>8. ServerTypeOK'
    BY <1>3, <2>3, <2>5 DEF ReceiveBatch, ServerTypeOK, ServerPc, highestConfirmed
  <2>9. NetTypeOK'
    BY <1>3, <2>6 DEF ReceiveBatch, ServerReceive, NetTypeOK
  <2>10. ServerShape'
    BY <1>3, <2>3, <2>4, <2>7 DEF ReceiveBatch, ServerShape, Serving
  <2> QED
    BY <1>3, <1>a, <2>8, <2>9, <2>10 DEF ReceiveBatch, dedupVars
<1>4. CASE ProcessMessage
  <2>1. pos \in Nat /\ Len(rx) \in Nat /\ pos + 1 \in 1 .. Len(rx)
    BY <1>4, LenProperties DEF ProcessMessage, ServerShape, ServerTypeOK
  <2>2. rx[pos + 1] \in Message
    BY <2>1, ElementOfSeq DEF ServerTypeOK
  <2>3. rx # << >>
    BY <2>1, EmptyIffLen DEF ServerTypeOK
  <2>4. ServerTypeOK'
    BY <1>4, <2>1, <2>2, BoundAssumption
       DEF ProcessMessage, ServerTypeOK, ServerPc, Message, MessageId
  <2>5. ServerShape'
    BY <1>4, <2>1, <2>3 DEF ProcessMessage, ServerShape, Serving, netVars
  <2> QED
    BY <1>4, <1>a, <1>b, <2>4, <2>5 DEF ProcessMessage, dedupVars, netVars
<1>5. CASE PersistWatermark \/ ConfirmWatermarkFails
  <2>1. rx[1] \in Message /\ rx # << >> /\ spc = "persist"
    BY <1>5, EmptyIffLen, LenProperties, ElementOfSeq
       DEF PersistWatermark, ConfirmWatermarkFails, ServerShape, ServerTypeOK
  <2>2. rx[1].clientId \in ClientIds
    BY <2>1 DEF Message
  <2>3. [dedup EXCEPT ![rx[1].clientId] = latest] \in [ClientIds -> 0 .. MaxUint64 - 1]
    BY <2>2 DEF DedupTypeOK, ServerTypeOK
  <2>4. DedupTypeOK'
    BY <1>5, <2>3 DEF PersistWatermark, ConfirmWatermarkFails, DedupConfirm,
                      DedupConfirmFails, DedupTypeOK, dedupVars
  <2>5. CASE PersistWatermark
    <3>1. ServerTypeOK' /\ ServerShape'
      BY <2>5 DEF PersistWatermark, ServerTypeOK, ServerPc, ServerShape, Serving, netVars
    <3> QED
      BY <2>4, <2>5, <3>1, <1>b DEF PersistWatermark, netVars
  <2>6. CASE ConfirmWatermarkFails
    BY <2>1, <2>4, <2>6, BackToAcceptType DEF ConfirmWatermarkFails
  <2> QED
    BY <1>5, <2>5, <2>6
<1>6. CASE SendAck
  <2>1. LastId(rx) \in 0 .. MaxUint64
    BY LastIdType, BoundAssumption DEF ServerTypeOK
  <2>2. inbox' \in Seq(0 .. MaxUint64)
    BY <1>6, <2>1, AppendProperties DEF SendAck, ServerAck, NetTypeOK
  <2>3. NetTypeOK'
    BY <1>6, <2>2 DEF SendAck, ServerAck, NetTypeOK
  <2>4. ServerTypeOK'
    BY <1>6, BoundAssumption, EmptySeq DEF SendAck, NoBatch, ServerTypeOK, ServerPc
  <2>5. ServerShape'
    BY <1>6 DEF SendAck, ServerAck, NoBatch, ServerShape, Serving
  <2> QED
    BY <1>6, <1>a, <2>3, <2>4, <2>5 DEF SendAck, dedupVars
<1>7. CASE SendAckFails \/ ClientDisconnects \/ ConnectionFails
  <2>1. BackToAccept /\ UNCHANGED dedupVars /\ spc \in {"receive", "persist", "ack"}
    BY <1>7 DEF SendAckFails, ClientDisconnects, ConnectionFails
  <2> QED
    BY <1>a, <2>1, BackToAcceptType
<1>8. CASE ServerExit
  <2>1. ServerTypeOK' /\ ServerShape'
    BY <1>8 DEF ServerExit, ServerTypeOK, ServerPc, ServerShape, Serving, netVars
  <2> QED
    BY <1>8, <1>a, <1>b, <2>1 DEF ServerExit, dedupVars, netVars
<1>9. CASE ServerStopSignal \/ ServerCrash
  <2>1. NetTypeOK'
    BY <1>9, EmptySeq DEF ServerStopSignal, ServerCrash, ServerCloseAll, NetTypeOK
  <2>0. 0 \in 0 .. MaxUint64 - 1 /\ << >> \in Seq(Message)
    BY BoundAssumption, EmptySeq
  <2>a. stopping' \in BOOLEAN
    BY <1>9, Zenon DEF ServerStopSignal, ServerCrash
  <2>b. /\ spc' \in ServerPc
        /\ rx' \in Seq(Message)
        /\ pos' \in Nat
        /\ latest' \in 0 .. MaxUint64 - 1
        /\ UNCHANGED <<output, reprinted>>
    <3>1. CASE ServerStopSignal
      BY <3>1 DEF ServerStopSignal, ServerTypeOK
    <3>2. CASE ServerCrash
      BY <2>0, <3>2 DEF ServerCrash, NoBatch, ServerPc
    <3> QED
      BY <1>9, <3>1, <3>2
  <2>2. ServerTypeOK'
    BY <2>a, <2>b DEF ServerTypeOK
  <2>3. ServerShape'
    BY <1>9 DEF ServerStopSignal, ServerCrash, ServerCloseAll, NoBatch, ServerShape, Serving
  <2> QED
    BY <1>9, <1>a, <2>1, <2>2, <2>3 DEF ServerStopSignal, ServerCrash, dedupVars
<1> QED
  BY <1>1, <1>2, <1>3, <1>4, <1>5, <1>6, <1>7, <1>8, <1>9 DEF Server, ServerFault

-----------------------------------------------------------------------------
(* The composition. *)

\* What a step of the client leaves to the server.
LEMMA ServerStays ==
  ASSUME ServerSideType, ServerIdle, NetGrows
  PROVE  ServerSideType'
<1>1. UNCHANGED <<spc, stopping, rx, pos, latest, output, reprinted, dedup, dedupFile>>
  BY DEF ServerIdle, serverVars, dedupVars
<1>2. ServerTypeOK' /\ DedupTypeOK'
  BY <1>1 DEF ServerSideType, ServerTypeOK, DedupTypeOK
<1>3. NetTypeOK' /\ NetTypeOK /\ Len(conns) \in Nat /\ Len(conns') \in Nat
  BY LenProperties DEF NetGrows, ServerSideType, NetTypeOK
<1>4. conns' = << >> => conns = << >>
  BY <1>3, EmptyIffLen DEF NetGrows, NetTypeOK
<1>5. conns = << >> /\ ~ listening => conns' = << >>
  BY <1>3, EmptyIffLen DEF NetGrows, NetTypeOK
<1>6. ServerShape'
  BY <1>1, <1>4, <1>5 DEF ServerSideType, ServerShape, Serving, NetGrows
<1> QED
  BY <1>2, <1>3, <1>6 DEF ServerSideType

\* A step that does not touch the client keeps its types.
LEMMA ClientStays ==
  ASSUME ClientSideType, ClientIdle
  PROVE  ClientSideType'
<1>1. UNCHANGED <<written, proc, running, ppc, cur, readPos, messages, queue, closed,
                  cpc, sending, pending, walFile, walTail, state, stateFile, usedIds>>
  BY DEF ClientIdle, clientVars, producerVars, queueVars, consumerVars, walVars, stateVars
<1>2. ClientTypeOK' /\ WalTypeOK' /\ StateTypeOK'
  BY <1>1 DEF ClientSideType, ClientTypeOK, WalTypeOK, StateTypeOK
<1>3. ClientShape'
  BY <1>1 DEF ClientSideType, ClientShape
<1> QED
  BY <1>2, <1>3 DEF ClientSideType

Budget == [client : Nat, server : Nat, net : Nat, stop : Nat]

\* Types and control points together are inductive.
THEOREM TypeInvariance == Spec => []TypeInv
<1>1. Init => TypeInv
  <2> SUFFICES ASSUME Init PROVE TypeInv
    OBVIOUS
  <2>0. /\ 0 \in 0 .. MaxLine
        /\ 0 \in 0 .. MaxUint64 - 1
        /\ 1 \in 1 .. MaxUint64
        /\ << >> \in Seq(Message)
        /\ << >> \in Seq(Connection)
        /\ << >> \in Seq(0 .. MaxUint64)
    BY BoundAssumption, EmptySeq
  <2>1. ClientTypeOK /\ WalTypeOK
    BY <2>0 DEF Init, ClientInit, WalInit, ClientTypeOK, WalTypeOK, ProducerPc, ConsumerPc
  <2>2. StateTypeOK
    BY <2>0 DEF Init, StateInit, StateTypeOK, NoState, ClientStateType
  <2>3. NetTypeOK
    BY <2>0 DEF Init, NetInit, NetTypeOK
  <2>4. DedupTypeOK
    BY <2>0 DEF Init, DedupInit, NoWatermarks, DedupTypeOK
  <2>5. ServerTypeOK
    BY <2>0 DEF Init, ServerInit, ServerTypeOK, ServerPc
  <2>6. left \in Budget
    BY BudgetAssumption DEF Init, FaultBudget, Budget
  <2>7. ClientShape
    BY DEF Init, ClientInit, ClientShape
  <2>8. ServerShape
    BY DEF Init, ServerInit, NetInit, ServerShape, Serving
  <2> QED
    BY <2>1, <2>2, <2>3, <2>4, <2>5, <2>6, <2>7, <2>8 DEF TypeInv, TypeOK, Budget
<1>2. TypeInv /\ [Next]_vars => TypeInv'
  <2> SUFFICES ASSUME TypeInv, [Next]_vars PROVE TypeInv'
    OBVIOUS
  <2>1. ClientSideType /\ ServerSideType /\ NetTypeOK /\ left \in Budget
    BY DEF TypeInv, TypeOK, ClientSideType, ServerSideType, Budget
  <2> DEFINE Goal == ClientSideType' /\ ServerSideType'
  <2>2. ASSUME WriteLine \/ Main \/ StopSignal \/ Crash \/ LoseState, ServerIdle
        PROVE  Goal
    BY <2>1, <2>2, MainSteps, ServerStays
  <2>3. ASSUME Producer \/ ProducerFault, ServerIdle
        PROVE  Goal
    <3>1. UNCHANGED netVars
      BY <2>3 DEF Producer, ProducerFault, ReadNewLines, ProducerLeavesLoop, AllocId,
                  AllocExhausted, AppendMessage, AppendOversized, Checkpoint,
                  PushMessage, PushRefused, ProducerClose, ReadFails, AllocFails,
                  AppendFails, CheckpointFails, ProducerThrows, ProducerUnchanged
    <3> QED
      BY <2>1, <2>3, <3>1, ProducerType, NetStill, ServerStays
  <2>4. ASSUME Consumer \/ SendFails \/ ConfirmFails, ServerIdle
        PROVE  Goal
    BY <2>1, <2>4, ConsumerSteps, ConsumerFrame, ServerStays
  <2>5. ASSUME Server \/ ServerFault \/ ConnectionFails \/ ServerStopSignal, ClientIdle
        PROVE  Goal
    BY <2>1, <2>5, ServerSteps, ClientStays
  <2>6. ASSUME UNCHANGED vars
        PROVE  Goal
    <3>1. ClientIdle /\ UNCHANGED <<netVars, dedupVars, serverVars>>
      BY <2>6 DEF vars, ClientIdle
    <3>2. ServerIdle /\ UNCHANGED netVars
      BY <3>1 DEF ServerIdle
    <3>3. NetGrows
      BY <2>1, <3>2, NetStill
    <3> QED
      BY <2>1, <3>1, <3>2, <3>3, ClientStays, ServerStays
  <2> HIDE DEF Goal
  <2>7. Goal
    <3>1. CASE LogGrows \/ MainStep \/ ProducerStep \/ ConsumerStep \/ ServerStep
      BY <3>1, <2>2, <2>3, <2>4, <2>5
         DEF LogGrows, MainStep, ProducerStep, ConsumerStep, ServerStep
    <3>2. CASE Fault
      BY <3>2, <2>2, <2>3, <2>4, <2>5 DEF Fault, ClientFault
    <3> QED
      BY <3>1, <3>2, <2>6 DEF Next
  <2>8. left' \in Budget
    <3>1. CASE UNCHANGED left
      BY <2>1, <3>1
    <3>2. ASSUME NEW k \in {"client", "server", "net", "stop"}, UseUp(k)
          PROVE  left' \in Budget
      BY <2>1, <3>2 DEF UseUp, Budget
    <3>3. UNCHANGED left \/ \E k \in {"client", "server", "net", "stop"} : UseUp(k)
      BY DEF Next, LogGrows, MainStep, ProducerStep, ConsumerStep, ServerStep, Fault,
             NoFault, vars
    <3> QED
      BY <3>1, <3>2, <3>3
  <2> QED
    BY <2>7, <2>8 DEF Goal, TypeInv, TypeOK, ClientSideType, ServerSideType, Budget
<1> QED
  BY <1>1, <1>2, PTL DEF Spec

\* Every variable of client, server and network keeps its type: IDs and
\* watermarks stay below the end of their range, every sequence holds messages.
THEOREM TypeCorrect == Spec => []TypeOK
<1>1. TypeInv => TypeOK
  BY DEF TypeInv
<1> QED
  BY <1>1, TypeInvariance, PTL

=============================================================================
