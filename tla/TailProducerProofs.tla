------------------------- MODULE TailProducerProofs -------------------------
(***************************************************************************)
(* Proofs about TailProducer, for any number of lines, files, truncations  *)
(* and ends of the process, and for every environment.                     *)
(*                                                                         *)
(* The inductive invariant follows the bytes: what a file looks like, how  *)
(* the position of the reader and the position in client.state lie in it,  *)
(* and what must have been stored of it by then.                           *)
(***************************************************************************)
EXTENDS TailProducer, SequenceTheorems, FiniteSetTheorems, TLAPS

-----------------------------------------------------------------------------
(* Splitting bytes at the newlines. *)

\* Two bytes of text and a newline in turn, the number of the line first.
Alternates(bytes) ==
  \A k \in DOMAIN bytes :
     /\ bytes[k] = Newline <=> k % 3 = 0
     /\ k % 3 = 1 => bytes[k] \in 1 .. MaxLine
     /\ k % 3 = 2 => bytes[k] = -bytes[k - 1]

\* A third of a number: the positions of the newlines are three times the
\* numbers of the lines.
LEMMA ThirdOf ==
  ASSUME NEW k \in Nat
  PROVE  /\ k % 3 \in {0, 1, 2}
         /\ \E n \in Nat : k = 3 * n + (k % 3)
OBVIOUS

LEMMA Remainders ==
  ASSUME NEW n \in Nat
  PROVE  /\ (3 * n) % 3 = 0
         /\ (3 * n + 1) % 3 = 1
         /\ (3 * n + 2) % 3 = 2
OBVIOUS

Threes(n) == {k \in 1 .. 3 * n : k % 3 = 0}

\* An incomplete line has no newline.
LEMMA ThreesBefore ==
  ASSUME NEW n \in Nat, NEW r \in {0, 1, 2}
  PROVE  {k \in 1 .. 3 * n + r : k % 3 = 0} = Threes(n)
<1>1. ASSUME NEW k \in 1 .. 3 * n + r, k % 3 = 0
      PROVE  k \in 1 .. 3 * n
  <2>1. PICK q \in Nat : k = 3 * q
    BY <1>1, ThirdOf
  <2> QED
    BY <2>1
<1>2. \A k \in 1 .. 3 * n : k \in 1 .. 3 * n + r
  OBVIOUS
<1> QED
  BY <1>1, <1>2 DEF Threes

\* There are n multiples of three up to 3 * n.
LEMMA ThreesUpTo ==
  ASSUME NEW n \in Nat
  PROVE  Cardinality(Threes(n)) = n
<1> DEFINE f == [j \in 1 .. n |-> 3 * j]
<1>1. f \in [1 .. n -> Threes(n)]
  <2>1. \A j \in 1 .. n : 3 * j \in 1 .. 3 * n /\ (3 * j) % 3 = 0
    BY Remainders
  <2> QED
    BY <2>1 DEF Threes
<1>2. \A i, j \in 1 .. n : f[i] = f[j] => i = j
  OBVIOUS
<1>3. \A k \in Threes(n) : \E j \in 1 .. n : f[j] = k
  <2> SUFFICES ASSUME NEW k \in Threes(n)
               PROVE  \E j \in 1 .. n : f[j] = k
    OBVIOUS
  <2>1. k \in Nat /\ k \in 1 .. 3 * n /\ k % 3 = 0
    BY DEF Threes
  <2>2. PICK j \in Nat : k = 3 * j
    BY <2>1, ThirdOf
  <2> QED
    BY <2>1, <2>2
<1> HIDE DEF f
<1>4. f \in Bijection(1 .. n, Threes(n))
  BY <1>1, <1>2, <1>3 DEF Bijection, Injection, Surjection, IsInjective
<1>5. IsFiniteSet(1 .. n) /\ Cardinality(1 .. n) = n
  BY FS_Interval
<1> QED
  BY <1>4, <1>5, FS_Bijection, Zenon DEF ExistsBijection

\* In bytes that are lines, the newlines are at 3, 6, ...
LEMMA LineEndsOfAlternating ==
  ASSUME NEW bytes \in Seq(Int), Alternates(bytes),
         NEW h \in Nat, NEW r \in {0, 1, 2}, Len(bytes) = 3 * h + r
  PROVE  LineEnds(bytes) = [n \in 1 .. h |-> 3 * n]
<1>1. Newlines(bytes) = Threes(h)
  <2>1. DOMAIN bytes = 1 .. 3 * h + r
    BY LenProperties, Zenon
  <2>2. Newlines(bytes) = {k \in 1 .. 3 * h + r : k % 3 = 0}
    BY <2>1, Zenon DEF Newlines, Alternates
  <2> QED
    BY <2>2, ThreesBefore, Zenon
<1>2. Cardinality(Newlines(bytes)) = h
  BY <1>1, ThreesUpTo
<1>3. ASSUME NEW n \in 1 .. h
      PROVE  (CHOOSE k \in Newlines(bytes) :
                 Cardinality({j \in Newlines(bytes) : j <= k}) = n) = 3 * n
  <2> DEFINE Rank(k) == Cardinality({j \in Newlines(bytes) : j <= k})
  <2>1. ASSUME NEW q \in 1 .. h
        PROVE  Rank(3 * q) = q
    <3>1. {j \in Newlines(bytes) : j <= 3 * q} = Threes(q)
      BY <1>1 DEF Threes
    <3>2. Cardinality(Threes(q)) = q
      BY ThreesUpTo
    <3> QED
      BY <3>1, <3>2, Zenon
  <2> HIDE DEF Rank
  <2>2. \A k \in Newlines(bytes) : \E q \in 1 .. h : k = 3 * q
    <3> SUFFICES ASSUME NEW k \in Threes(h)
                 PROVE  \E q \in 1 .. h : k = 3 * q
      BY <1>1
    <3>1. k \in Nat /\ k \in 1 .. 3 * h /\ k % 3 = 0
      BY DEF Threes
    <3>2. PICK q \in Nat : k = 3 * q
      BY <3>1, ThirdOf
    <3> QED
      BY <3>1, <3>2
  <2>3. 3 * n \in Newlines(bytes)
    BY <1>1, Remainders DEF Threes
  <2>4. \A k \in Newlines(bytes) : Rank(k) = n <=> k = 3 * n
    BY <2>1, <2>2
  <2>5. (CHOOSE k \in Newlines(bytes) : Rank(k) = n) = 3 * n
    BY <2>3, <2>4
  <2> QED
    BY <2>5 DEF Rank
<1> QED
  BY <1>2, <1>3 DEF LineEnds

LEMMA SubSeqOfOne ==
  ASSUME NEW S, NEW s \in Seq(S), NEW k \in 1 .. Len(s)
  PROVE  SubSeq(s, k, k) = <<s[k]>>
<1> DEFINE t == SubSeq(s, k, k)
           u == <<s[k]>>
<1>1. t \in Seq(S) /\ Len(t) = 1 /\ t[1] = s[k]
  OBVIOUS
<1>2. u \in Seq(S) /\ Len(u) = 1 /\ u[1] = s[k]
  OBVIOUS
<1> HIDE DEF t, u
<1>3. \A i \in 1 .. Len(t) : t[i] = u[i]
  BY <1>1, <1>2
<1>4. t = u
  BY <1>1, <1>2, <1>3, SeqEqual
<1> QED
  BY <1>4 DEF t, u

LEMMA SubSeqOfTwo ==
  ASSUME NEW S, NEW s \in Seq(S), NEW k \in 1 .. Len(s), k + 1 <= Len(s)
  PROVE  SubSeq(s, k, k + 1) = <<s[k], s[k + 1]>>
<1> DEFINE t == SubSeq(s, k, k + 1)
           u == <<s[k], s[k + 1]>>
<1>1. t \in Seq(S) /\ Len(t) = 2 /\ t[1] = s[k] /\ t[2] = s[k + 1]
  OBVIOUS
<1>2. u \in Seq(S) /\ Len(u) = 2 /\ u[1] = s[k] /\ u[2] = s[k + 1]
  OBVIOUS
<1> HIDE DEF t, u
<1>3. \A i \in 1 .. Len(t) : t[i] = u[i]
  BY <1>1, <1>2
<1>4. t = u
  BY <1>1, <1>2, <1>3, SeqEqual
<1> QED
  BY <1>4 DEF t, u

LEMMA SubSeqOfNone ==
  ASSUME NEW S, NEW s \in Seq(S), NEW k \in Nat
  PROVE  SubSeq(s, k + 1, k) = << >>
OBVIOUS

\* What the bytes of line n are.
LEMMA LineBytes ==
  ASSUME NEW bytes \in Seq(Int), Alternates(bytes), NEW n \in Nat
  PROVE  /\ 3 * n + 1 <= Len(bytes) => bytes[3 * n + 1] \in 1 .. MaxLine
         /\ 3 * n + 2 <= Len(bytes) => bytes[3 * n + 2] = -bytes[3 * n + 1]
<1>1. DOMAIN bytes = 1 .. Len(bytes) /\ Len(bytes) \in Nat
  BY LenProperties, Zenon
<1>2. (3 * n + 1) % 3 = 1 /\ (3 * n + 2) % 3 = 2 /\ (3 * n + 2) - 1 = 3 * n + 1
  BY Remainders
<1>3. /\ 3 * n + 1 <= Len(bytes) => 3 * n + 1 \in DOMAIN bytes
      /\ 3 * n + 2 <= Len(bytes) => 3 * n + 2 \in DOMAIN bytes
  BY <1>1
<1> QED
  BY <1>2, <1>3 DEF Alternates

\* Only the first byte of a line is positive.
LEMMA PositiveBytes ==
  ASSUME NEW bytes \in Seq(Int), Alternates(bytes), NEW n \in 1 .. Len(bytes)
  PROVE  /\ bytes[n] > 0 <=> n % 3 = 1
         /\ bytes[n] > 0 => bytes[n] \in 1 .. MaxLine
         /\ bytes[n] > 0 => \E q \in Nat : n = 3 * q + 1
<1>0. Len(bytes) \in Nat /\ DOMAIN bytes = 1 .. Len(bytes)
  BY LenProperties, Zenon
<1>1. PICK q \in Nat : n = 3 * q + (n % 3)
  BY <1>0, ThirdOf
<1>2. n % 3 \in {0, 1, 2} /\ n \in DOMAIN bytes
  BY <1>0, ThirdOf
<1>3. CASE n % 3 = 0
  BY <1>2, <1>3 DEF Alternates, Newline
<1>4. CASE n % 3 = 1
  BY <1>1, <1>2, <1>4 DEF Alternates
<1>5. CASE n % 3 = 2
  <2>1. 3 * q + 2 = n /\ 3 * q + 1 <= Len(bytes)
    BY <1>0, <1>1, <1>5
  <2>2. bytes[3 * q + 1] \in 1 .. MaxLine /\ bytes[n] = -bytes[3 * q + 1]
    BY <1>0, <2>1, LineBytes
  <2> QED
    BY <1>5, <2>2
<1> QED
  BY <1>2, <1>3, <1>4, <1>5

\* Its complete lines are the texts before them.
LEMMA LinesOfAlternating ==
  ASSUME NEW bytes \in Seq(Int), Alternates(bytes),
         NEW h \in Nat, NEW r \in {0, 1, 2}, Len(bytes) = 3 * h + r
  PROVE  CompleteLines(bytes) = [n \in 1 .. h |-> Text(bytes[3 * n - 2])]
<1>1. LineEnds(bytes) = [n \in 1 .. h |-> 3 * n]
  BY LineEndsOfAlternating
<1>2. ASSUME NEW n \in 1 .. h
      PROVE  SubSeq(bytes, LineStart(bytes, n), LineEnds(bytes)[n] - 1)
               = Text(bytes[3 * n - 2])
  <2>1. LineStart(bytes, n) = 3 * n - 2
    BY <1>1 DEF LineStart
  <2>2. LineEnds(bytes)[n] - 1 = (3 * n - 2) + 1
    BY <1>1
  <2>3. SubSeq(bytes, 3 * n - 2, (3 * n - 2) + 1)
          = <<bytes[3 * n - 2], bytes[(3 * n - 2) + 1]>>
    <3>1. 3 * n - 2 \in 1 .. Len(bytes) /\ (3 * n - 2) + 1 <= Len(bytes)
      OBVIOUS
    <3> QED
      BY <3>1, SubSeqOfTwo
  <2>4. bytes[(3 * n - 2) + 1] = -bytes[3 * n - 2]
    <3>1. n - 1 \in Nat /\ 3 * (n - 1) + 1 = 3 * n - 2
          /\ 3 * (n - 1) + 2 = (3 * n - 2) + 1 /\ 3 * (n - 1) + 2 <= Len(bytes)
      OBVIOUS
    <3> QED
      BY <3>1, LineBytes
  <2> QED
    BY <2>1, <2>2, <2>3, <2>4 DEF Text
<1> QED
  BY <1>1, <1>2 DEF CompleteLines

\* What is left is the text after the last newline, whole, cut or none.
LEMMA UnfinishedOfAlternating ==
  ASSUME NEW bytes \in Seq(Int), Alternates(bytes),
         NEW h \in Nat, NEW r \in {0, 1, 2}, Len(bytes) = 3 * h + r
  PROVE  /\ Unfinished(bytes) = SubSeq(bytes, 3 * h + 1, Len(bytes))
         /\ r = 0 => Unfinished(bytes) = << >>
         /\ r = 1 => Unfinished(bytes) = Cut(bytes[3 * h + 1])
         /\ r = 2 => Unfinished(bytes) = Text(bytes[3 * h + 1])
<1>1. LineEnds(bytes) = [n \in 1 .. h |-> 3 * n]
  BY LineEndsOfAlternating
<1>2. Len(LineEnds(bytes)) = h
  BY <1>1
<1>3. LineStart(bytes, h + 1) = 3 * h + 1
  BY <1>1 DEF LineStart
<1>4. Unfinished(bytes) = SubSeq(bytes, 3 * h + 1, Len(bytes))
  BY <1>2, <1>3 DEF Unfinished
<1>5. CASE r = 0
  <2>1. Unfinished(bytes) = << >>
    BY <1>4, <1>5, SubSeqOfNone
  <2> QED
    BY <1>4, <1>5, <2>1
<1>6. CASE r = 1
  <2>1. Unfinished(bytes) = Cut(bytes[3 * h + 1])
    BY <1>4, <1>6, SubSeqOfOne DEF Cut
  <2> QED
    BY <1>4, <1>6, <2>1
<1>7. CASE r = 2
  <2>1. 3 * h + 1 \in 1 .. Len(bytes) /\ (3 * h + 1) + 1 = Len(bytes)
    BY <1>7
  <2>2. SubSeq(bytes, 3 * h + 1, Len(bytes)) = <<bytes[3 * h + 1], bytes[Len(bytes)]>>
    <3>1. (3 * h + 1) + 1 <= Len(bytes)
      BY <2>1
    <3>2. SubSeq(bytes, 3 * h + 1, (3 * h + 1) + 1) =
            <<bytes[3 * h + 1], bytes[(3 * h + 1) + 1]>>
      BY <3>1, <2>1, SubSeqOfTwo, Zenon
    <3> QED
      BY <3>2, <2>1, Zenon
  <2>3. bytes[Len(bytes)] = -bytes[3 * h + 1]
    <3>1. 3 * h + 2 = Len(bytes)
      BY <1>7
    <3> QED
      BY <3>1, LineBytes
  <2>4. Unfinished(bytes) = Text(bytes[3 * h + 1])
    BY <1>4, <2>2, <2>3 DEF Text
  <2> QED
    BY <1>4, <1>7, <2>4
<1> QED
  BY <1>5, <1>6, <1>7

-----------------------------------------------------------------------------
(* The inductive invariant. *)

FilesAlternate == \A i \in DOMAIN files : Alternates(files[i])

\* The lines get numbers in the order they are written: within a file, and
\* from a file to the next.
FilesAscend ==
  \A i, j \in DOMAIN files : \A k \in DOMAIN files[i], m \in DOMAIN files[j] :
     /\ files[i][k] > 0
     /\ files[j][m] > 0
     /\ i < j \/ (i = j /\ k < m)
     => files[i][k] < files[j][m]

\* The writer is at the end of the last file that has anything in it; the path
\* names the newest file or none.
WriterAtEnd ==
  /\ midLine => /\ line <= MaxLine
                /\ \/ /\ Len(files[writer]) % 3 = 1
                      /\ files[writer][Len(files[writer])] = line
                   \/ /\ Len(files[writer]) % 3 = 2
                      /\ files[writer][Len(files[writer])] = -line
  /\ ~ midLine => Len(files[writer]) % 3 = 0
  /\ \A i \in DOMAIN files : \A k \in DOMAIN files[i] :
        \/ files[i][k] < line
        \/ midLine /\ i = writer /\ files[i][k] = line
  /\ \A i \in DOMAIN files : i > writer => files[i] = << >>
  /\ path \in {0, Len(files)}
  /\ "lag" \notin env => writer = Len(files)
  /\ path = 0 => Len(files) < MaxFiles

FilesOK == FilesAlternate /\ FilesAscend /\ WriterAtEnd

\* What the round keeps where; a switch is due only when the open file is no
\* longer the newest; a position inside a line is that of a flushed line, and
\* the switch follows.
ControlOK ==
  /\ pc = "down" => /\ fd = 0
                    /\ offset = 0
                    /\ pending = << >>
                    /\ "reader" \notin stale
  /\ Up => fd # 0
  /\ pc # "store" => lines = << >>
  /\ pc \notin {"fstat", "pread"} => ~ replaced
  /\ pc \in {"fstat", "pread", "down"} => ~ switchOnNext
  /\ replaced \/ switchOnNext => fd < Len(files)
  /\ Len(pending) <= 2
  /\ Alternates(pending)
  /\ CommittedOffset % 3 # 0 => switchOnNext /\ pending = << >>
  /\ unclean <= ends

\* The reader's position is one in its file: pending is what it read after the
\* last newline, and every line before that is stored or returned.
InStep ==
  /\ offset <= Len(files[fd])
  /\ pending = SubSeq(files[fd], CommittedOffset + 1, offset)
  /\ \A k \in 1 .. CommittedOffset :
        files[fd][k] > 0 =>
          files[fd][k] \in LinesIn(Range(stored) \cup Range(lines))

\* The file was truncated under the reader, and is too short for its position.
Shrunk ==
  /\ Len(files[fd]) < offset
  /\ CommittedOffset # 0 => Len(files[fd]) < CommittedOffset
  /\ "reader" \in stale \/ fd < writer

ReaderOK == Up => InStep \/ Shrunk

\* The same for the position in client.state, in the file at the path.
CheckpointInStep ==
  /\ ckpt.offset <= Len(files[path])
  /\ ckpt.offset % 3 = 0
  /\ \A k \in 1 .. ckpt.offset :
        files[path][k] > 0 => files[path][k] \in LinesIn(Range(stored))

CheckpointShrunk == Len(files[path]) < ckpt.offset /\ "checkpoint" \in stale

CheckpointOK ==
  /\ path # 0 /\ ckpt.inode \in {0, path} => CheckpointInStep \/ CheckpointShrunk
  /\ ckpt.inode = 0 => ckpt.offset = 0 \/ path = 1

WholeLine == {Text(l) : l \in 1 .. MaxLine} \cup {Cut(l) : l \in 1 .. MaxLine}

AllWhole == Range(stored) \subseteq WholeLine /\ Range(lines) \subseteq WholeLine

IInv == /\ TypeOK
        /\ FilesOK
        /\ ControlOK
        /\ ReaderOK
        /\ CheckpointOK
        /\ AllWhole

-----------------------------------------------------------------------------
(* What a pread finds. *)

LEMMA MinOfTwo ==
  ASSUME NEW a \in Nat, NEW b \in Nat
  PROVE  Min({a, b}) = IF a <= b THEN a ELSE b
BY DEF Min

LEMMA ConstantTypes ==
  /\ MaxLine \in Nat /\ MaxLine >= 1
  /\ MaxFiles \in Nat /\ MaxFiles >= 1
  /\ MaxTruncate \in Nat
  /\ MaxEnds \in Nat
BY TailAssumption

LEMMA BytesAreNumbers ==
  /\ Byte \subseteq Int
  /\ \A b \in Byte : b > 0 => b \in 1 .. MaxLine
  /\ \A l \in 1 .. MaxLine : l \in Byte /\ -l \in Byte
  /\ Newline \in Byte
BY ConstantTypes DEF Byte, Newline

\* More texts are of more lines.
LEMMA LinesInMore ==
  ASSUME NEW S, NEW T, S \subseteq T
  PROVE  LinesIn(S) \subseteq LinesIn(T)
BY DEF LinesIn

LEMMA LinesInUnion ==
  ASSUME NEW S, NEW T
  PROVE  LinesIn(S \cup T) = LinesIn(S) \cup LinesIn(T)
BY DEF LinesIn

\* A part of a sequence that begins behind position a.
LEMMA PartAfter ==
  ASSUME NEW S, NEW s \in Seq(S), NEW a \in Nat, NEW b \in Nat, b <= Len(s),
         NEW w, w = SubSeq(s, a + 1, b)
  PROVE  /\ w \in Seq(S)
         /\ Len(w) = IF a <= b THEN b - a ELSE 0
         /\ \A n \in 1 .. Len(w) : w[n] = s[a + n]
<1>1. w \in Seq(S)
  OBVIOUS
<1>2. Len(w) = IF a <= b THEN b - a ELSE 0
  OBVIOUS
<1>3. \A n \in 1 .. Len(w) : w[n] = s[a + n]
  OBVIOUS
<1> QED
  BY <1>1, <1>2, <1>3

LEMMA RestAfter ==
  ASSUME NEW S, NEW s \in Seq(S), NEW a \in Nat, NEW b \in Nat,
         a <= b, b <= Len(s)
  PROVE  /\ SubSeq(s, a + 1, b) \in Seq(S)
         /\ Len(SubSeq(s, a + 1, b)) = b - a
         /\ \A n \in 1 .. b - a : SubSeq(s, a + 1, b)[n] = s[a + n]
<1> DEFINE w == SubSeq(s, a + 1, b)
<1>1. w = SubSeq(s, a + 1, b)
  OBVIOUS
<1> HIDE DEF w
<1>2. w \in Seq(S) /\ \A n \in 1 .. Len(w) : w[n] = s[a + n]
  BY <1>1, PartAfter
<1>3. Len(w) = IF a <= b THEN b - a ELSE 0
  BY <1>1, PartAfter
<1>4. Len(w) = b - a
  BY <1>3
<1> QED
  BY <1>1, <1>2, <1>4

LEMMA ParityShift ==
  ASSUME NEW c \in Nat, NEW k \in Nat, c % 3 = 0
  PROVE  (c + k) % 3 = k % 3
<1>1. PICK n \in Nat : c = 3 * n
  BY ThirdOf
<1>2. PICK m \in Nat : k = 3 * m + (k % 3)
  BY ThirdOf
<1>3. k % 3 \in {0, 1, 2} /\ n + m \in Nat
  BY ThirdOf
<1>4. c + k = 3 * (n + m) + (k % 3)
  BY <1>1, <1>2, <1>3
<1> QED
  BY <1>3, <1>4, Remainders

\* A part of lines that begins at a line is lines.
LEMMA AlternatesAfter ==
  ASSUME NEW s \in Seq(Byte), Alternates(s), NEW c \in Nat, c % 3 = 0,
         NEW w \in Seq(Byte), c + Len(w) <= Len(s),
         \A n \in 1 .. Len(w) : w[n] = s[c + n]
  PROVE  Alternates(w)
<1>1. /\ DOMAIN w = 1 .. Len(w) /\ DOMAIN s = 1 .. Len(s)
      /\ Len(w) \in Nat /\ Len(s) \in Nat
  BY LenProperties, Zenon
<1> SUFFICES ASSUME NEW n \in 1 .. Len(w)
             PROVE  /\ w[n] = Newline <=> n % 3 = 0
                    /\ n % 3 = 1 => w[n] \in 1 .. MaxLine
                    /\ n % 3 = 2 => w[n] = -w[n - 1]
  BY <1>1, Zenon DEF Alternates
<1>2. c + n \in DOMAIN s /\ (c + n) % 3 = n % 3 /\ w[n] = s[c + n]
  BY <1>1, ParityShift
<1>3. /\ s[c + n] = Newline <=> n % 3 = 0
      /\ n % 3 = 1 => s[c + n] \in 1 .. MaxLine
      /\ n % 3 = 2 => s[c + n] = -s[c + n - 1]
  <2> DEFINE k == c + n
  <2>1. k \in DOMAIN s /\ k % 3 = n % 3
    BY <1>2
  <2> HIDE DEF k
  <2>2. /\ s[k] = Newline <=> k % 3 = 0
        /\ k % 3 = 1 => s[k] \in 1 .. MaxLine
        /\ k % 3 = 2 => s[k] = -s[k - 1]
    BY <2>1, Zenon DEF Alternates
  <2>3. /\ s[k] = Newline <=> n % 3 = 0
        /\ n % 3 = 1 => s[k] \in 1 .. MaxLine
        /\ n % 3 = 2 => s[k] = -s[k - 1]
    BY <2>1, <2>2, Zenon
  <2> QED
    BY <2>3 DEF k
<1>4. n % 3 = 2 => w[n - 1] = s[c + n - 1]
  <2>1. n % 3 = 2 => n # 1
    OBVIOUS
  <2>2. n # 1 => n - 1 \in 1 .. Len(w) /\ c + (n - 1) = c + n - 1
    BY <1>1
  <2> QED
    BY <2>1, <2>2
<1> QED
  BY <1>2, <1>3, <1>4

\* TypeOK in parts: what the writer sets, what the reader sets, what the
\* producer sets, and the counters.
FileTypes == /\ files \in Seq(Seq(Byte))
             /\ Len(files) \in 1 .. MaxFiles
             /\ path \in 0 .. Len(files)
             /\ writer \in 1 .. Len(files)
             /\ line \in 1 .. MaxLine + 1
             /\ midLine \in BOOLEAN

ReaderTypes == /\ fd \in 0 .. Len(files)
               /\ offset \in Nat
               /\ pending \in Seq(Byte)
               /\ CommittedOffset >= 0
               /\ size \in Nat

FlagTypes == switchOnNext \in BOOLEAN /\ replaced \in BOOLEAN

ProducerTypes == /\ lines \in Seq(Seq(Byte))
                 /\ pc \in {"down", "top", "fstat", "pread", "store", "checkpoint"}
                 /\ stored \in Seq(Seq(Byte))
                 /\ ckpt \in [offset : Nat, inode : 0 .. Len(files)]

CountTypes == /\ stale \subseteq {"reader", "checkpoint"}
              /\ truncated \in 0 .. MaxTruncate
              /\ ends \in 0 .. MaxEnds
              /\ unclean \in 0 .. MaxEnds
              /\ env \in Environments

LEMMA TypeParts ==
  TypeOK <=> FileTypes /\ ReaderTypes /\ FlagTypes /\ ProducerTypes /\ CountTypes
BY Zenon DEF TypeOK, FileTypes, ReaderTypes, FlagTypes, ProducerTypes, CountTypes

LEMMA TypePartsPrimed ==
  FileTypes' /\ ReaderTypes' /\ FlagTypes' /\ ProducerTypes' /\ CountTypes'
    => TypeOK'
BY Zenon DEF TypeOK, FileTypes, ReaderTypes, FlagTypes, ProducerTypes, CountTypes

LEMMA FileTyped ==
  ASSUME IInv, NEW i \in 1 .. Len(files)
  PROVE  files[i] \in Seq(Byte) /\ Len(files[i]) \in Nat
<1>1. files \in Seq(Seq(Byte))
  BY TypeParts, Zenon DEF IInv, FileTypes
<1>2. files[i] \in Seq(Byte)
  BY <1>1, ElementOfSeq, Zenon
<1> QED
  BY <1>2, LenProperties, Zenon

\* What TypeOK says of the variables that most steps speak of.
LEMMA CoreTypes ==
  ASSUME IInv
  PROVE  /\ files \in Seq(Seq(Byte))
         /\ Len(files) \in Nat
         /\ DOMAIN files = 1 .. Len(files)
         /\ path \in 0 .. Len(files)
         /\ fd \in 0 .. Len(files)
         /\ writer \in 1 .. Len(files)
         /\ offset \in Nat
         /\ pending \in Seq(Byte)
         /\ Len(pending) \in Nat
         /\ ckpt.offset \in Nat
         /\ stored \in Seq(Seq(Byte))
         /\ Len(stored) \in Nat
         /\ DOMAIN stored = 1 .. Len(stored)
         /\ stale \subseteq {"reader", "checkpoint"}
         /\ truncated \in 0 .. MaxTruncate
<1>1. FileTypes /\ ReaderTypes /\ ProducerTypes /\ CountTypes
  BY TypeParts, Zenon DEF IInv
<1>2. files \in Seq(Seq(Byte))
  BY <1>1, Zenon DEF FileTypes
<1>3. Len(files) \in Nat /\ DOMAIN files = 1 .. Len(files)
  BY <1>2, LenProperties, Zenon
<1>4. pending \in Seq(Byte)
  BY <1>1, Zenon DEF ReaderTypes
<1>5. Len(pending) \in Nat
  BY <1>4, LenProperties, Zenon
<1>6. stored \in Seq(Seq(Byte))
  BY <1>1, Zenon DEF ProducerTypes
<1>7. Len(stored) \in Nat /\ DOMAIN stored = 1 .. Len(stored)
  BY <1>6, LenProperties, Zenon
<1>8. ckpt.offset \in Nat
  BY <1>1 DEF ProducerTypes
<1>9. /\ path \in 0 .. Len(files)
      /\ fd \in 0 .. Len(files)
      /\ writer \in 1 .. Len(files)
      /\ offset \in Nat
      /\ stale \subseteq {"reader", "checkpoint"}
      /\ truncated \in 0 .. MaxTruncate
  BY <1>1, Zenon DEF FileTypes, ReaderTypes, CountTypes
<1> QED
  BY <1>2, <1>3, <1>4, <1>5, <1>6, <1>7, <1>8, <1>9

\* The last line stored, if there is one, is one of those stored.
LEMMA LastOfStored ==
  ASSUME IInv, stored # << >>
  PROVE  Len(stored) \in DOMAIN stored
<1>1. stored \in Seq(Seq(Byte)) /\ Len(stored) \in Nat
      /\ DOMAIN stored = 1 .. Len(stored)
  BY CoreTypes
<1>2. Len(stored) # 0
  BY <1>1, EmptySeq, Zenon
<1> QED
  BY <1>1, <1>2

LEMMA PositionBounds ==
  ASSUME IInv
  PROVE  /\ CommittedOffset \in Nat
         /\ CommittedOffset + Len(pending) = offset
         /\ Up => fd \in 1 .. Len(files) /\ files[fd] \in Seq(Byte)
<1>1. /\ offset \in Nat
      /\ Len(pending) \in Nat
      /\ Len(files) \in Nat
      /\ fd \in 0 .. Len(files)
  BY CoreTypes
<1>2. CommittedOffset >= 0
  BY Zenon DEF IInv, TypeOK
<1>3. CommittedOffset \in Nat /\ CommittedOffset + Len(pending) = offset
  BY <1>1, <1>2 DEF CommittedOffset
<1>4. Up => fd # 0
  BY Zenon DEF IInv, ControlOK
<1>5. Up => fd \in 1 .. Len(files)
  BY <1>1, <1>4
<1>6. Up => files[fd] \in Seq(Byte)
  BY <1>5, FileTyped
<1> QED
  BY <1>3, <1>5, <1>6

\* The bytes that pread completes are those of the file after the committed
\* position, or, if the file has shrunk, the old half line alone.
LEMMA ReadBytes ==
  ASSUME IInv, pc = "pread"
  PROVE  LET bytes == pending \o Chunk
         IN  /\ bytes \in Seq(Byte)
             /\ Alternates(bytes)
             /\ CommittedOffset % 3 = 0
             /\ offset + Len(Chunk) = CommittedOffset + Len(bytes)
             /\ InStep => /\ CommittedOffset + Len(bytes) <= Len(files[fd])
                          /\ \A n \in 1 .. Len(bytes) :
                                bytes[n] = files[fd][CommittedOffset + n]
                          /\ Len(bytes) >= Len(pending)
                          /\ size = Len(files[fd]) =>
                               CommittedOffset + Len(bytes) = Len(files[fd])
             /\ ~ InStep => Chunk = << >> /\ bytes = pending
<1> DEFINE F == files[fd]
           c == CommittedOffset
           m == IF size <= Len(F) THEN size ELSE Len(F)
           bytes == pending \o Chunk
<1>1. Up /\ fd \in 1 .. Len(files) /\ F \in Seq(Byte)
  BY PositionBounds DEF Up
<1>2. c \in Nat /\ c + Len(pending) = offset
  BY PositionBounds
<1>3. /\ size \in Nat
      /\ offset \in Nat
      /\ pending \in Seq(Byte)
      /\ Len(pending) \in Nat
      /\ MaxLine \in Nat
  <2>1. /\ size \in Nat
        /\ offset \in Nat
        /\ pending \in Seq(Byte)
    BY DEF IInv, TypeOK
  <2>2. Len(pending) \in Nat
    BY <2>1, LenProperties, Zenon
  <2>3. MaxLine \in Nat
    BY ConstantTypes
  <2> QED
    BY <2>1, <2>2, <2>3
<1>4. c % 3 = 0
  BY DEF IInv, ControlOK
<1> HIDE DEF F
<1>0. Len(F) \in Nat
  BY <1>1
<1>5. m \in Nat /\ m <= Len(F) /\ (size = Len(F) => m = Len(F))
  BY <1>3, <1>0
<1>6. pending \in Seq(Byte)
  BY <1>3
<1>7. Chunk = SubSeq(F, offset + 1, m)
  <2>1. Min({size, Len(F)}) = m
    BY <1>3, <1>0, MinOfTwo
  <2> QED
    BY <2>1 DEF Chunk, F
<1> HIDE DEF m, c
<1>8. /\ Chunk \in Seq(Byte)
      /\ Len(Chunk) = IF offset <= m THEN m - offset ELSE 0
      /\ \A n \in 1 .. Len(Chunk) : Chunk[n] = F[offset + n]
  <2>1. offset \in Nat /\ m \in Nat /\ m <= Len(F) /\ F \in Seq(Byte)
    BY <1>1, <1>3, <1>5
  <2>2. Chunk \in Seq(Byte)
    BY <2>1, <1>7, PartAfter
  <2>3. Len(Chunk) = IF offset <= m THEN m - offset ELSE 0
    BY <2>1, <1>7, PartAfter
  <2>4. \A n \in 1 .. Len(Chunk) : Chunk[n] = F[offset + n]
    BY <2>1, <1>7, PartAfter
  <2> QED
    BY <2>2, <2>3, <2>4
<1>9. /\ bytes \in Seq(Byte)
      /\ Len(bytes) = Len(pending) + Len(Chunk)
      /\ offset + Len(Chunk) = c + Len(bytes)
  BY <1>2, <1>3, <1>6, <1>8
<1>10. CASE InStep
  <2>1. offset <= Len(F) /\ pending = SubSeq(F, c + 1, offset)
    BY <1>10 DEF InStep, c, F
  <2>2. Len(Chunk) = IF offset <= m THEN m - offset ELSE 0
    BY <1>8
  <2>3. c + Len(bytes) <= Len(F)
    BY <2>1, <2>2, <1>2, <1>3, <1>5, <1>9, <1>1
  <2>4. ASSUME NEW n \in 1 .. Len(bytes)
        PROVE  bytes[n] = F[c + n]
    <3>1. CASE n <= Len(pending)
      <4>1. bytes[n] = pending[n]
        BY <3>1, <1>6, <1>8
      <4>2. pending[n] = F[c + n]
        BY <3>1, <2>1, <1>1, <1>2, <1>3
      <4> QED
        BY <4>1, <4>2
    <3>2. CASE n > Len(pending)
      <4>1. n - Len(pending) \in 1 .. Len(Chunk)
        BY <3>2, <1>9, <1>6, <1>8
      <4>2. bytes[n] = Chunk[n - Len(pending)]
        BY <3>2, <1>6, <1>8, <1>9
      <4>3. Chunk[n - Len(pending)] = F[offset + (n - Len(pending))]
        BY <4>1, <1>8
      <4>4. offset + (n - Len(pending)) = c + n
        BY <1>2, <1>3
      <4> QED
        BY <4>2, <4>3, <4>4
    <3> QED
      BY <3>1, <3>2, <1>3
  <2>5. Alternates(bytes)
    <3>1. fd \in DOMAIN files
      BY <1>1, CoreTypes
    <3>2. Alternates(F)
      BY <3>1 DEF IInv, FilesOK, FilesAlternate, F
    <3> QED
      BY <3>2, <2>3, <2>4, <1>1, <1>2, <1>4, <1>9, AlternatesAfter
  <2>6. size = Len(F) => c + Len(bytes) = Len(F)
    BY <2>1, <2>2, <1>1, <1>2, <1>3, <1>5, <1>9
  <2>7. Len(bytes) >= Len(pending)
    BY <1>9, <1>6, <1>8
  <2> QED
    BY <1>10, <2>3, <2>4, <2>5, <2>6, <2>7, <1>4, <1>9 DEF c, F
<1>11. CASE ~ InStep
  <2>1. Len(F) < offset
    BY <1>11, <1>1 DEF IInv, ReaderOK, Shrunk, F
  <2>2. Chunk = << >>
    BY <2>1, <1>1, <1>3, <1>5, <1>8
  <2>3. bytes = pending
    BY <2>2, <1>6
  <2>4. Alternates(pending)
    BY DEF IInv, ControlOK
  <2> QED
    BY <1>11, <2>2, <2>3, <2>4, <1>4, <1>9 DEF c
<1> QED
  BY <1>10, <1>11

LEMMA EmptyAlternates == Alternates(<< >>)
BY DEF Alternates

LEMMA AppendOne ==
  ASSUME NEW S, NEW s \in Seq(S), NEW e \in S
  PROVE  /\ s \o <<e>> \in Seq(S)
         /\ Len(s \o <<e>>) = Len(s) + 1
         /\ \A n \in 1 .. Len(s) : (s \o <<e>>)[n] = s[n]
         /\ (s \o <<e>>)[Len(s) + 1] = e
OBVIOUS

\* One call of pread, line by line: line n of the round begins at position
\* 3 * n - 2 after the committed one.  An unfinished line stays pending, or is
\* the last line of the round, perhaps cut, when the file has been replaced.
LEMMA PreadStep ==
  ASSUME IInv, ReadPread
  PROVE  LET bytes == pending \o Chunk
             L == Len(bytes)
             h == Len(lines')
         IN  /\ L \in Nat
             /\ h \in Nat
             /\ lines' \in Seq(WholeLine)
             /\ \A n \in 1 .. h :
                   /\ 3 * n - 2 <= L
                   /\ bytes[3 * n - 2] \in 1 .. MaxLine
                   /\ \/ lines'[n] = Text(bytes[3 * n - 2])
                      \/ lines'[n] = Cut(bytes[3 * n - 2]) /\ replaced /\ L = 3 * n - 2
             /\ offset' = CommittedOffset + L
             /\ \/ /\ pending' = << >>
                   /\ L = 3 * h \/ (replaced /\ (L = 3 * h - 1 \/ L = 3 * h - 2))
                \/ /\ pending' = SubSeq(bytes, 3 * h + 1, L)
                   /\ L = 3 * h + 1 \/ L = 3 * h + 2
                   /\ ~ replaced
<1> DEFINE bytes == pending \o Chunk
           L == Len(bytes)
           W(n) == Text(bytes[3 * n - 2])
<1>1. /\ bytes \in Seq(Byte)
      /\ Alternates(bytes)
      /\ offset + Len(Chunk) = CommittedOffset + L
  BY ReadBytes DEF ReadPread
<1>2. /\ offset' = CommittedOffset + L
      /\ lines' = CompleteLines(bytes)
                    \o IF replaced /\ Unfinished(bytes) # << >>
                       THEN <<Unfinished(bytes)>> ELSE << >>
      /\ pending' = IF replaced /\ Unfinished(bytes) # << >>
                    THEN << >> ELSE Unfinished(bytes)
  BY <1>1 DEF ReadPread, Pread
<1> HIDE DEF bytes
<1>3. MaxLine \in Nat /\ bytes \in Seq(Int) /\ L \in Nat /\ DOMAIN bytes = 1 .. L
  <2>1. bytes \in Seq(Int)
    BY <1>1, BytesAreNumbers, SeqMonotonic, Zenon
  <2> QED
    BY <1>1, <2>1, ConstantTypes
<1> HIDE DEF L
<1>4. PICK q \in Nat : L = 3 * q + (L % 3)
  BY <1>3, ThirdOf
<1> DEFINE e == L % 3
<1>5. e \in {0, 1, 2} /\ L = 3 * q + e
  BY <1>3, <1>4, ThirdOf
<1> HIDE DEF e
<1>6. CompleteLines(bytes) = [n \in 1 .. q |-> W(n)]
  BY <1>1, <1>3, <1>5, LinesOfAlternating DEF L
<1>7. /\ Unfinished(bytes) = SubSeq(bytes, 3 * q + 1, L)
      /\ e = 0 => Unfinished(bytes) = << >>
      /\ e = 1 => Unfinished(bytes) = Cut(bytes[3 * q + 1])
      /\ e = 2 => Unfinished(bytes) = Text(bytes[3 * q + 1])
  BY <1>1, <1>3, <1>5, UnfinishedOfAlternating DEF L
<1>8. \A n \in 1 .. q + 1 : 3 * n - 2 <= L => bytes[3 * n - 2] \in 1 .. MaxLine
  <2> SUFFICES ASSUME NEW n \in 1 .. q + 1, 3 * n - 2 <= L
               PROVE  bytes[3 * n - 2] \in 1 .. MaxLine
    OBVIOUS
  <2>1. n - 1 \in Nat /\ 3 * (n - 1) + 1 = 3 * n - 2
    BY <1>5
  <2> QED
    BY <2>1, <1>1, <1>3, LineBytes DEF L
<1> DEFINE C == CompleteLines(bytes)
<1>9. /\ C \in Seq(WholeLine)
      /\ Len(C) = q
      /\ \A n \in 1 .. q : /\ C[n] = W(n)
                           /\ 3 * n - 2 <= L
                           /\ bytes[3 * n - 2] \in 1 .. MaxLine
  <2>1. \A n \in 1 .. q : /\ 3 * n - 2 <= L
                          /\ bytes[3 * n - 2] \in 1 .. MaxLine
                          /\ W(n) \in WholeLine
    <3> SUFFICES ASSUME NEW n \in 1 .. q
                 PROVE  /\ 3 * n - 2 <= L
                        /\ bytes[3 * n - 2] \in 1 .. MaxLine
                        /\ W(n) \in WholeLine
      OBVIOUS
    <3>1. 3 * n - 2 <= L /\ n \in 1 .. q + 1
      BY <1>5, <1>3
    <3>2. bytes[3 * n - 2] \in 1 .. MaxLine
      BY <3>1, <1>8
    <3> QED
      BY <3>1, <3>2 DEF WholeLine
  <2> HIDE DEF W
  <2>2. [n \in 1 .. q |-> W(n)] \in Seq(WholeLine)
    BY <2>1
  <2>3. C = [n \in 1 .. q |-> W(n)]
    BY <1>6 DEF C
  <2> HIDE DEF C
  <2>4. Len(C) = q /\ \A n \in 1 .. q : C[n] = W(n)
    BY <2>2, <2>3
  <2> QED
    BY <2>1, <2>2, <2>3, <2>4, Zenon
<1> HIDE DEF C
<1>10. CASE e = 0
  <2>1. Unfinished(bytes) = << >>
    BY <1>7, <1>10
  <2>2. lines' = C /\ pending' = << >>
    BY <2>1, <1>2, <1>9 DEF C
  <2>3. L = 3 * q
    BY <1>5, <1>10
  <2> QED
    BY <2>2, <2>3, <1>2, <1>3, <1>9 DEF bytes, L
<1>11. e # 0 => /\ 3 * q + 1 <= L
                /\ bytes[3 * q + 1] \in 1 .. MaxLine
                /\ Unfinished(bytes) \in WholeLine
                /\ Unfinished(bytes) # << >>
  <2> SUFFICES ASSUME e # 0
               PROVE  /\ 3 * q + 1 <= L
                      /\ bytes[3 * q + 1] \in 1 .. MaxLine
                      /\ Unfinished(bytes) \in WholeLine
                      /\ Unfinished(bytes) # << >>
    OBVIOUS
  <2>1. 3 * q + 1 <= L /\ q + 1 \in 1 .. q + 1 /\ 3 * (q + 1) - 2 = 3 * q + 1
    BY <1>5
  <2>2. bytes[3 * q + 1] \in 1 .. MaxLine
    BY <2>1, <1>8
  <2>3. \/ Unfinished(bytes) = Cut(bytes[3 * q + 1])
        \/ Unfinished(bytes) = Text(bytes[3 * q + 1])
    BY <1>5, <1>7
  <2>4. Unfinished(bytes) # << >>
    <3>1. \A b : Cut(b) # << >> /\ Text(b) # << >>
      BY DEF Cut, Text
    <3> QED
      BY <2>3, <3>1, Zenon
  <2> QED
    BY <2>1, <2>2, <2>3, <2>4 DEF WholeLine
<1>12. CASE e # 0 /\ replaced
  <2> DEFINE u == Unfinished(bytes)
  <2>1. lines' = C \o <<u>> /\ pending' = << >>
    BY <1>2, <1>11, <1>12 DEF C
  <2>2. u \in WholeLine
    BY <1>11, <1>12
  <2> HIDE DEF u, W
  <2>3. /\ lines' \in Seq(WholeLine)
        /\ Len(lines') = q + 1
        /\ \A n \in 1 .. q : lines'[n] = C[n]
        /\ lines'[q + 1] = u
    <3>1. /\ C \o <<u>> \in Seq(WholeLine)
          /\ Len(C \o <<u>>) = Len(C) + 1
          /\ \A n \in 1 .. Len(C) : (C \o <<u>>)[n] = C[n]
          /\ (C \o <<u>>)[Len(C) + 1] = u
      BY <2>2, <1>9, AppendOne, Zenon
    <3> QED
      BY <3>1, <2>1, <1>9, Zenon
  <2>4. /\ \/ L = 3 * (q + 1) - 1
           \/ L = 3 * (q + 1) - 2
        /\ 3 * (q + 1) - 2 = 3 * q + 1
    BY <1>5, <1>12
  <2>5. \/ u = Text(bytes[3 * (q + 1) - 2])
        \/ u = Cut(bytes[3 * (q + 1) - 2]) /\ replaced /\ L = 3 * (q + 1) - 2
    BY <2>4, <1>5, <1>7, <1>12 DEF u
  <2>6. ASSUME NEW n \in 1 .. q + 1
        PROVE  /\ 3 * n - 2 <= L
               /\ bytes[3 * n - 2] \in 1 .. MaxLine
               /\ \/ lines'[n] = Text(bytes[3 * n - 2])
                  \/ lines'[n] = Cut(bytes[3 * n - 2]) /\ replaced /\ L = 3 * n - 2
    <3>1. CASE n \in 1 .. q
      BY <3>1, <2>3, <1>9, Zenon DEF W
    <3>2. CASE n = q + 1
      <4>1. 3 * n - 2 <= L /\ bytes[3 * n - 2] \in 1 .. MaxLine
        BY <3>2, <2>4, <1>11, <1>12
      <4>2. lines'[n] = u
        BY <3>2, <2>3
      <4> QED
        BY <3>2, <4>1, <4>2, <2>5
    <3> QED
      BY <3>1, <3>2
  <2>7. q + 1 \in Nat
    OBVIOUS
  <2>8. L = 3 * Len(lines') - 1 \/ L = 3 * Len(lines') - 2
    BY <2>3, <2>4
  <2>9. \A n \in 1 .. Len(lines') :
           /\ 3 * n - 2 <= L
           /\ bytes[3 * n - 2] \in 1 .. MaxLine
           /\ \/ lines'[n] = Text(bytes[3 * n - 2])
              \/ lines'[n] = Cut(bytes[3 * n - 2]) /\ replaced /\ L = 3 * n - 2
    BY <2>3, <2>6, Zenon
  <2>10. Len(lines') \in Nat
    BY <2>3, <2>7
  <2>11. offset' = CommittedOffset + L
    BY <1>2
  <2>12. /\ pending' = << >>
         /\ \/ L = 3 * Len(lines')
            \/ replaced /\ (L = 3 * Len(lines') - 1 \/ L = 3 * Len(lines') - 2)
    BY <2>1, <2>8, <1>12, Zenon
  <2>13. L \in Nat /\ lines' \in Seq(WholeLine)
    BY <2>3, <1>3
  <2> HIDE DEF L, bytes
  <2> QED
    BY <2>9, <2>10, <2>11, <2>12, <2>13 DEF bytes, L
<1>13. CASE e # 0 /\ ~ replaced
  <2>0. lines' = C \o << >> /\ pending' = Unfinished(bytes)
    BY <1>2, <1>13, Zenon DEF C
  <2>1. lines' = C /\ pending' = SubSeq(bytes, 3 * q + 1, L)
    <3>1. C \o << >> = C
      BY <1>9
    <3> QED
      BY <2>0, <3>1, <1>7, Zenon
  <2>2. Len(lines') = q /\ (L = 3 * q + 1 \/ L = 3 * q + 2)
    BY <2>1, <1>5, <1>9, <1>13
  <2>3. \A n \in 1 .. Len(lines') :
           /\ 3 * n - 2 <= L
           /\ bytes[3 * n - 2] \in 1 .. MaxLine
           /\ lines'[n] = Text(bytes[3 * n - 2])
    BY <2>1, <2>2, <1>9
  <2>4. pending' = SubSeq(bytes, 3 * Len(lines') + 1, L) /\ Len(lines') \in Nat
        /\ (L = 3 * Len(lines') + 1 \/ L = 3 * Len(lines') + 2)
        /\ lines' \in Seq(WholeLine)
    BY <2>1, <2>2, <1>9
  <2> QED
    BY <2>3, <2>4, <1>2, <1>3, <1>13, Zenon DEF bytes, L
<1> QED
  BY <1>10, <1>12, <1>13

-----------------------------------------------------------------------------
(* The steps of the producer keep the invariant. *)

LEMMA WholeLinesTyped ==
  ASSUME NEW s \in Seq(WholeLine)
  PROVE  s \in Seq(Seq(Byte)) /\ Range(s) \subseteq WholeLine
<1>1. WholeLine \subseteq Seq(Byte)
  <2> SUFFICES ASSUME NEW l \in 1 .. MaxLine
               PROVE  Text(l) \in Seq(Byte) /\ Cut(l) \in Seq(Byte)
    BY DEF WholeLine
  <2>1. l \in Byte /\ -l \in Byte
    BY BytesAreNumbers
  <2>2. \A a, b \in Byte : <<a>> \in Seq(Byte) /\ <<a, b>> \in Seq(Byte)
    OBVIOUS
  <2> QED
    BY <2>1, <2>2 DEF Text, Cut
<1>2. s \in Seq(Seq(Byte))
  BY <1>1, SeqMonotonic, Zenon
<1>3. \A k \in DOMAIN s : s[k] \in WholeLine
  OBVIOUS
<1> QED
  BY <1>2, <1>3 DEF Range

LEMMA FilesKept ==
  ASSUME FilesOK, UNCHANGED <<files, path, writer, line, midLine, env>>
  PROVE  FilesOK'
<1>1. FilesAlternate'
  BY DEF FilesOK, FilesAlternate, Alternates
<1>2. FilesAscend'
  BY DEF FilesOK, FilesAscend
<1>3. WriterAtEnd'
  BY DEF FilesOK, WriterAtEnd
<1> QED
  BY <1>1, <1>2, <1>3 DEF FilesOK

\* A reader started from the checkpoint starts after a newline, with everything
\* before it stored.
LEMMA StartPosition ==
  ASSUME IInv, path # 0
  PROVE  LET s == StartOffset(ckpt.offset, ckpt.inode)
         IN  /\ path \in 1 .. Len(files)
             /\ s \in Nat
             /\ s <= Len(files[path])
             /\ s % 3 = 0
             /\ \A k \in 1 .. s : files[path][k] > 0 =>
                                     files[path][k] \in LinesIn(Range(stored))
<1>1. /\ path \in 1 .. Len(files)
      /\ files[path] \in Seq(Byte)
      /\ ckpt.offset \in Nat
  <2>1. path \in 1 .. Len(files) /\ ckpt.offset \in Nat
    BY CoreTypes
  <2> QED
    BY <2>1, FileTyped
<1>2. Len(files[path]) \in Nat
  BY <1>1, LenProperties, Zenon
<1>3. CASE ckpt.inode \in {0, path} /\ ckpt.offset <= Len(files[path])
  <2>1. StartOffset(ckpt.offset, ckpt.inode) = ckpt.offset
    BY <1>3 DEF StartOffset
  <2>2. CheckpointInStep
    BY <1>1, <1>2, <1>3 DEF IInv, CheckpointOK, CheckpointShrunk
  <2> QED
    BY <2>1, <2>2, <1>1, <1>2 DEF CheckpointInStep
<1>4. CASE ~ (ckpt.inode \in {0, path} /\ ckpt.offset <= Len(files[path]))
  <2>1. StartOffset(ckpt.offset, ckpt.inode) = 0
    BY <1>4 DEF StartOffset
  <2> QED
    BY <2>1, <1>1, <1>2
<1> QED
  BY <1>3, <1>4

\* The reader has just been put to position s of file i.
LEMMA PlacedInStep ==
  ASSUME IInv, NEW i \in 1 .. Len(files),
         NEW s \in Nat, s <= Len(files[i]),
         \A k \in 1 .. s : files[i][k] > 0 =>
                              files[i][k] \in LinesIn(Range(stored)),
         fd' = i, offset' = s, pending' = << >>,
         UNCHANGED <<files, stored>>
  PROVE  InStep' /\ CommittedOffset' = s
<1>1. files[i] \in Seq(Byte)
  BY FileTyped
<1>2. CommittedOffset' = s
  BY DEF CommittedOffset
<1>3. SubSeq(files[i], s + 1, s) = << >>
  BY <1>1, SubSeqOfNone
<1>4. LinesIn(Range(stored)) \subseteq LinesIn(Range(stored) \cup Range(lines'))
  BY LinesInMore
<1> QED
  BY <1>2, <1>3, <1>4 DEF InStep

LEMMA StartKeeps ==
  ASSUME IInv, Start
  PROVE  IInv'
<1> DEFINE s == StartOffset(ckpt.offset, ckpt.inode)
<1>1. /\ path \in 1 .. Len(files)
      /\ s \in Nat
      /\ s <= Len(files[path])
      /\ s % 3 = 0
      /\ \A k \in 1 .. s : files[path][k] > 0 =>
                              files[path][k] \in LinesIn(Range(stored))
      /\ path # 0
  BY StartPosition DEF Start, OpenCurrentFile
<1>2. fd' = path /\ offset' = s /\ pending' = << >> /\ pc' = "top" /\ pc = "down"
  BY DEF Start, OpenCurrentFile
<1>3. /\ UNCHANGED <<switchOnNext, replaced, size, lines, files, path>>
      /\ UNCHANGED <<stored, ckpt, writer, line, midLine, truncated, ends, unclean, env>>
      /\ stale' = stale \ {"reader"}
  BY DEF Start, fileVars, countVars
<1> HIDE DEF s
<1>4. InStep' /\ CommittedOffset' = s
  BY <1>1, <1>2, <1>3, PlacedInStep
<1>5. TypeOK'
  BY <1>1, <1>2, <1>3, <1>4 DEF IInv, TypeOK
<1>6. FilesOK'
  BY <1>3, FilesKept DEF IInv
<1>7. ControlOK'
  BY <1>1, <1>2, <1>3, <1>4 DEF IInv, ControlOK, Up
<1>8. ReaderOK'
  BY <1>4 DEF ReaderOK
<1>9. CheckpointOK'
  BY <1>3 DEF IInv, CheckpointOK, CheckpointInStep, CheckpointShrunk
<1>10. AllWhole'
  BY <1>3 DEF IInv, AllWhole
<1> QED
  BY <1>5, <1>6, <1>7, <1>8, <1>9, <1>10 DEF IInv

LEMMA SwitchFileKeeps ==
  ASSUME IInv, ReadNewLines, SwitchFile
  PROVE  IInv'
<1>1. /\ fd' = path
      /\ offset' = 0
      /\ pending' = << >>
      /\ switchOnNext' = FALSE
      /\ replaced' = FALSE
      /\ path # 0
      /\ UNCHANGED <<size, lines, files, path>>
  BY DEF SwitchFile, OpenCurrentFile, StartOffset, fileVars
<1>2. /\ pc = "top"
      /\ pc' = "fstat"
      /\ UNCHANGED <<stored, ckpt, stale, writer, line, midLine, truncated>>
      /\ UNCHANGED <<ends, unclean, env>>
  BY DEF ReadNewLines, ProducerKeeps, countVars
<1>3. path \in 1 .. Len(files) /\ files[path] \in Seq(Byte)
  <2>1. path \in 1 .. Len(files)
    BY <1>1, CoreTypes
  <2> QED
    BY <2>1, FileTyped
<1>4. InStep' /\ CommittedOffset' = 0
  BY <1>1, <1>2, <1>3, PlacedInStep
<1>5. TypeOK'
  <2>1. FileTypes'
    BY <1>1, <1>2, TypeParts DEF IInv, FileTypes
  <2>2. ReaderTypes'
    BY <1>1, <1>2, <1>3, <1>4, TypeParts DEF IInv, ReaderTypes
  <2>3. ProducerTypes'
    BY <1>1, <1>2, TypeParts DEF IInv, ProducerTypes
  <2>4. CountTypes'
    BY <1>1, <1>2, TypeParts DEF IInv, CountTypes
  <2>5. FlagTypes'
    BY <1>1, <1>2, TypeParts, Zenon DEF IInv, FlagTypes
  <2> QED
    BY <2>1, <2>2, <2>3, <2>4, <2>5, TypePartsPrimed
<1>6. FilesOK'
  BY <1>1, <1>2, FilesKept DEF IInv
<1>7. ControlOK'
  BY <1>1, <1>2, <1>3, <1>4, EmptyAlternates DEF IInv, ControlOK, Up
<1>8. ReaderOK'
  BY <1>4 DEF ReaderOK
<1>9. CheckpointOK'
  BY <1>1, <1>2 DEF IInv, CheckpointOK, CheckpointInStep, CheckpointShrunk
<1>10. AllWhole'
  BY <1>1, <1>2 DEF IInv, AllWhole
<1> QED
  BY <1>5, <1>6, <1>7, <1>8, <1>9, <1>10 DEF IInv

\* A step that moves neither the reader nor the file.
LEMMA ReaderKept ==
  ASSUME IInv, Up, Up',
         UNCHANGED <<fd, offset, pending, lines, files, stored, stale, writer>>
  PROVE  ReaderOK' /\ CommittedOffset' = CommittedOffset
<1>1. CommittedOffset' = CommittedOffset
  BY DEF CommittedOffset
<1>2. InStep => InStep'
  BY <1>1 DEF InStep
<1>3. Shrunk => Shrunk'
  BY <1>1 DEF Shrunk
<1> QED
  BY <1>1, <1>2, <1>3 DEF IInv, ReaderOK

LEMMA StatPathKeeps ==
  ASSUME IInv, ReadNewLines, StatPath
  PROVE  IInv'
<1>1. /\ ~ switchOnNext
      /\ replaced' = (path \notin {0, fd})
      /\ UNCHANGED <<fd, offset, pending, switchOnNext, size, lines, files, path>>
  BY DEF StatPath, fileVars
<1>2. /\ pc = "top"
      /\ pc' = "fstat"
      /\ UNCHANGED <<stored, ckpt, stale, writer, line, midLine, truncated>>
      /\ UNCHANGED <<ends, unclean, env>>
  BY DEF ReadNewLines, ProducerKeeps, countVars
<1>4. ReaderOK' /\ CommittedOffset' = CommittedOffset
  BY <1>1, <1>2, ReaderKept DEF Up
<1>5. TypeOK'
  BY <1>1, <1>2, <1>4 DEF IInv, TypeOK
<1>6. FilesOK'
  BY <1>1, <1>2, FilesKept DEF IInv
<1>7. ControlOK'
  <2>1. replaced' => fd < Len(files)
    BY <1>1 DEF IInv, TypeOK, FilesOK, WriterAtEnd
  <2> QED
    BY <2>1, <1>1, <1>2, <1>4 DEF IInv, ControlOK, Up
<1>9. CheckpointOK'
  BY <1>1, <1>2 DEF IInv, CheckpointOK, CheckpointInStep, CheckpointShrunk
<1>10. AllWhole'
  BY <1>1, <1>2 DEF IInv, AllWhole
<1> QED
  BY <1>4, <1>5, <1>6, <1>7, <1>9, <1>10 DEF IInv

\* After the fstat the position is one in the file, whatever happened to it.
LEMMA FstatInStep ==
  ASSUME IInv, ReadFstat
  PROVE  /\ InStep'
         /\ CommittedOffset' \in Nat
         /\ CommittedOffset' % 3 # 0 => CommittedOffset % 3 # 0 /\ pending' = pending
<1>1. /\ pc = "fstat"
      /\ UNCHANGED <<fd, lines, files, stored>>
      /\ IF Len(files[fd]) < offset
         THEN offset' = 0 /\ pending' = << >>
         ELSE UNCHANGED <<offset, pending>>
  BY DEF ReadFstat, Fstat, fileVars
<1>2. /\ Up
      /\ fd \in 1 .. Len(files)
      /\ CommittedOffset \in Nat
  BY <1>1, PositionBounds DEF Up
<1>3. CASE Len(files[fd]) < offset
  <2>1. offset' = 0 /\ pending' = << >>
    BY <1>1, <1>3
  <2>2. Len(files[fd]) >= 0
    BY <1>2, PositionBounds
  <2>3. InStep' /\ CommittedOffset' = 0
    BY <2>1, <2>2, <1>1, <1>2, PlacedInStep
  <2> QED
    BY <2>3
<1>4. CASE ~ (Len(files[fd]) < offset)
  <2>1. UNCHANGED <<offset, pending>>
    BY <1>1, <1>4
  <2>2. InStep
    BY <1>2, <1>4 DEF IInv, ReaderOK, Shrunk
  <2>3. CommittedOffset' = CommittedOffset
    BY <2>1 DEF CommittedOffset
  <2> QED
    BY <2>1, <2>2, <2>3, <1>1, <1>2 DEF InStep
<1> QED
  BY <1>3, <1>4

LEMMA FstatKeeps ==
  ASSUME IInv, ReadFstat
  PROVE  IInv'
<1>1. /\ size' = Len(files[fd])
      /\ IF Len(files[fd]) < offset
         THEN offset' = 0 /\ pending' = << >>
         ELSE UNCHANGED <<offset, pending>>
      /\ UNCHANGED <<fd, switchOnNext, replaced, lines, files, path>>
  BY DEF ReadFstat, Fstat, fileVars
<1>2. /\ pc = "fstat"
      /\ pc' = "pread"
      /\ stale' = stale \ {"reader"}
      /\ UNCHANGED <<stored, ckpt, writer, line, midLine, truncated>>
      /\ UNCHANGED <<ends, unclean, env>>
  BY DEF ReadFstat, ProducerKeeps, countVars
<1>3. /\ fd \in 1 .. Len(files)
      /\ size' \in Nat
  BY <1>1, <1>2, PositionBounds DEF Up
<1>4. /\ InStep'
      /\ CommittedOffset' \in Nat
      /\ CommittedOffset' % 3 # 0 => CommittedOffset % 3 # 0 /\ pending' = pending
  BY FstatInStep
<1>0. /\ offset' \in Nat
      /\ pending' \in Seq(Byte)
      /\ Len(pending') <= 2
      /\ Alternates(pending')
  <2>1. /\ offset \in Nat
        /\ pending \in Seq(Byte)
        /\ Len(pending) <= 2
        /\ Alternates(pending)
    BY DEF IInv, TypeOK, ControlOK
  <2>2. CASE Len(files[fd]) < offset
    BY <2>2, <1>1 DEF Alternates
  <2>3. CASE ~ (Len(files[fd]) < offset)
    BY <2>1, <2>3, <1>1
  <2> QED
    BY <2>2, <2>3
<1>5. TypeOK'
  <2>1. FileTypes'
    BY <1>1, <1>2, TypeParts DEF IInv, FileTypes
  <2>2. ReaderTypes'
    BY <1>0, <1>1, <1>3, <1>4, TypeParts DEF IInv, ReaderTypes
  <2>3. ProducerTypes'
    BY <1>1, <1>2, TypeParts DEF IInv, ProducerTypes
  <2>4. CountTypes'
    BY <1>1, <1>2, TypeParts DEF IInv, CountTypes
  <2>5. FlagTypes'
    BY <1>1, <1>2, TypeParts, Zenon DEF IInv, FlagTypes
  <2> QED
    BY <2>1, <2>2, <2>3, <2>4, <2>5, TypePartsPrimed
<1>6. FilesOK'
  BY <1>1, <1>2, FilesKept DEF IInv
<1>7. ControlOK'
  BY <1>0, <1>1, <1>2, <1>3, <1>4 DEF IInv, ControlOK, Up
<1>8. ReaderOK'
  BY <1>4 DEF ReaderOK
<1>9. CheckpointOK'
  BY <1>1, <1>2 DEF IInv, CheckpointOK, CheckpointInStep, CheckpointShrunk
<1>10. AllWhole'
  BY <1>1, <1>2 DEF IInv, AllWhole
<1> QED
  BY <1>5, <1>6, <1>7, <1>8, <1>9, <1>10 DEF IInv

\* After the pread: every text up to the new committed position is stored or
\* among the lines of the round.
LEMMA PreadInStep ==
  ASSUME IInv, ReadPread, InStep
  PROVE  InStep'
<1> DEFINE F == files[fd]
           c == CommittedOffset
           bytes == pending \o Chunk
           L == Len(bytes)
           h == Len(lines')
<1>1. /\ pc = "pread"
      /\ UNCHANGED <<fd, files, stored>>
  BY DEF ReadPread, Pread, fileVars
<1>2. /\ c \in Nat
      /\ fd \in 1 .. Len(files)
      /\ F \in Seq(Byte)
  BY <1>1, PositionBounds DEF Up
<1>3. /\ Alternates(bytes)
      /\ bytes \in Seq(Byte)
      /\ c + L <= Len(F)
      /\ \A n \in 1 .. L : bytes[n] = F[c + n]
  BY <1>1, ReadBytes
<1>4. /\ L \in Nat
      /\ h \in Nat
      /\ lines' \in Seq(WholeLine)
      /\ \A n \in 1 .. h :
            /\ 3 * n - 2 <= L
            /\ bytes[3 * n - 2] \in 1 .. MaxLine
            /\ \/ lines'[n] = Text(bytes[3 * n - 2])
               \/ lines'[n] = Cut(bytes[3 * n - 2])
      /\ offset' = c + L
      /\ \/ /\ pending' = << >>
            /\ L = 3 * h \/ L = 3 * h - 1 \/ L = 3 * h - 2
         \/ /\ pending' = SubSeq(bytes, 3 * h + 1, L)
            /\ L = 3 * h + 1 \/ L = 3 * h + 2
  BY PreadStep
<1>5. \A k \in 1 .. c : F[k] > 0 => F[k] \in LinesIn(Range(stored))
  <2>1. Range(stored) \cup Range(lines) = Range(stored)
    BY <1>1 DEF IInv, ControlOK, Range
  <2> QED
    BY <2>1 DEF InStep
<1>6. bytes \in Seq(Int)
  BY <1>3, BytesAreNumbers, SeqMonotonic, Zenon
<1> DEFINE Both == Range(stored) \cup Range(lines')
<1> HIDE DEF F, c, bytes, L, h
<1>7. ASSUME NEW n \in 1 .. L, F[c + n] > 0, n <= 3 * h
      PROVE  F[c + n] \in LinesIn(Both)
  <2>1. bytes[n] > 0
    BY <1>3, <1>7
  <2>2. PICK q \in Nat : n = 3 * q + 1
    BY <2>1, <1>3, <1>6, PositiveBytes DEF L
  <2>3. q + 1 \in 1 .. h /\ 3 * (q + 1) - 2 = n
    BY <2>2, <1>4, <1>7
  <2>4. /\ bytes[n] \in 1 .. MaxLine
        /\ lines'[q + 1] = Text(bytes[n]) \/ lines'[q + 1] = Cut(bytes[n])
    BY <2>3, <1>4
  <2>5. q + 1 \in DOMAIN lines'
    BY <2>3, <1>4 DEF h
  <2>6. lines'[q + 1] \in Both
    BY <2>5 DEF Range, Both
  <2>7. bytes[n] \in LinesIn(Both)
    BY <2>4, <2>6, Zenon DEF LinesIn
  <2> QED
    BY <2>7, <1>3
<1>8. ASSUME NEW d \in Nat, d <= c + L, d <= c + 3 * h,
             NEW k \in 1 .. d, F[k] > 0
      PROVE  F[k] \in LinesIn(Both)
  <2>1. CASE k <= c
    <3>1. F[k] \in LinesIn(Range(stored))
      BY <2>1, <1>2, <1>5, <1>8
    <3> QED
      BY <3>1, LinesInMore DEF Both
  <2>2. CASE k > c
    <3>1. k - c \in 1 .. L /\ c + (k - c) = k /\ k - c <= 3 * h
      BY <2>2, <1>2, <1>4, <1>8
    <3> QED
      BY <3>1, <1>7, <1>8
  <2> QED
    BY <2>1, <2>2, <1>2
<1>9. CASE pending' = << >> /\ (L = 3 * h \/ L = 3 * h - 1 \/ L = 3 * h - 2)
  <2>1. CommittedOffset' = c + L
    BY <1>2, <1>4, <1>9 DEF CommittedOffset
  <2>2. SubSeq(F, c + L + 1, c + L) = << >>
    BY <1>2, <1>4, SubSeqOfNone
  <2>3. c + L \in Nat /\ c + L <= c + 3 * h
    BY <1>2, <1>4, <1>9
  <2>4. \A k \in 1 .. c + L : F[k] > 0 => F[k] \in LinesIn(Both)
    <3>1. c + L <= c + L
      BY <2>3
    <3> QED
      BY <3>1, <2>3, <1>8, Zenon
  <2>5. offset' <= Len(files'[fd']) /\ files'[fd'] = F
    BY <1>1, <1>3, <1>4 DEF F
  <2>6. pending' = SubSeq(F, CommittedOffset' + 1, offset')
    BY <2>1, <2>2, <1>4, <1>9
  <2>7. \A k \in 1 .. CommittedOffset' : F[k] > 0 =>
           F[k] \in LinesIn(Range(stored') \cup Range(lines'))
    BY <2>1, <2>4, <1>1, Zenon DEF Both
  <2> QED
    BY <2>5, <2>6, <2>7, Zenon DEF InStep
<1>10. CASE /\ pending' = SubSeq(bytes, 3 * h + 1, L)
            /\ L = 3 * h + 1 \/ L = 3 * h + 2
  <2>0. 3 * h \in Nat /\ L \in Nat /\ 3 * h <= L /\ L <= Len(bytes)
    BY <1>4, <1>10 DEF L
  <2>1. Len(pending') = L - 3 * h
    BY <2>0, <1>3, <1>10, RestAfter, Zenon
  <2>2. CommittedOffset' = c + 3 * h
    BY <2>1, <1>2, <1>4, <1>10 DEF CommittedOffset
  <2>3. SubSeq(F, (c + 3 * h) + 1, c + L) = SubSeq(bytes, 3 * h + 1, L)
    <3> DEFINE v == SubSeq(F, (c + 3 * h) + 1, c + L)
               w == SubSeq(bytes, 3 * h + 1, L)
    <3>1. /\ v \in Seq(Byte)
          /\ Len(v) = L - 3 * h
          /\ \A n \in 1 .. Len(v) : v[n] = F[(c + 3 * h) + n]
      <4>1. /\ c + 3 * h \in Nat
            /\ c + L \in Nat
            /\ c + 3 * h <= c + L
            /\ c + L <= Len(F)
            /\ (c + L) - (c + 3 * h) = L - 3 * h
        BY <2>0, <1>2, <1>3, <1>4
      <4>2. /\ v \in Seq(Byte)
            /\ Len(v) = (c + L) - (c + 3 * h)
            /\ \A n \in 1 .. (c + L) - (c + 3 * h) : v[n] = F[(c + 3 * h) + n]
        <5>1. F \in Seq(Byte)
          BY <1>2
        <5> QED
          BY <5>1, <4>1, RestAfter, ZenonT(40)
      <4> QED
        BY <4>1, <4>2, Zenon
    <3>2. /\ w \in Seq(Byte)
          /\ Len(w) = L - 3 * h
          /\ \A n \in 1 .. L - 3 * h : w[n] = bytes[3 * h + n]
      <4>1. bytes \in Seq(Byte)
        BY <1>3
      <4> QED
        BY <4>1, <2>0, RestAfter, ZenonT(40)
    <3> HIDE DEF v, w
    <3>3. ASSUME NEW n \in 1 .. Len(v)
          PROVE  v[n] = w[n]
      <4>1. 3 * h + n \in 1 .. L /\ c + (3 * h + n) = (c + 3 * h) + n
        BY <3>1, <1>2, <1>4, <1>10
      <4> QED
        BY <4>1, <3>1, <3>2, <1>3
    <3>4. v = w
      BY <3>1, <3>2, <3>3, SeqEqual
    <3> QED
      BY <3>4 DEF v, w
  <2>4. c + 3 * h \in Nat /\ c + 3 * h <= c + L
    BY <1>2, <1>4, <1>10
  <2>5. \A k \in 1 .. c + 3 * h : F[k] > 0 => F[k] \in LinesIn(Both)
    <3>1. c + 3 * h <= c + 3 * h
      BY <2>4
    <3> QED
      BY <3>1, <2>4, <1>8, Zenon
  <2> QED
    BY <2>2, <2>3, <2>5, <1>1, <1>3, <1>4, <1>10 DEF InStep, F, Both
<1> QED
  BY <1>4, <1>9, <1>10

LEMMA PreadShrunk ==
  ASSUME IInv, ReadPread, ~ InStep
  PROVE  Shrunk'
<1>1. /\ pc = "pread"
      /\ offset' = offset + Len(Chunk)
      /\ UNCHANGED <<fd, files, stale, writer>>
  BY DEF ReadPread, Pread, fileVars, ProducerKeeps
<1>2. Shrunk
  BY <1>1 DEF IInv, ReaderOK, Up
<1>3. Chunk = << >> /\ pending \o Chunk = pending
  BY <1>1, ReadBytes
<1>4. /\ CommittedOffset \in Nat
      /\ CommittedOffset + Len(pending) = offset
      /\ Len(files[fd]) \in Nat
  BY <1>1, PositionBounds DEF Up
<1>5. offset' = offset
  BY <1>1, <1>3, <1>4
<1>6. CommittedOffset' = CommittedOffset \/ CommittedOffset' = offset
  <2>1. \/ pending' = << >>
        \/ /\ pending' = SubSeq(pending, 3 * Len(lines') + 1, Len(pending))
           /\ \/ Len(pending) = 3 * Len(lines') + 1
              \/ Len(pending) = 3 * Len(lines') + 2
           /\ Len(lines') \in Nat
    BY <1>3, PreadStep
  <2>2. Len(pending) <= 2 /\ pending \in Seq(Byte)
    BY CoreTypes DEF IInv, ControlOK
  <2>3. CASE pending' = << >>
    BY <2>3, <1>4, <1>5 DEF CommittedOffset
  <2>4. CASE /\ pending' = SubSeq(pending, 3 * Len(lines') + 1, Len(pending))
             /\ \/ Len(pending) = 3 * Len(lines') + 1
                \/ Len(pending) = 3 * Len(lines') + 2
             /\ Len(lines') \in Nat
    <3>1. Len(lines') = 0 /\ Len(pending) \in Nat
      BY <2>2, <2>4
    <3>2. Len(pending') = Len(pending)
      BY <3>1, <2>2, <2>4
    <3> QED
      BY <3>2, <1>4, <1>5 DEF CommittedOffset
  <2> QED
    BY <2>1, <2>3, <2>4
<1> QED
  BY <1>1, <1>2, <1>4, <1>5, <1>6 DEF Shrunk

LEMMA PreadKeeps ==
  ASSUME IInv, ReadPread
  PROVE  IInv'
<1> DEFINE bytes == pending \o Chunk
           L == Len(bytes)
           h == Len(lines')
<1>1. /\ switchOnNext' = replaced
      /\ replaced' = FALSE
      /\ size' = 0
      /\ UNCHANGED <<fd, files, path>>
  BY DEF ReadPread, Pread, fileVars
<1>2. /\ pc = "pread"
      /\ pc' = "store"
      /\ UNCHANGED <<stored, ckpt, stale, writer, line, midLine, truncated>>
      /\ UNCHANGED <<ends, unclean, env>>
  BY DEF ReadPread, ProducerKeeps, countVars
<1>3. /\ L \in Nat
      /\ h \in Nat
      /\ lines' \in Seq(WholeLine)
      /\ offset' = CommittedOffset + L
      /\ \/ /\ pending' = << >>
            /\ L = 3 * h \/ (replaced /\ (L = 3 * h - 1 \/ L = 3 * h - 2))
         \/ /\ pending' = SubSeq(bytes, 3 * h + 1, L)
            /\ L = 3 * h + 1 \/ L = 3 * h + 2
  BY PreadStep
<1>4. /\ CommittedOffset \in Nat
      /\ CommittedOffset % 3 = 0
      /\ bytes \in Seq(Byte)
      /\ Alternates(bytes)
  BY <1>2, ReadBytes, PositionBounds
<1>0. L = Len(bytes)
  OBVIOUS
<1> HIDE DEF L, h, bytes
<1>5. /\ offset' \in Nat
      /\ pending' \in Seq(Byte)
      /\ Len(pending') <= 2
      /\ Alternates(pending')
      /\ CommittedOffset' >= 0
      /\ CommittedOffset' % 3 # 0 => replaced /\ pending' = << >>
  <2>0. (CommittedOffset + 3 * h) % 3 = 0
    <3>1. 3 * h \in Nat /\ (3 * h) % 3 = 0
      BY <1>3, Remainders
    <3> QED
      BY <3>1, <1>4, ParityShift
  <2>1. CASE /\ pending' = << >>
             /\ L = 3 * h \/ (replaced /\ (L = 3 * h - 1 \/ L = 3 * h - 2))
    <3>1. CommittedOffset' = CommittedOffset + L
      BY <2>1, <1>3, <1>4 DEF CommittedOffset
    <3>2. Alternates(pending') /\ pending' \in Seq(Byte) /\ Len(pending') = 0
      BY <2>1 DEF Alternates
    <3>3. CommittedOffset' % 3 # 0 => replaced
      BY <3>1, <2>0, <2>1
    <3>4. offset' \in Nat /\ CommittedOffset' >= 0
      BY <3>1, <1>3, <1>4
    <3> QED
      BY <3>2, <3>3, <3>4, <2>1
  <2>2. CASE /\ pending' = SubSeq(bytes, 3 * h + 1, L)
             /\ L = 3 * h + 1 \/ L = 3 * h + 2
    <3>0. 3 * h \in Nat /\ L \in Nat /\ 3 * h <= L /\ L <= Len(bytes)
      BY <2>2, <1>0, <1>3
    <3>1. pending' \in Seq(Byte) /\ Len(pending') = L - 3 * h
      BY <3>0, <2>2, <1>4, RestAfter, Zenon
    <3>2. \A n \in 1 .. Len(pending') : pending'[n] = bytes[3 * h + n]
      <4>1. \A n \in 1 .. L - 3 * h :
               SubSeq(bytes, 3 * h + 1, L)[n] = bytes[3 * h + n]
        BY <3>0, <1>4, RestAfter, Zenon
      <4> QED
        BY <4>1, <3>1, <2>2
    <3>3. Alternates(pending')
      <4>1. 3 * h \in Nat /\ (3 * h) % 3 = 0 /\ 3 * h + Len(pending') <= Len(bytes)
        BY <3>1, <1>0, <1>3, Remainders
      <4> QED
        BY <4>1, <3>1, <3>2, <1>4, AlternatesAfter
    <3>4. CommittedOffset' = CommittedOffset + 3 * h
      BY <3>1, <2>2, <1>3, <1>4 DEF CommittedOffset
    <3>5. CommittedOffset' % 3 = 0
      BY <3>4, <2>0
    <3> QED
      BY <3>1, <3>3, <3>4, <3>5, <2>2, <1>3, <1>4
  <2> QED
    BY <2>1, <2>2, <1>3
<1>6. lines' \in Seq(Seq(Byte)) /\ Range(lines') \subseteq WholeLine
  <2>1. ASSUME NEW s \in Seq(WholeLine)
        PROVE  s \in Seq(Seq(Byte)) /\ Range(s) \subseteq WholeLine
    BY WholeLinesTyped
  <2> QED
    BY <2>1, <1>3, Zenon
<1>7. TypeOK'
  <2>1. FileTypes'
    BY <1>1, <1>2, TypeParts DEF IInv, FileTypes
  <2>2. ReaderTypes'
    BY <1>1, <1>5, TypeParts DEF IInv, ReaderTypes
  <2>3. ProducerTypes'
    BY <1>1, <1>2, <1>6, TypeParts DEF IInv, ProducerTypes
  <2>4. CountTypes'
    BY <1>1, <1>2, TypeParts DEF IInv, CountTypes
  <2>5. FlagTypes'
    BY <1>1, TypeParts, Zenon DEF IInv, FlagTypes
  <2> QED
    BY <2>1, <2>2, <2>3, <2>4, <2>5, TypePartsPrimed
<1>8. FilesOK'
  BY <1>1, <1>2, FilesKept DEF IInv
<1>9. ControlOK'
  BY <1>1, <1>2, <1>5 DEF IInv, ControlOK, Up
<1>10. ReaderOK'
  BY PreadInStep, PreadShrunk DEF ReaderOK
<1>11. CheckpointOK'
  BY <1>1, <1>2 DEF IInv, CheckpointOK, CheckpointInStep, CheckpointShrunk
<1>12. AllWhole'
  BY <1>2, <1>6 DEF IInv, AllWhole
<1> QED
  BY <1>7, <1>8, <1>9, <1>10, <1>11, <1>12 DEF IInv

\* Storing the first line of the round moves it from lines to stored.
LEMMA MoveHead ==
  ASSUME NEW T, NEW s \in Seq(T), NEW t \in Seq(T), t # << >>
  PROVE  /\ Append(s, Head(t)) \in Seq(T)
         /\ Tail(t) \in Seq(T)
         /\ Range(Append(s, Head(t))) \cup Range(Tail(t)) = Range(s) \cup Range(t)
         /\ Range(s) \subseteq Range(Append(s, Head(t)))
         /\ Range(Append(s, Head(t))) = Range(s) \cup {Head(t)}
<1> DEFINE u == Append(s, Head(t))
           v == Tail(t)
<1>1. Len(t) \in Nat /\ Len(t) >= 1 /\ Len(s) \in Nat
  BY EmptySeq
<1>2. /\ u \in Seq(T)
      /\ DOMAIN u = 1 .. Len(s) + 1
      /\ \A k \in 1 .. Len(s) : u[k] = s[k]
      /\ u[Len(s) + 1] = t[1]
      /\ Head(t) = t[1]
  BY <1>1
<1>3. /\ v \in Seq(T)
      /\ DOMAIN v = 1 .. Len(t) - 1
      /\ \A k \in 1 .. Len(t) - 1 : v[k] = t[k + 1]
  BY <1>1
<1>4. DOMAIN s = 1 .. Len(s) /\ DOMAIN t = 1 .. Len(t)
  OBVIOUS
<1> HIDE DEF u, v
<1>5. Range(u) = Range(s) \cup {t[1]}
  <2>1. \A k \in 1 .. Len(s) + 1 : k \in 1 .. Len(s) \/ k = Len(s) + 1
    BY <1>1
  <2>2. \A k \in 1 .. Len(s) : k \in 1 .. Len(s) + 1
    BY <1>1
  <2>3. Len(s) + 1 \in 1 .. Len(s) + 1
    BY <1>1
  <2>4. Range(u) \subseteq Range(s) \cup {t[1]}
    <3>1. ASSUME NEW k \in 1 .. Len(s) + 1
          PROVE  u[k] \in Range(s) \cup {t[1]}
      <4>1. CASE k \in 1 .. Len(s)
        BY <4>1, <1>2, <1>4, Zenon DEF Range
      <4>2. CASE k = Len(s) + 1
        BY <4>2, <1>2, Zenon
      <4> QED
        BY <2>1, <4>1, <4>2, Zenon
    <3>2. ASSUME NEW x \in Range(u)
          PROVE  \E k \in 1 .. Len(s) + 1 : x = u[k]
      BY <1>2, Zenon DEF Range
    <3> QED
      BY <3>1, <3>2, Zenon
  <2>5. Range(s) \subseteq Range(u)
    BY <2>2, <1>2, <1>4, Zenon DEF Range
  <2>6. t[1] \in Range(u)
    BY <2>3, <1>2, Zenon DEF Range
  <2> QED
    BY <2>4, <2>5, <2>6, Zenon
<1>6. Range(t) = Range(v) \cup {t[1]}
  <2>1. ASSUME NEW k \in 1 .. Len(t)
        PROVE  k = 1 \/ \E j \in 1 .. Len(t) - 1 : v[j] = t[k]
    <3>1. k # 1 => k - 1 \in 1 .. Len(t) - 1 /\ v[k - 1] = t[k]
      BY <1>1, <1>3
    <3> QED
      BY <3>1
  <2>2. \A k \in 1 .. Len(t) - 1 : k + 1 \in 1 .. Len(t)
    BY <1>1
  <2>3. 1 \in 1 .. Len(t)
    BY <1>1
  <2>4. Range(t) \subseteq Range(v) \cup {t[1]}
    <3> SUFFICES ASSUME NEW e \in Range(t)
                 PROVE  e \in Range(v) \/ e = t[1]
      OBVIOUS
    <3>1. PICK k \in 1 .. Len(t) : e = t[k]
      BY <1>4 DEF Range
    <3>2. CASE k = 1
      BY <3>1, <3>2
    <3>3. CASE \E j \in 1 .. Len(t) - 1 : v[j] = t[k]
      BY <3>1, <3>3, <1>3, Zenon DEF Range
    <3> QED
      BY <3>2, <3>3, <2>1
  <2>5. Range(v) \cup {t[1]} \subseteq Range(t)
    BY <2>2, <2>3, <1>3, <1>4, Zenon DEF Range
  <2> QED
    BY <2>4, <2>5
<1>7. Range(u) \cup Range(v) = Range(s) \cup Range(t) /\ Range(s) \subseteq Range(u)
  BY <1>5, <1>6
<1>8. Range(u) = Range(s) \cup {Head(t)}
  BY <1>2, <1>5
<1> QED
  BY <1>2, <1>3, <1>7, <1>8 DEF u, v

\* What StoreLine does to the lines.
LEMMA StoreLineMoves ==
  ASSUME IInv, StoreLine
  PROVE  /\ stored' \in Seq(Seq(Byte))
         /\ lines' \in Seq(Seq(Byte))
         /\ Range(stored') \cup Range(lines') = Range(stored) \cup Range(lines)
         /\ Range(stored) \subseteq Range(stored')
         /\ Range(stored') = Range(stored) \cup {Head(lines)}
<1>1. /\ stored' = Append(stored, Head(lines))
      /\ lines' = Tail(lines)
      /\ lines # << >>
  BY DEF StoreLine
<1>2. stored \in Seq(Seq(Byte)) /\ lines \in Seq(Seq(Byte))
  BY DEF IInv, TypeOK
<1> QED
  BY <1>1, <1>2, MoveHead, Zenon

LEMMA StoreLineKeeps ==
  ASSUME IInv, StoreLine
  PROVE  IInv'
<1>1. /\ pc = "store"
      /\ UNCHANGED <<fd, offset, pending, switchOnNext, replaced, size, files, path>>
      /\ UNCHANGED <<pc, ckpt, stale, writer, line, midLine, truncated>>
      /\ UNCHANGED <<ends, unclean, env>>
  BY DEF StoreLine, ProducerKeeps, countVars, fileVars
<1>2. /\ stored' \in Seq(Seq(Byte))
      /\ lines' \in Seq(Seq(Byte))
      /\ Range(stored') \cup Range(lines') = Range(stored) \cup Range(lines)
      /\ Range(stored) \subseteq Range(stored')
  BY StoreLineMoves
<1>3. CommittedOffset' = CommittedOffset
  BY <1>1 DEF CommittedOffset
<1>4. TypeOK'
  <2>1. FileTypes'
    BY <1>1, TypeParts DEF IInv, FileTypes
  <2>2. ReaderTypes'
    BY <1>1, <1>3, TypeParts DEF IInv, ReaderTypes
  <2>3. ProducerTypes'
    BY <1>1, <1>2, TypeParts DEF IInv, ProducerTypes
  <2>4. CountTypes'
    BY <1>1, TypeParts DEF IInv, CountTypes
  <2>5. FlagTypes'
    BY <1>1, TypeParts, Zenon DEF IInv, FlagTypes
  <2> QED
    BY <2>1, <2>2, <2>3, <2>4, <2>5, TypePartsPrimed
<1>5. FilesOK'
  BY <1>1, FilesKept DEF IInv
<1>6. ControlOK'
  BY <1>1, <1>3 DEF IInv, ControlOK, Up
<1>7. ReaderOK'
  <2>1. InStep => InStep'
    BY <1>1, <1>2, <1>3 DEF InStep
  <2>2. Shrunk => Shrunk'
    BY <1>1, <1>3 DEF Shrunk
  <2> QED
    BY <2>1, <2>2, <1>1 DEF IInv, ReaderOK, Up
<1>8. CheckpointOK'
  <2>0. LinesIn(Range(stored)) \subseteq LinesIn(Range(stored'))
    BY <1>2, LinesInMore
  <2>1. CheckpointInStep => CheckpointInStep'
    BY <2>0, <1>1 DEF CheckpointInStep
  <2>2. CheckpointShrunk => CheckpointShrunk'
    BY <1>1 DEF CheckpointShrunk
  <2> QED
    BY <2>1, <2>2, <1>1 DEF IInv, CheckpointOK
<1>9. AllWhole'
  BY <1>2 DEF IInv, AllWhole
<1> QED
  BY <1>4, <1>5, <1>6, <1>7, <1>8, <1>9 DEF IInv

LEMMA RoundStoredKeeps ==
  ASSUME IInv, RoundStored
  PROVE  IInv'
<1>1. /\ pc = "store"
      /\ pc' = "checkpoint"
      /\ lines = << >>
      /\ UNCHANGED <<fd, offset, pending, switchOnNext, replaced, size, lines>>
      /\ UNCHANGED <<files, path, stored, ckpt, stale, writer, line, midLine>>
      /\ UNCHANGED <<truncated, ends, unclean, env>>
  BY DEF RoundStored, ProducerKeeps, countVars, fileVars, readerVars
<1>2. ReaderOK' /\ CommittedOffset' = CommittedOffset
  BY <1>1, ReaderKept DEF Up
<1>3. TypeOK'
  <2>1. FileTypes'
    BY <1>1, TypeParts DEF IInv, FileTypes
  <2>2. ReaderTypes'
    BY <1>1, <1>2, TypeParts DEF IInv, ReaderTypes
  <2>3. ProducerTypes'
    BY <1>1, TypeParts DEF IInv, ProducerTypes
  <2>4. CountTypes'
    BY <1>1, TypeParts DEF IInv, CountTypes
  <2>5. FlagTypes'
    BY <1>1, TypeParts, Zenon DEF IInv, FlagTypes
  <2> QED
    BY <2>1, <2>2, <2>3, <2>4, <2>5, TypePartsPrimed
<1>4. FilesOK'
  BY <1>1, FilesKept DEF IInv
<1>5. ControlOK'
  BY <1>1, <1>2 DEF IInv, ControlOK, Up
<1>6. CheckpointOK'
  BY <1>1 DEF IInv, CheckpointOK, CheckpointInStep, CheckpointShrunk
<1>7. AllWhole'
  BY <1>1 DEF IInv, AllWhole
<1> QED
  BY <1>2, <1>3, <1>4, <1>5, <1>6, <1>7 DEF IInv

\* The position that a round writes to client.state.
LEMMA CheckpointPlaced ==
  ASSUME IInv, Checkpoint
  PROVE  CheckpointOK'
<1>1. /\ pc = "checkpoint"
      /\ ckpt' = [offset |-> CommittedOffset, inode |-> fd]
      /\ stale' = IF "reader" \in stale THEN {"reader", "checkpoint"} ELSE {}
      /\ UNCHANGED <<files, path, stored>>
  BY DEF Checkpoint, StaleCheckpoint, fileVars
<1>2. /\ ckpt'.offset = CommittedOffset
      /\ ckpt'.inode = fd
  BY <1>1
<1>3. /\ CommittedOffset \in Nat
      /\ CommittedOffset + Len(pending) = offset
      /\ fd \in 1 .. Len(files)
      /\ Len(pending) \in Nat
      /\ Len(files[fd]) \in Nat
  <2>1. pending \in Seq(Byte)
    BY DEF IInv, TypeOK
  <2>2. Len(pending) \in Nat
    BY <2>1, LenProperties, Zenon
  <2> QED
    BY <2>2, <1>1, PositionBounds DEF Up
<1>4. SUFFICES ASSUME path # 0, fd = path
               PROVE  CheckpointInStep' \/ CheckpointShrunk'
  BY <1>1, <1>2, <1>3 DEF CheckpointOK
<1>5. fd = Len(files)
  BY <1>4 DEF IInv, FilesOK, WriterAtEnd
<1>6. Range(stored) \cup Range(lines) = Range(stored)
  BY <1>1 DEF IInv, ControlOK, Range
<1>7. CommittedOffset % 3 = 0
  BY <1>3, <1>5 DEF IInv, ControlOK
<1>8. CASE InStep
  <2>1. CommittedOffset <= Len(files[fd])
    <3>1. offset <= Len(files[fd])
      BY <1>8, Zenon DEF InStep
    <3> QED
      BY <3>1, <1>3
  <2>2. \A k \in 1 .. CommittedOffset :
           files[fd][k] > 0 => files[fd][k] \in LinesIn(Range(stored))
    BY <1>6, <1>8 DEF InStep
  <2>3. files' = files /\ path' = fd /\ stored' = stored
    BY <1>1, <1>4
  <2>4. CheckpointInStep'
    BY <2>1, <2>2, <2>3, <1>2, <1>7 DEF CheckpointInStep
  <2> QED
    BY <2>4
<1>9. CASE Shrunk
  <2>1. "reader" \in stale
    BY <1>5, <1>9 DEF Shrunk, IInv, TypeOK
  <2>2. CASE CommittedOffset = 0
    BY <2>2, <1>1, <1>2, <1>3, <1>4 DEF CheckpointInStep
  <2>3. CASE CommittedOffset # 0
    BY <2>1, <2>3, <1>1, <1>2, <1>4, <1>9 DEF Shrunk, CheckpointShrunk
  <2> QED
    BY <2>2, <2>3
<1> QED
  BY <1>1, <1>8, <1>9 DEF IInv, ReaderOK, Up

LEMMA CheckpointKeeps ==
  ASSUME IInv, Checkpoint
  PROVE  IInv'
<1>1. /\ pc = "checkpoint"
      /\ pc' = "top"
      /\ ckpt' = [offset |-> CommittedOffset, inode |-> fd]
      /\ stale' = IF "reader" \in stale THEN {"reader", "checkpoint"} ELSE {}
      /\ UNCHANGED <<fd, offset, pending, switchOnNext, replaced, size, lines>>
      /\ UNCHANGED <<files, path, stored, writer, line, midLine>>
      /\ UNCHANGED <<truncated, ends, unclean, env>>
  BY DEF Checkpoint, StaleCheckpoint, ProducerKeeps, countVars, fileVars, readerVars
<1>2. CommittedOffset' = CommittedOffset
  BY <1>1 DEF CommittedOffset
<1>3. TypeOK'
  <2>1. FileTypes'
    BY <1>1, TypeParts DEF IInv, FileTypes
  <2>2. ReaderTypes'
    BY <1>1, <1>2, TypeParts DEF IInv, ReaderTypes
  <2>3. ProducerTypes'
    <3>1. CommittedOffset \in Nat /\ fd \in 0 .. Len(files)
      BY PositionBounds DEF IInv, TypeOK
    <3> QED
      BY <3>1, <1>1, TypeParts DEF IInv, ProducerTypes
  <2>4. CountTypes'
    BY <1>1, TypeParts DEF IInv, CountTypes
  <2>5. FlagTypes'
    BY <1>1, TypeParts, Zenon DEF IInv, FlagTypes
  <2> QED
    BY <2>1, <2>2, <2>3, <2>4, <2>5, TypePartsPrimed
<1>4. FilesOK'
  BY <1>1, FilesKept DEF IInv
<1>5. ControlOK'
  BY <1>1, <1>2 DEF IInv, ControlOK, Up
<1>6. ReaderOK'
  <2>1. InStep => InStep'
    BY <1>1, <1>2 DEF InStep
  <2>2. Shrunk => Shrunk'
    BY <1>1, <1>2 DEF Shrunk
  <2> QED
    BY <2>1, <2>2, <1>1 DEF IInv, ReaderOK, Up
<1>7. CheckpointOK'
  BY CheckpointPlaced
<1>8. AllWhole'
  BY <1>1 DEF IInv, AllWhole
<1> QED
  BY <1>3, <1>4, <1>5, <1>6, <1>7, <1>8 DEF IInv

LEMMA GonePosition ==
  ASSUME Gone
  PROVE  CommittedOffset' = 0
<1>1. offset' = 0 /\ pending' = << >>
  BY DEF Gone
<1>2. \A a \in Nat : a - Len(<< >>) = a
  OBVIOUS
<1>3. 0 - Len(<< >>) = 0
  BY <1>2
<1> QED
  BY <1>1, <1>3, Zenon DEF CommittedOffset

\* The end of the process: SwitchFails, Stop and Crash.
LEMMA GoneKeeps ==
  ASSUME IInv, Gone,
         ends' \in 0 .. MaxEnds, unclean' \in 0 .. MaxEnds, unclean' <= ends',
         env' = env
  PROVE  IInv'
<1>1. /\ pc' = "down"
      /\ fd' = 0
      /\ offset' = 0
      /\ pending' = << >>
      /\ switchOnNext' = FALSE
      /\ replaced' = FALSE
      /\ size' = 0
      /\ lines' = << >>
      /\ stale' = stale \ {"reader"}
      /\ UNCHANGED <<files, path, stored, ckpt, writer, line, midLine, truncated>>
  BY DEF Gone, fileVars
<1>2. CommittedOffset' = 0
  BY GonePosition
<1>3. TypeOK'
  <2>1. FileTypes'
    BY <1>1, TypeParts DEF IInv, FileTypes
  <2>2. ReaderTypes'
    BY <1>1, <1>2, TypeParts DEF IInv, ReaderTypes, FileTypes
  <2>3. ProducerTypes'
    BY <1>1, TypeParts DEF IInv, ProducerTypes
  <2>4. CountTypes'
    BY <1>1, TypeParts DEF IInv, CountTypes
  <2>5. FlagTypes'
    BY <1>1, TypeParts, Zenon DEF IInv, FlagTypes
  <2> QED
    BY <2>1, <2>2, <2>3, <2>4, <2>5, TypePartsPrimed
<1>4. FilesOK'
  BY <1>1, FilesKept DEF IInv
<1>5. ControlOK'
  BY <1>1, <1>2, EmptyAlternates DEF ControlOK, Up
<1>6. ReaderOK'
  BY <1>1 DEF ReaderOK, Up
<1>7. CheckpointOK'
  BY <1>1 DEF IInv, CheckpointOK, CheckpointInStep, CheckpointShrunk
<1>8. AllWhole'
  BY <1>1 DEF IInv, AllWhole, Range
<1> QED
  BY <1>3, <1>4, <1>5, <1>6, <1>7, <1>8 DEF IInv

LEMMA ProcessEndKeeps ==
  ASSUME IInv, SwitchFails \/ Stop \/ Crash
  PROVE  IInv'
<1>1. /\ ends \in 0 .. MaxEnds
      /\ unclean \in 0 .. MaxEnds
      /\ unclean <= ends
      /\ MaxEnds \in Nat
  BY ConstantTypes DEF IInv, TypeOK, ControlOK
<1>2. CASE SwitchFails
  BY <1>1, <1>2, GoneKeeps DEF SwitchFails, countVars
<1>3. CASE Stop
  BY <1>1, <1>3, GoneKeeps DEF Stop
<1>4. CASE Crash
  BY <1>1, <1>4, GoneKeeps DEF Crash
<1> QED
  BY <1>2, <1>3, <1>4

LEMMA ForgetKeeps ==
  ASSUME IInv, ForgetCheckpoint
  PROVE  IInv'
<1>1. /\ pc = "down"
      /\ ends < MaxEnds
      /\ ckpt' = [offset |-> 0, inode |-> 0]
      /\ ends' = ends + 1
      /\ unclean' = unclean + 1
      /\ stale' = stale \ {"checkpoint"}
      /\ UNCHANGED <<fd, offset, pending, switchOnNext, replaced, size, lines>>
      /\ UNCHANGED <<files, path, pc, stored, writer, line, midLine, truncated, env>>
  BY DEF ForgetCheckpoint, fileVars, readerVars
<1>2. CommittedOffset' = CommittedOffset
  BY <1>1 DEF CommittedOffset
<1>3. TypeOK'
  <2>1. FileTypes'
    BY <1>1, TypeParts DEF IInv, FileTypes
  <2>2. ReaderTypes'
    BY <1>1, <1>2, TypeParts DEF IInv, ReaderTypes
  <2>3. ProducerTypes'
    <3>1. Len(files) \in Nat
      BY DEF IInv, TypeOK
    <3> QED
      BY <3>1, <1>1, TypeParts DEF IInv, ProducerTypes
  <2>4. CountTypes'
    BY <1>1, TypeParts, ConstantTypes DEF IInv, CountTypes, ControlOK
  <2>5. FlagTypes'
    BY <1>1, TypeParts, Zenon DEF IInv, FlagTypes
  <2> QED
    BY <2>1, <2>2, <2>3, <2>4, <2>5, TypePartsPrimed
<1>4. FilesOK'
  BY <1>1, FilesKept DEF IInv
<1>5. ControlOK'
  <2>1. unclean' <= ends'
    BY <1>1 DEF IInv, TypeOK, ControlOK
  <2> QED
    BY <2>1, <1>1, <1>2 DEF IInv, ControlOK, Up
<1>6. ReaderOK'
  BY <1>1 DEF ReaderOK, Up
<1>7. CheckpointOK'
  <2>1. ckpt'.offset = 0 /\ ckpt'.inode = 0
    BY <1>1
  <2>2. path # 0 => Len(files[path]) >= 0
    <3>1. path # 0 => path \in 1 .. Len(files)
      BY CoreTypes
    <3>2. path # 0 => Len(files[path]) \in Nat
      BY <3>1, FileTyped
    <3> QED
      BY <3>2
  <2> QED
    BY <2>1, <2>2, <1>1 DEF CheckpointOK, CheckpointInStep
<1>8. AllWhole'
  BY <1>1 DEF IInv, AllWhole
<1> QED
  BY <1>3, <1>4, <1>5, <1>6, <1>7, <1>8 DEF IInv

-----------------------------------------------------------------------------
(* The steps of the programs that own the file keep the invariant. *)

\* No file is shorter than before or has other bytes where it had some.
FilesGrow ==
  /\ files' \in Seq(Seq(Byte))
  /\ Len(files') >= Len(files)
  /\ \A i \in 1 .. Len(files) :
        /\ Len(files'[i]) >= Len(files[i])
        /\ \A k \in 1 .. Len(files[i]) : files'[i][k] = files[i][k]

LEMMA SubSeqOfPrefix ==
  ASSUME NEW S, NEW s \in Seq(S), NEW t \in Seq(S),
         NEW a \in Nat, NEW b \in Nat, b <= Len(s), b <= Len(t),
         \A k \in 1 .. b : t[k] = s[k]
  PROVE  SubSeq(t, a + 1, b) = SubSeq(s, a + 1, b)
<1> DEFINE u == SubSeq(s, a + 1, b)
           v == SubSeq(t, a + 1, b)
           n == IF a <= b THEN b - a ELSE 0
<1>1. /\ u \in Seq(S)
      /\ Len(u) = n
      /\ \A k \in 1 .. Len(u) : u[k] = s[a + k]
  <2>1. u = SubSeq(s, a + 1, b)
    OBVIOUS
  <2> HIDE DEF u
  <2> QED
    BY <2>1, PartAfter
<1>2. /\ v \in Seq(S)
      /\ Len(v) = n
      /\ \A k \in 1 .. Len(v) : v[k] = t[a + k]
  <2>1. v = SubSeq(t, a + 1, b)
    OBVIOUS
  <2> HIDE DEF v
  <2> QED
    BY <2>1, PartAfter
<1> HIDE DEF u, v
<1>3. \A k \in 1 .. Len(u) : a + k \in 1 .. b
  BY <1>1
<1> HIDE DEF n
<1>4. \A k \in 1 .. Len(u) : u[k] = v[k]
  BY <1>1, <1>2, <1>3
<1>5. u = v
  BY <1>1, <1>2, <1>4, SeqEqual
<1> QED
  BY <1>5 DEF u, v

\* Bytes added to a file leave a position in it as it was.
LEMMA InStepGrows ==
  ASSUME IInv, Up, InStep, FilesGrow,
         UNCHANGED <<fd, offset, pending, lines, stored>>
  PROVE  InStep'
<1> DEFINE F == files[fd]
           G == files'[fd]
           c == CommittedOffset
<1>1. /\ fd \in 1 .. Len(files)
      /\ F \in Seq(Byte)
      /\ c \in Nat
      /\ c + Len(pending) = offset
      /\ offset \in Nat
  BY PositionBounds DEF IInv, TypeOK
<1>2. Len(pending) \in Nat
  <2>1. pending \in Seq(Byte)
    BY DEF IInv, TypeOK
  <2> QED
    BY <2>1, LenProperties, Zenon
<1>3. /\ G \in Seq(Byte)
      /\ Len(G) >= Len(F)
      /\ \A k \in 1 .. Len(F) : G[k] = F[k]
  <2>1. fd \in 1 .. Len(files')
    BY <1>1 DEF FilesGrow
  <2>2. G \in Seq(Byte)
    BY <2>1, ElementOfSeq, Zenon DEF FilesGrow
  <2> QED
    BY <2>2, <1>1 DEF FilesGrow
<1>4. /\ offset <= Len(F)
      /\ pending = SubSeq(F, c + 1, offset)
      /\ \A k \in 1 .. c : F[k] > 0 =>
                              F[k] \in LinesIn(Range(stored) \cup Range(lines))
  BY DEF InStep
<1>5. CommittedOffset' = c
  BY DEF CommittedOffset
<1> HIDE DEF F, G, c
<1>6. offset <= Len(G) /\ \A k \in 1 .. offset : G[k] = F[k]
  <2>1. Len(F) \in Nat /\ Len(G) \in Nat
    BY <1>1, <1>3
  <2> QED
    BY <2>1, <1>1, <1>3, <1>4
<1>7. SubSeq(G, c + 1, offset) = SubSeq(F, c + 1, offset)
  BY <1>1, <1>3, <1>4, <1>6, SubSeqOfPrefix
<1>8. \A k \in 1 .. c : G[k] = F[k]
  BY <1>1, <1>2, <1>6
<1>9. \A k \in 1 .. c : G[k] > 0 =>
                           G[k] \in LinesIn(Range(stored) \cup Range(lines))
  BY <1>4, <1>8
<1> QED
  BY <1>4, <1>5, <1>6, <1>7, <1>9 DEF InStep, G

\* The same for the position in client.state.
LEMMA CheckpointGrows ==
  ASSUME IInv, path # 0, CheckpointInStep, FilesGrow,
         UNCHANGED <<path, ckpt, stored>>
  PROVE  CheckpointInStep'
<1>1. /\ path \in 1 .. Len(files)
      /\ files[path] \in Seq(Byte)
      /\ ckpt.offset \in Nat
  <2>1. path \in 1 .. Len(files) /\ ckpt.offset \in Nat
    BY CoreTypes
  <2> QED
    BY <2>1, FileTyped
<1>2. path \in 1 .. Len(files') /\ Len(files'[path]) >= Len(files[path])
  BY <1>1 DEF FilesGrow
<1>3. files'[path] \in Seq(Byte)
  BY <1>2, ElementOfSeq, Zenon DEF FilesGrow
<1>4. Len(files[path]) \in Nat /\ Len(files'[path]) \in Nat
  BY <1>1, <1>3, LenProperties, Zenon
<1>5. ckpt.offset <= Len(files[path])
  BY DEF CheckpointInStep
<1>6. \A k \in 1 .. ckpt.offset : k \in 1 .. Len(files[path])
  BY <1>1, <1>4, <1>5
<1>7. \A k \in 1 .. ckpt.offset : files'[path][k] = files[path][k]
  BY <1>1, <1>6 DEF FilesGrow
<1>8. ckpt.offset <= Len(files'[path])
  BY <1>1, <1>2, <1>4, <1>5
<1> QED
  BY <1>7, <1>8 DEF CheckpointInStep

LEMMA ExceptFile ==
  ASSUME NEW S, NEW s \in Seq(S), NEW w \in 1 .. Len(s), NEW e \in S,
         NEW t, t = [s EXCEPT ![w] = e]
  PROVE  /\ t \in Seq(S)
         /\ Len(t) = Len(s)
         /\ \A j \in 1 .. Len(s) : t[j] = IF j = w THEN e ELSE s[j]
BY ExceptSeq

LEMMA ByteTypes ==
  ASSUME IInv, NEW i \in 1 .. Len(files), NEW k \in DOMAIN files[i]
  PROVE  files[i][k] \in Byte /\ files[i][k] \in Int
<1>1. files \in Seq(Seq(Byte))
  BY DEF IInv, TypeOK
<1>2. files[i] \in Seq(Byte)
  BY <1>1, ElementOfSeq, Zenon
<1>3. files[i] \in [1 .. Len(files[i]) -> Byte]
  BY <1>2, LenProperties, Zenon
<1>4. files[i][k] \in Byte
  BY <1>3
<1> QED
  BY <1>4, BytesAreNumbers

LEMMA RemainderNext ==
  ASSUME NEW n \in Nat
  PROVE  /\ n % 3 = 0 => (n + 1) % 3 = 1
         /\ n % 3 = 1 => (n + 1) % 3 = 2
         /\ n % 3 = 2 => (n + 1) % 3 = 0
OBVIOUS

LEMMA WriteByteFiles ==
  ASSUME IInv, NEW b \in Byte, WriteByte(b)
  PROVE  LET n == Len(files[writer])
         IN  /\ FilesGrow
             /\ n \in Nat
             /\ writer \in 1 .. Len(files)
             /\ Len(files') = Len(files)
             /\ \A i \in 1 .. Len(files) : i # writer => files'[i] = files[i]
             /\ Len(files'[writer]) = n + 1
             /\ \A k \in 1 .. n : files'[writer][k] = files[writer][k]
             /\ files'[writer][n + 1] = b
<1> DEFINE F == files[writer]
           G == Append(F, b)
<1>1. /\ files \in Seq(Seq(Byte))
      /\ writer \in 1 .. Len(files)
  BY DEF IInv, TypeOK
<1>2. F \in Seq(Byte)
  BY <1>1, ElementOfSeq, Zenon
<1>3. Len(F) \in Nat
  BY <1>2, LenProperties, Zenon
<1>4. files' = [files EXCEPT ![writer] = G]
  BY DEF WriteByte
<1> HIDE DEF F
<1>5. /\ G \in Seq(Byte)
      /\ Len(G) = Len(F) + 1
      /\ \A k \in 1 .. Len(F) : G[k] = F[k]
      /\ G[Len(F) + 1] = b
  BY <1>2
<1> HIDE DEF G
<1>6. /\ files' \in Seq(Seq(Byte))
      /\ Len(files') = Len(files)
      /\ \A i \in 1 .. Len(files) : files'[i] = IF i = writer THEN G ELSE files[i]
  BY <1>1, <1>4, <1>5, ExceptFile
<1>7. files'[writer] = G
  BY <1>1, <1>6
<1>8. FilesGrow
  <2>1. ASSUME NEW i \in 1 .. Len(files)
        PROVE  /\ Len(files'[i]) >= Len(files[i])
               /\ \A k \in 1 .. Len(files[i]) : files'[i][k] = files[i][k]
    <3>1. CASE i = writer
      BY <3>1, <1>3, <1>5, <1>7 DEF F
    <3>2. CASE i # writer
      <4>1. files'[i] = files[i]
        BY <3>2, <1>6
      <4>2. files[i] \in Seq(Byte)
        BY <1>1, ElementOfSeq, Zenon
      <4>3. Len(files[i]) \in Nat
        BY <4>2, LenProperties, Zenon
      <4> QED
        BY <4>1, <4>3
    <3> QED
      BY <3>1, <3>2
  <2>2. Len(files) \in Nat
    BY <1>1, LenProperties, Zenon
  <2> QED
    BY <2>1, <2>2, <1>6 DEF FilesGrow
<1> QED
  BY <1>1, <1>3, <1>5, <1>6, <1>7, <1>8 DEF F

\* A write in front of a position that a truncation has made wrong keeps the
\* file too short for it.
LEMMA WriteByteReader ==
  ASSUME IInv, NEW b \in Byte, WriteByte(b)
  PROVE  ReaderOK' /\ CheckpointOK'
<1>1. /\ UNCHANGED <<fd, offset, pending, lines, stored, path, writer, stale, pc, ckpt>>
      /\ MayWrite
  BY DEF WriteByte, EnvKeeps, readerVars, producerVars
<1>2. /\ FilesGrow
      /\ writer \in 1 .. Len(files)
      /\ Len(files[writer]) \in Nat
      /\ Len(files') = Len(files)
      /\ \A i \in 1 .. Len(files) : i # writer => files'[i] = files[i]
      /\ Len(files'[writer]) = Len(files[writer]) + 1
  BY WriteByteFiles
<1>3. \A p \in StalePositions \ {0} : Len(files[writer]) + 1 < p
  BY <1>1 DEF MayWrite
<1>4. ReaderOK'
  <2> SUFFICES ASSUME Up PROVE InStep' \/ Shrunk'
    BY <1>1 DEF ReaderOK, Up
  <2>1. CASE InStep
    BY <2>1, <1>1, <1>2, InStepGrows
  <2>2. CASE Shrunk
    <3>1. /\ fd \in 1 .. Len(files)
          /\ CommittedOffset \in Nat
          /\ offset \in Nat
      BY PositionBounds DEF IInv, TypeOK
    <3>2. CommittedOffset' = CommittedOffset
      BY <1>1 DEF CommittedOffset
    <3>3. CASE fd # writer
      BY <3>1, <3>2, <3>3, <2>2, <1>1, <1>2 DEF Shrunk
    <3>4. CASE fd = writer
      <4>1. "reader" \in stale
        BY <3>4, <2>2, <1>2 DEF Shrunk
      <4>2. {offset, CommittedOffset} \subseteq StalePositions
        BY <4>1 DEF StalePositions
      <4>3. offset # 0
        BY <3>1, <3>4, <2>2, <1>2 DEF Shrunk
      <4>4. Len(files'[fd]) < offset
        BY <4>2, <4>3, <3>4, <1>2, <1>3
      <4>5. CommittedOffset # 0 => Len(files'[fd]) < CommittedOffset
        BY <4>2, <3>4, <1>2, <1>3
      <4> QED
        BY <4>1, <4>4, <4>5, <3>2, <1>1 DEF Shrunk
    <3> QED
      BY <3>3, <3>4
  <2> QED
    BY <2>1, <2>2 DEF IInv, ReaderOK
<1>5. CheckpointOK'
  <2>1. ckpt.inode = 0 => ckpt.offset = 0 \/ path = 1
    BY DEF IInv, CheckpointOK
  <2>2. ASSUME path # 0, ckpt.inode \in {0, path}
        PROVE  CheckpointInStep' \/ CheckpointShrunk'
    <3>1. CASE CheckpointInStep
      BY <3>1, <2>2, <1>1, <1>2, CheckpointGrows
    <3>2. CASE CheckpointShrunk
      <4>1. path \in 1 .. Len(files) /\ ckpt.offset \in Nat
        BY <2>2 DEF IInv, TypeOK
      <4>2. CASE path # writer
        BY <4>1, <4>2, <3>2, <1>1, <1>2 DEF CheckpointShrunk
      <4>3. CASE path = writer
        <5>1. ckpt.offset \in StalePositions \ {0}
          BY <4>1, <4>3, <3>2, <1>2 DEF StalePositions, CheckpointShrunk
        <5> QED
          BY <5>1, <4>3, <3>2, <1>1, <1>2, <1>3 DEF CheckpointShrunk
      <4> QED
        BY <4>2, <4>3
    <3> QED
      BY <3>1, <3>2, <2>2 DEF IInv, CheckpointOK
  <2> QED
    BY <2>1, <2>2, <1>1 DEF CheckpointOK
<1> QED
  BY <1>4, <1>5

\* What a step of the environment that leaves the reader and the counters alone
\* keeps of the rest.
LEMMA EnvKeepsRest ==
  ASSUME IInv, EnvKeeps, Len(files') \in Nat, Len(files') >= Len(files),
         pc = "down" => "reader" \notin stale', stale' \subseteq {"reader", "checkpoint"},
         truncated' \in 0 .. MaxTruncate
  PROVE  /\ ReaderTypes' /\ FlagTypes' /\ ProducerTypes' /\ CountTypes'
         /\ ControlOK'
         /\ AllWhole'
<1>1. /\ UNCHANGED <<fd, offset, pending, switchOnNext, replaced, size, lines>>
      /\ UNCHANGED <<pc, stored, ckpt, ends, unclean, env>>
  BY DEF EnvKeeps, readerVars, producerVars, countVars
<1>2. CommittedOffset' = CommittedOffset
  BY <1>1 DEF CommittedOffset
<1>3. Len(files) \in Nat
  BY DEF IInv, TypeOK
<1>4. ReaderTypes'
  BY <1>1, <1>2, <1>3, TypeParts DEF IInv, ReaderTypes
<1>5. FlagTypes'
  BY <1>1, TypeParts, Zenon DEF IInv, FlagTypes
<1>6. ProducerTypes'
  BY <1>1, <1>3, TypeParts DEF IInv, ProducerTypes
<1>7. CountTypes'
  BY <1>1, TypeParts DEF IInv, CountTypes
<1>8. ControlOK'
  <2>1. fd < Len(files) => fd' < Len(files')
    BY <1>1, <1>3 DEF IInv, TypeOK
  <2>2. pc' = "down" => /\ fd' = 0
                        /\ offset' = 0
                        /\ pending' = << >>
                        /\ "reader" \notin stale'
    BY <1>1 DEF IInv, ControlOK
  <2> QED
    BY <2>1, <2>2, <1>1, <1>2 DEF IInv, ControlOK, Up
<1>9. AllWhole'
  BY <1>1 DEF IInv, AllWhole
<1> QED
  BY <1>4, <1>5, <1>6, <1>7, <1>8, <1>9

\* The bytes after a write are those before it and the new one.
LEMMA WrittenBytes ==
  ASSUME IInv, NEW b \in Byte, WriteByte(b)
  PROVE  LET n == Len(files[writer])
         IN  /\ n \in Nat
             /\ writer \in 1 .. Len(files)
             /\ Len(files') = Len(files)
             /\ Len(files'[writer]) = n + 1
             /\ files'[writer][n + 1] = b
             /\ DOMAIN files = 1 .. Len(files)
             /\ DOMAIN files' = 1 .. Len(files)
             /\ DOMAIN files[writer] = 1 .. n
             /\ DOMAIN files'[writer] = 1 .. n + 1
             /\ \A i \in 1 .. Len(files) : i # writer => files'[i] = files[i]
             /\ \A k \in 1 .. n : files'[writer][k] = files[writer][k]
             /\ \A i \in 1 .. Len(files) : \A k \in DOMAIN files'[i] :
                   \/ k \in DOMAIN files[i] /\ files'[i][k] = files[i][k]
                   \/ i = writer /\ k = n + 1 /\ files'[i][k] = b
             /\ \A i \in 1 .. Len(files) : i > writer => files'[i] = << >>
<1> DEFINE n == Len(files[writer])
<1>1. /\ n \in Nat
      /\ writer \in 1 .. Len(files)
      /\ Len(files') = Len(files)
      /\ \A i \in 1 .. Len(files) : i # writer => files'[i] = files[i]
      /\ Len(files'[writer]) = n + 1
      /\ \A k \in 1 .. n : files'[writer][k] = files[writer][k]
      /\ files'[writer][n + 1] = b
  BY WriteByteFiles
<1>2. files' \in Seq(Seq(Byte)) /\ files \in Seq(Seq(Byte))
  BY WriteByteFiles DEF FilesGrow, IInv, TypeOK
<1>3. /\ DOMAIN files = 1 .. Len(files)
      /\ DOMAIN files' = 1 .. Len(files)
      /\ DOMAIN files[writer] = 1 .. n
      /\ DOMAIN files'[writer] = 1 .. n + 1
  BY <1>1, <1>2
<1>4. \A i \in 1 .. Len(files) : \A k \in DOMAIN files'[i] :
         \/ k \in DOMAIN files[i] /\ files'[i][k] = files[i][k]
         \/ i = writer /\ k = n + 1 /\ files'[i][k] = b
  BY <1>1, <1>3
<1>5. \A i \in 1 .. Len(files) : i > writer => files'[i] = << >>
  <2>1. \A i \in 1 .. Len(files) : i > writer => files[i] = << >>
    BY <1>3 DEF IInv, FilesOK, WriterAtEnd
  <2> QED
    BY <2>1, <1>1
<1> HIDE DEF n
<1> QED
  BY <1>1, <1>3, <1>4, <1>5 DEF n

LEMMA WrittenAlternate ==
  ASSUME IInv, NEW b \in Byte, WriteByte(b), NEW n, n = Len(files[writer]),
         b = Newline <=> (n + 1) % 3 = 0,
         (n + 1) % 3 = 1 => b \in 1 .. MaxLine,
         (n + 1) % 3 = 2 => b = -files[writer][n]
  PROVE  FilesAlternate'
<1>1. /\ n \in Nat
      /\ writer \in 1 .. Len(files)
      /\ DOMAIN files = 1 .. Len(files)
      /\ DOMAIN files' = 1 .. Len(files)
      /\ DOMAIN files[writer] = 1 .. n
      /\ DOMAIN files'[writer] = 1 .. n + 1
      /\ files'[writer][n + 1] = b
      /\ \A i \in 1 .. Len(files) : i # writer => files'[i] = files[i]
      /\ \A k \in 1 .. n : files'[writer][k] = files[writer][k]
  BY WrittenBytes
<1>2. \A i \in 1 .. Len(files) : Alternates(files[i])
  BY <1>1 DEF IInv, FilesOK, FilesAlternate
<1> SUFFICES ASSUME NEW i \in 1 .. Len(files)
             PROVE  Alternates(files'[i])
  BY <1>1 DEF FilesAlternate
<1>3. CASE i # writer
  BY <1>1, <1>2, <1>3
<1>4. CASE i = writer
  <2> DEFINE F == files[writer]
             G == files'[writer]
  <2>1. Alternates(F)
    BY <1>1, <1>2
  <2>2. /\ DOMAIN F = 1 .. n
        /\ DOMAIN G = 1 .. n + 1
        /\ G[n + 1] = b
        /\ \A k \in 1 .. n : G[k] = F[k]
        /\ (n + 1) % 3 = 2 => b = -F[n]
    BY <1>1
  <2> HIDE DEF F, G
  <2>3. ASSUME NEW k \in 1 .. n + 1
        PROVE  /\ G[k] = Newline <=> k % 3 = 0
               /\ k % 3 = 1 => G[k] \in 1 .. MaxLine
               /\ k % 3 = 2 => G[k] = -G[k - 1]
    <3>1. CASE k \in 1 .. n
      <4>1. /\ F[k] = Newline <=> k % 3 = 0
            /\ k % 3 = 1 => F[k] \in 1 .. MaxLine
            /\ k % 3 = 2 => F[k] = -F[k - 1]
        BY <2>1, <2>2, <3>1, Zenon DEF Alternates
      <4>2. k % 3 = 2 => k - 1 \in 1 .. n
        BY <3>1, <1>1
      <4>3. G[k] = F[k] /\ (k % 3 = 2 => G[k - 1] = F[k - 1])
        BY <4>2, <3>1, <2>2
      <4> QED
        BY <4>1, <4>3, Zenon
    <3>2. CASE k = n + 1
      <4>1. (n + 1) % 3 = 2 => n \in 1 .. n /\ (n + 1) - 1 = n
        BY <1>1
      <4>2. (n + 1) % 3 = 2 => G[(n + 1) - 1] = F[n]
        BY <4>1, <2>2
      <4> QED
        BY <3>2, <4>2, <2>2
    <3> QED
      BY <3>1, <3>2, <1>1
  <2>4. Alternates(G)
    BY <2>2, <2>3, Zenon DEF Alternates
  <2> QED
    BY <2>4, <1>4 DEF G
<1> QED
  BY <1>3, <1>4

LEMMA WrittenAscend ==
  ASSUME IInv, NEW b \in Byte, WriteByte(b),
         b > 0 => \A i \in 1 .. Len(files) : \A k \in DOMAIN files[i] : files[i][k] < b
  PROVE  FilesAscend'
<1> DEFINE n == Len(files[writer])
<1>1. /\ n \in Nat
      /\ writer \in 1 .. Len(files)
      /\ DOMAIN files = 1 .. Len(files)
      /\ DOMAIN files' = 1 .. Len(files)
      /\ DOMAIN files'[writer] = 1 .. n + 1
      /\ \A i \in 1 .. Len(files) : \A k \in DOMAIN files'[i] :
            \/ k \in DOMAIN files[i] /\ files'[i][k] = files[i][k]
            \/ i = writer /\ k = n + 1 /\ files'[i][k] = b
      /\ \A i \in 1 .. Len(files) : i > writer => files'[i] = << >>
  BY WrittenBytes
<1> HIDE DEF n
<1> SUFFICES ASSUME NEW i \in 1 .. Len(files), NEW j \in 1 .. Len(files),
                    NEW k \in DOMAIN files'[i], NEW m \in DOMAIN files'[j],
                    files'[i][k] > 0, files'[j][m] > 0,
                    i < j \/ (i = j /\ k < m)
             PROVE  files'[i][k] < files'[j][m]
  BY <1>1 DEF FilesAscend
<1>2. CASE k \in DOMAIN files[i] /\ files'[i][k] = files[i][k]
  <2>1. CASE m \in DOMAIN files[j] /\ files'[j][m] = files[j][m]
    BY <1>1, <1>2, <2>1 DEF IInv, FilesOK, FilesAscend
  <2>2. CASE j = writer /\ m = n + 1 /\ files'[j][m] = b
    BY <1>2, <2>2
  <2> QED
    BY <2>1, <2>2, <1>1
<1>3. CASE i = writer /\ k = n + 1 /\ files'[i][k] = b
  <2>1. CASE i < j
    <3>1. files'[j] = << >>
      BY <2>1, <1>1, <1>3
    <3> QED
      BY <3>1
  <2>2. CASE i = j /\ k < m
    BY <2>2, <1>1, <1>3
  <2> QED
    BY <2>1, <2>2
<1> QED
  BY <1>2, <1>3, <1>1

LEMMA WrittenEnd ==
  ASSUME IInv, NEW b \in Byte, WriteByte(b), NEW n, n = Len(files[writer]),
         line' \in Nat, line <= line',
         \A v \in Int : v < line \/ (midLine /\ v = line)
                          => v < line' \/ (midLine' /\ v = line'),
         b < line' \/ (midLine' /\ b = line'),
         midLine' => /\ line' <= MaxLine
                     /\ \/ (n + 1) % 3 = 1 /\ b = line'
                        \/ (n + 1) % 3 = 2 /\ b = -line',
         ~ midLine' => (n + 1) % 3 = 0
  PROVE  WriterAtEnd'
<1>1. /\ n \in Nat
      /\ writer \in 1 .. Len(files)
      /\ Len(files') = Len(files)
      /\ Len(files'[writer]) = n + 1
      /\ files'[writer][n + 1] = b
      /\ DOMAIN files = 1 .. Len(files)
      /\ DOMAIN files' = 1 .. Len(files)
      /\ \A i \in 1 .. Len(files) : \A k \in DOMAIN files'[i] :
            \/ k \in DOMAIN files[i] /\ files'[i][k] = files[i][k]
            \/ i = writer /\ k = n + 1 /\ files'[i][k] = b
      /\ \A i \in 1 .. Len(files) : i > writer => files'[i] = << >>
  BY WrittenBytes
<1>2. UNCHANGED <<path, writer, env>>
  BY DEF WriteByte, EnvKeeps, countVars
<1>3. ASSUME NEW i \in 1 .. Len(files), NEW k \in DOMAIN files'[i]
      PROVE  \/ files'[i][k] < line'
             \/ midLine' /\ i = writer /\ files'[i][k] = line'
  <2>1. CASE k \in DOMAIN files[i] /\ files'[i][k] = files[i][k]
    <3>1. files[i][k] < line \/ (midLine /\ i = writer /\ files[i][k] = line)
      BY <2>1, <1>1 DEF IInv, FilesOK, WriterAtEnd
    <3>2. files[i][k] \in Int
      BY <2>1, ByteTypes
    <3>3. CASE i = writer
      BY <3>1, <3>2, <3>3, <2>1, Zenon
    <3>4. CASE i # writer
      <4>1. files[i][k] < line
        BY <3>1, <3>4
      <4>2. line \in Nat
        BY DEF IInv, TypeOK
      <4> QED
        BY <4>1, <4>2, <3>2, <2>1
    <3> QED
      BY <3>3, <3>4
  <2>2. CASE i = writer /\ k = n + 1 /\ files'[i][k] = b
    BY <2>2
  <2> QED
    BY <2>1, <2>2, <1>1
<1>4. /\ path \in {0, Len(files)}
      /\ "lag" \notin env => writer = Len(files)
      /\ path = 0 => Len(files) < MaxFiles
  BY DEF IInv, FilesOK, WriterAtEnd
<1> QED
  BY <1>1, <1>2, <1>3, <1>4 DEF WriterAtEnd

LEMMA LineTyped ==
  ASSUME IInv
  PROVE  /\ line \in Nat /\ line >= 1
         /\ line <= MaxLine => line \in Byte /\ -line \in Byte
         /\ writer \in 1 .. Len(files)
         /\ Len(files[writer]) \in Nat
<1>1. line \in 1 .. MaxLine + 1 /\ MaxLine \in Nat
  BY ConstantTypes DEF IInv, TypeOK
<1>2. writer \in 1 .. Len(files)
  BY CoreTypes
<1>3. Len(files[writer]) \in Nat
  BY <1>2, FileTyped
<1>4. line <= MaxLine => line \in 1 .. MaxLine
  BY <1>1
<1>5. line <= MaxLine => line \in Byte /\ -line \in Byte
  BY <1>4, BytesAreNumbers
<1> QED
  BY <1>1, <1>2, <1>3, <1>5

LEMMA WriteTextFiles ==
  ASSUME IInv, WriteText
  PROVE  FilesOK'
<1> DEFINE n == Len(files[writer])
<1>1. /\ ~ midLine
      /\ line <= MaxLine
      /\ WriteByte(line)
      /\ midLine'
      /\ line' = line
  BY DEF WriteText
<1>2. line \in Nat /\ line >= 1 /\ line \in Byte /\ n \in Nat
  BY <1>1, LineTyped
<1>3. (n + 1) % 3 = 1
  <2>1. n % 3 = 0
    BY <1>1 DEF IInv, FilesOK, WriterAtEnd
  <2> QED
    BY <2>1, <1>2, RemainderNext
<1>4. \A i \in 1 .. Len(files) : \A k \in DOMAIN files[i] : files[i][k] < line
  BY <1>1, CoreTypes DEF IInv, FilesOK, WriterAtEnd
<1> HIDE DEF n
<1>5. FilesAlternate'
  <2>1. /\ line = Newline <=> (n + 1) % 3 = 0
        /\ (n + 1) % 3 = 1 => line \in 1 .. MaxLine
        /\ (n + 1) % 3 # 2
    BY <1>1, <1>2, <1>3, ConstantTypes DEF Newline
  <2> QED
    BY <2>1, <1>1, <1>2, WrittenAlternate DEF n
<1>6. FilesAscend'
  BY <1>1, <1>2, <1>4, WrittenAscend
<1>7. WriterAtEnd'
  <2>1. /\ line' \in Nat
        /\ line <= line'
        /\ \A v \in Int : v < line \/ (midLine /\ v = line)
                          => v < line' \/ (midLine' /\ v = line')
        /\ line < line' \/ (midLine' /\ line = line')
        /\ midLine' => /\ line' <= MaxLine
                       /\ \/ (n + 1) % 3 = 1 /\ line = line'
                          \/ (n + 1) % 3 = 2 /\ line = -line'
        /\ ~ midLine' => (n + 1) % 3 = 0
    BY <1>1, <1>2, <1>3
  <2> QED
    BY <2>1, <1>1, <1>2, WrittenEnd DEF n
<1> QED
  BY <1>5, <1>6, <1>7 DEF FilesOK

LEMMA WriteRestFiles ==
  ASSUME IInv, WriteRest
  PROVE  FilesOK'
<1> DEFINE n == Len(files[writer])
<1>1. /\ midLine
      /\ files[writer][n] = line
      /\ WriteByte(-line)
      /\ midLine'
      /\ line' = line
  BY DEF WriteRest, LastByte
<1>2. line <= MaxLine
  BY <1>1 DEF IInv, FilesOK, WriterAtEnd
<1>3. line \in Nat /\ line >= 1 /\ -line \in Byte /\ n \in Nat
  BY <1>2, LineTyped
<1>4. (n + 1) % 3 = 2
  <2>1. \/ n % 3 = 1
        \/ files[writer][n] = -line
    BY <1>1 DEF IInv, FilesOK, WriterAtEnd
  <2>0. line # -line
    BY <1>3
  <2>2. n % 3 = 1
    BY <2>0, <2>1, <1>1, Zenon
  <2> QED
    BY <2>2, <1>3, RemainderNext
<1> DEFINE b == -line
<1>5. b \in Int /\ b < 0 /\ b \in Byte /\ WriteByte(b) /\ b = -files[writer][n]
  BY <1>1, <1>3
<1> HIDE DEF n, b
<1>6. FilesAlternate'
  <2>1. /\ b = Newline <=> (n + 1) % 3 = 0
        /\ (n + 1) % 3 # 1
    BY <1>4, <1>5 DEF Newline
  <2> QED
    BY <2>1, <1>5, WrittenAlternate DEF n
<1>7. FilesAscend'
  <2>1. ~ (b > 0)
    BY <1>5
  <2> QED
    BY <2>1, <1>5, WrittenAscend
<1>8. WriterAtEnd'
  <2>1. /\ line' \in Nat
        /\ line <= line'
        /\ b < line'
        /\ line' <= MaxLine
        /\ (n + 1) % 3 = 2 /\ b = -line'
    BY <1>1, <1>2, <1>3, <1>4 DEF b
  <2>2. /\ midLine' = TRUE
        /\ \A v \in Int : v < line \/ (midLine /\ v = line)
                          => v < line' \/ (midLine' /\ v = line')
    BY <1>1
  <2> QED
    BY <2>1, <2>2, <1>1, <1>5, WrittenEnd DEF n
<1> QED
  BY <1>6, <1>7, <1>8 DEF FilesOK

LEMMA WriteNewlineFiles ==
  ASSUME IInv, WriteNewline
  PROVE  FilesOK'
<1> DEFINE n == Len(files[writer])
<1>1. /\ midLine
      /\ files[writer][n] = -line
      /\ WriteByte(Newline)
      /\ ~ midLine'
      /\ line' = line + 1
  BY DEF WriteNewline, LastByte
<1>2. line \in Nat /\ line >= 1 /\ n \in Nat /\ Newline \in Byte
  BY LineTyped, BytesAreNumbers
<1>3. (n + 1) % 3 = 0
  <2>1. \/ n % 3 = 2
        \/ files[writer][n] = line
    BY <1>1 DEF IInv, FilesOK, WriterAtEnd
  <2>0. line # -line
    BY <1>2
  <2>2. n % 3 = 2
    BY <2>0, <2>1, <1>1, Zenon
  <2> QED
    BY <2>2, <1>2, RemainderNext
<1> HIDE DEF n
<1>4. FilesAlternate'
  <2>1. /\ Newline = Newline <=> (n + 1) % 3 = 0
        /\ (n + 1) % 3 # 1
        /\ (n + 1) % 3 # 2
    BY <1>3
  <2> QED
    BY <2>1, <1>1, <1>2, WrittenAlternate DEF n
<1>5. FilesAscend'
  <2>1. ~ (Newline > 0)
    BY DEF Newline
  <2> QED
    BY <2>1, <1>1, <1>2, WrittenAscend
<1>6. WriterAtEnd'
  <2>1. /\ line' \in Nat
        /\ line <= line'
        /\ Newline < line'
        /\ (n + 1) % 3 = 0
        /\ \A v \in Int : v < line \/ v = line => v < line'
    BY <1>1, <1>2, <1>3 DEF Newline
  <2> QED
    BY <2>1, <1>1, <1>2, WrittenEnd DEF n
<1> QED
  BY <1>4, <1>5, <1>6 DEF FilesOK

LEMMA SomeByte ==
  ASSUME IInv, WriteText \/ WriteRest \/ WriteNewline
  PROVE  \E b \in Byte : WriteByte(b)
<1>1. line <= MaxLine => line \in Byte /\ -line \in Byte
  BY LineTyped
<1>2. Newline \in Byte
  BY BytesAreNumbers
<1>3. midLine => line <= MaxLine
  BY DEF IInv, FilesOK, WriterAtEnd
<1> QED
  BY <1>1, <1>2, <1>3 DEF WriteText, WriteRest, WriteNewline

LEMMA WriteKeeps ==
  ASSUME IInv, WriteText \/ WriteRest \/ WriteNewline
  PROVE  IInv'
<1>1. PICK b \in Byte : WriteByte(b)
  BY SomeByte
<1>2. FilesGrow /\ Len(files') = Len(files)
  BY <1>1, WriteByteFiles
<1>3. UNCHANGED <<path, writer, stale, truncated>> /\ EnvKeeps
  BY <1>1 DEF WriteByte
<1>4. FilesOK'
  BY WriteTextFiles, WriteRestFiles, WriteNewlineFiles
<1>5. ReaderOK' /\ CheckpointOK'
  BY <1>1, WriteByteReader
<1>6. FileTypes'
  <2>1. line' \in 1 .. MaxLine + 1 /\ midLine' \in BOOLEAN
    <3>1. CASE WriteText
      BY <3>1 DEF WriteText, IInv, TypeOK
    <3>2. CASE WriteRest
      BY <3>2 DEF WriteRest, IInv, TypeOK
    <3>3. CASE WriteNewline
      <4>1. line <= MaxLine /\ line' = line + 1
        BY <3>3 DEF WriteNewline, IInv, FilesOK, WriterAtEnd
      <4>2. midLine' \in BOOLEAN
        BY <3>3, Zenon DEF WriteNewline
      <4> QED
        BY <4>1, <4>2, ConstantTypes DEF IInv, TypeOK
    <3> QED
      BY <3>1, <3>2, <3>3
  <2> QED
    BY <2>1, <1>2, <1>3, TypeParts DEF IInv, FileTypes, FilesGrow
<1>7. /\ ReaderTypes' /\ FlagTypes' /\ ProducerTypes' /\ CountTypes'
      /\ ControlOK'
      /\ AllWhole'
  <2>1. /\ Len(files') \in Nat
        /\ Len(files') >= Len(files)
        /\ pc = "down" => "reader" \notin stale'
        /\ stale' \subseteq {"reader", "checkpoint"}
        /\ truncated' \in 0 .. MaxTruncate
    <3>1. Len(files') \in Nat /\ Len(files') >= Len(files)
      BY <1>2, CoreTypes
    <3>2. pc = "down" => "reader" \notin stale
      BY Zenon DEF IInv, ControlOK
    <3>3. stale \subseteq {"reader", "checkpoint"} /\ truncated \in 0 .. MaxTruncate
      BY CoreTypes
    <3> QED
      BY <3>1, <3>2, <3>3, <1>3, Zenon
  <2> QED
    BY <2>1, <1>3, EnvKeepsRest
<1> QED
  BY <1>4, <1>5, <1>6, <1>7, TypePartsPrimed DEF IInv

\* A step that leaves the files as they are, with a writer that may move on.
LEMMA PositionsKept ==
  ASSUME IInv, EnvKeeps, UNCHANGED <<files, stale>>, writer' \in Nat, writer' >= writer
  PROVE  ReaderOK'
<1>1. UNCHANGED <<fd, offset, pending, lines, stored, pc>>
  BY DEF EnvKeeps, readerVars, producerVars
<1>2. CommittedOffset' = CommittedOffset
  BY <1>1 DEF CommittedOffset
<1>3. InStep => InStep'
  BY <1>1, <1>2 DEF InStep
<1>4. Shrunk => Shrunk'
  <2>1. fd \in Nat /\ writer \in Nat
    BY DEF IInv, TypeOK
  <2> QED
    BY <2>1, <1>1, <1>2 DEF Shrunk
<1> QED
  BY <1>1, <1>3, <1>4 DEF IInv, ReaderOK, Up

LEMMA MoveAwayKeeps ==
  ASSUME IInv, MoveAway
  PROVE  IInv'
<1>1. /\ path' = 0
      /\ Len(files) < MaxFiles
      /\ ckpt.inode # 0 \/ ckpt.offset = 0
      /\ UNCHANGED <<files, writer, line, midLine, stale, truncated>>
      /\ EnvKeeps
  BY DEF MoveAway, writerVars
<1>2. UNCHANGED <<ckpt, env>>
  BY <1>1 DEF EnvKeeps, producerVars, countVars
<1>3. /\ Len(files) \in Nat
      /\ writer \in Nat
  BY DEF IInv, TypeOK
<1>4. FileTypes'
  BY <1>1, <1>3, TypeParts DEF IInv, FileTypes
<1>5. FilesOK'
  <2>1. FilesAlternate' /\ FilesAscend'
    BY <1>1 DEF IInv, FilesOK, FilesAlternate, Alternates, FilesAscend
  <2>2. WriterAtEnd'
    BY <1>1, <1>2 DEF IInv, FilesOK, WriterAtEnd
  <2> QED
    BY <2>1, <2>2 DEF FilesOK
<1>6. ReaderOK'
  BY <1>1, <1>3, PositionsKept
<1>7. CheckpointOK'
  BY <1>1, <1>2 DEF CheckpointOK
<1>8. /\ ReaderTypes' /\ FlagTypes' /\ ProducerTypes' /\ CountTypes'
      /\ ControlOK'
      /\ AllWhole'
  <2>1. /\ Len(files') \in Nat
        /\ Len(files') >= Len(files)
        /\ pc = "down" => "reader" \notin stale'
        /\ stale' \subseteq {"reader", "checkpoint"}
        /\ truncated' \in 0 .. MaxTruncate
    <3>1. Len(files') \in Nat /\ Len(files') >= Len(files)
      BY <1>1, CoreTypes
    <3>2. pc = "down" => "reader" \notin stale
      BY Zenon DEF IInv, ControlOK
    <3>3. stale \subseteq {"reader", "checkpoint"} /\ truncated \in 0 .. MaxTruncate
      BY CoreTypes
    <3> QED
      BY <3>1, <3>2, <3>3, <1>1, Zenon
  <2> QED
    BY <2>1, <1>1, EnvKeepsRest
<1> QED
  BY <1>4, <1>5, <1>6, <1>7, <1>8, TypePartsPrimed DEF IInv

\* The writer leaves its line where it is; the next one has the next number.
LEMMA LineAfterTurn ==
  ASSUME IInv, line' = IF midLine THEN line + 1 ELSE line
  PROVE  /\ line' \in 1 .. MaxLine + 1
         /\ \A i \in 1 .. Len(files) : \A k \in DOMAIN files[i] : files[i][k] < line'
<1>1. line \in 1 .. MaxLine + 1 /\ midLine \in BOOLEAN
  BY DEF IInv, TypeOK
<1>2. line' \in 1 .. MaxLine + 1
  <2>1. midLine => line <= MaxLine
    BY DEF IInv, FilesOK, WriterAtEnd
  <2> QED
    BY <2>1, <1>1, ConstantTypes
<1>3. ASSUME NEW i \in 1 .. Len(files), NEW k \in DOMAIN files[i]
      PROVE  files[i][k] < line'
  <2>1. files[i][k] \in Int
    BY ByteTypes
  <2>2. i \in DOMAIN files
    BY DEF IInv, TypeOK
  <2>3. files[i][k] < line \/ (midLine /\ files[i][k] = line)
    BY <2>2 DEF IInv, FilesOK, WriterAtEnd
  <2>4. line \in Nat
    BY <1>1, ConstantTypes
  <2> QED
    BY <2>1, <2>3, <2>4
<1> QED
  BY <1>2, <1>3

LEMMA ReopenKeeps ==
  ASSUME IInv, Reopen
  PROVE  IInv'
<1>1. /\ path \notin {0, writer}
      /\ writer' = path
      /\ midLine' = FALSE
      /\ line' = IF midLine THEN line + 1 ELSE line
      /\ UNCHANGED <<files, path, stale, truncated>>
      /\ EnvKeeps
  BY DEF Reopen, WriterTurnsTo, fileVars
<1>2. UNCHANGED <<ckpt, env, stored>>
  BY <1>1 DEF EnvKeeps, producerVars, countVars
<1>3. /\ Len(files) \in Nat
      /\ writer \in 1 .. Len(files)
      /\ path = Len(files)
      /\ path \in 1 .. Len(files)
      /\ path > writer
      /\ DOMAIN files = 1 .. Len(files)
  BY <1>1 DEF IInv, TypeOK, FilesOK, WriterAtEnd
<1>4. files[path] = << >>
  BY <1>3 DEF IInv, FilesOK, WriterAtEnd
<1>5. /\ line' \in 1 .. MaxLine + 1
      /\ \A i \in 1 .. Len(files) : \A k \in DOMAIN files[i] : files[i][k] < line'
  BY <1>1, LineAfterTurn
<1>6. FileTypes'
  <2>1. midLine' \in BOOLEAN
    BY <1>1, Zenon
  <2> QED
    BY <2>1, <1>1, <1>3, <1>5, TypeParts DEF IInv, FileTypes
<1>7. FilesOK'
  <2>1. FilesAlternate' /\ FilesAscend'
    BY <1>1 DEF IInv, FilesOK, FilesAlternate, Alternates, FilesAscend
  <2>2. WriterAtEnd'
    <3>1. Len(files'[writer']) = 0 /\ ~ midLine'
      BY <1>1, <1>4
    <3>2. \A i \in DOMAIN files' : ~ (i > writer')
      BY <1>1, <1>3
    <3> QED
      BY <3>1, <3>2, <1>1, <1>2, <1>3, <1>5 DEF WriterAtEnd
  <2> QED
    BY <2>1, <2>2 DEF FilesOK
<1>8. ReaderOK'
  BY <1>1, <1>3, PositionsKept
<1>9. CheckpointOK'
  BY <1>1, <1>2 DEF IInv, CheckpointOK, CheckpointInStep, CheckpointShrunk
<1>10. /\ ReaderTypes' /\ FlagTypes' /\ ProducerTypes' /\ CountTypes'
       /\ ControlOK'
       /\ AllWhole'
  <2>1. /\ Len(files') \in Nat
        /\ Len(files') >= Len(files)
        /\ pc = "down" => "reader" \notin stale'
        /\ stale' \subseteq {"reader", "checkpoint"}
        /\ truncated' \in 0 .. MaxTruncate
    <3>1. Len(files') \in Nat /\ Len(files') >= Len(files)
      BY <1>1, CoreTypes
    <3>2. pc = "down" => "reader" \notin stale
      BY Zenon DEF IInv, ControlOK
    <3>3. stale \subseteq {"reader", "checkpoint"} /\ truncated \in 0 .. MaxTruncate
      BY CoreTypes
    <3> QED
      BY <3>1, <3>2, <3>3, <1>1, Zenon
  <2> QED
    BY <2>1, <1>1, EnvKeepsRest
<1> QED
  BY <1>6, <1>7, <1>8, <1>9, <1>10, TypePartsPrimed DEF IInv

LEMMA AppendFile ==
  ASSUME NEW S, NEW s \in Seq(S), NEW e \in S, NEW t, t = Append(s, e)
  PROVE  /\ t \in Seq(S)
         /\ Len(t) = Len(s) + 1
         /\ t[Len(s) + 1] = e
         /\ \A j \in 1 .. Len(s) : t[j] = s[j]
BY AppendProperties

LEMMA CreateNewKeeps ==
  ASSUME IInv, CreateNew
  PROVE  IInv'
<1> DEFINE n == Len(files)
<1>1. /\ path = 0
      /\ files' = Append(files, << >>)
      /\ path' = n + 1
      /\ UNCHANGED <<stale, truncated>>
      /\ EnvKeeps
  BY DEF CreateNew
<1>2. /\ UNCHANGED <<ckpt, env, stored>>
      /\ UNCHANGED <<fd, offset, pending, lines, pc>>
  BY <1>1 DEF EnvKeeps, producerVars, countVars, readerVars
<1>3. /\ files \in Seq(Seq(Byte))
      /\ n \in Nat
      /\ writer \in 1 .. n
      /\ n \in 1 .. MaxFiles
      /\ MaxFiles \in Nat
      /\ n < MaxFiles
      /\ DOMAIN files = 1 .. n
  BY <1>1, ConstantTypes DEF IInv, TypeOK, FilesOK, WriterAtEnd
<1>4. /\ files' \in Seq(Seq(Byte))
      /\ Len(files') = n + 1
      /\ files'[n + 1] = << >>
      /\ \A j \in 1 .. n : files'[j] = files[j]
  <2>1. << >> \in Seq(Byte)
    OBVIOUS
  <2> QED
    BY <2>1, <1>1, <1>3, AppendFile
<1>5. DOMAIN files' = 1 .. n + 1
  BY <1>4
<1>6. \A j \in 1 .. n + 1 : j \in 1 .. n \/ files'[j] = << >>
  BY <1>3, <1>4
<1>7. \A j \in 1 .. n + 1 : \A k \in DOMAIN files'[j] :
         j \in 1 .. n /\ k \in DOMAIN files[j] /\ files'[j][k] = files[j][k]
  BY <1>4, <1>6
<1>8. /\ line' \in 1 .. MaxLine + 1
      /\ midLine' \in BOOLEAN
      /\ writer' \in 1 .. n + 1
      /\ writer' >= writer
  <2>1. CASE WriterTurnsTo(n + 1)
    <3>1. line' \in 1 .. MaxLine + 1
      BY <2>1, LineAfterTurn DEF WriterTurnsTo
    <3>2. midLine' \in BOOLEAN
      BY <2>1, Zenon DEF WriterTurnsTo
    <3>3. writer' = n + 1
      BY <2>1 DEF WriterTurnsTo
    <3> QED
      BY <3>1, <3>2, <3>3, <1>3
  <2>2. CASE UNCHANGED <<writer, midLine, line>>
    BY <2>2, <1>3 DEF IInv, TypeOK
  <2> QED
    BY <2>1, <2>2 DEF CreateNew
<1>9. FileTypes'
  BY <1>1, <1>3, <1>4, <1>8 DEF FileTypes
<1>10. FilesAlternate'
  <2> SUFFICES ASSUME NEW i \in DOMAIN files'
               PROVE  Alternates(files'[i])
    BY DEF FilesAlternate
  <2>1. CASE i \in 1 .. n
    BY <2>1, <1>3, <1>4 DEF IInv, FilesOK, FilesAlternate
  <2>2. CASE files'[i] = << >>
    BY <2>2, EmptyAlternates
  <2> QED
    BY <2>1, <2>2, <1>5, <1>6
<1>11. FilesAscend'
  <2> SUFFICES ASSUME NEW i \in DOMAIN files', NEW j \in DOMAIN files',
                      NEW k \in DOMAIN files'[i], NEW m \in DOMAIN files'[j],
                      files'[i][k] > 0,
                      files'[j][m] > 0,
                      i < j \/ (i = j /\ k < m)
               PROVE  files'[i][k] < files'[j][m]
    BY DEF FilesAscend
  <2>1. /\ i \in DOMAIN files /\ k \in DOMAIN files[i] /\ files'[i][k] = files[i][k]
        /\ j \in DOMAIN files /\ m \in DOMAIN files[j] /\ files'[j][m] = files[j][m]
    BY <1>3, <1>5, <1>7
  <2> QED
    BY <2>1 DEF IInv, FilesOK, FilesAscend
<1>12. WriterAtEnd'
  <2>1. path' = Len(files') /\ path' # 0
    BY <1>1, <1>3, <1>4
  <2>2. CASE WriterTurnsTo(n + 1)
    <3>1. /\ writer' = n + 1
          /\ ~ midLine'
          /\ line' = IF midLine THEN line + 1 ELSE line
      BY <2>2 DEF WriterTurnsTo
    <3>2. \A i \in 1 .. n : \A k \in DOMAIN files[i] : files[i][k] < line'
      BY <3>1, LineAfterTurn
    <3>3. \A i \in DOMAIN files' : \A k \in DOMAIN files'[i] : files'[i][k] < line'
      BY <3>2, <1>5, <1>7
    <3>4. Len(files'[writer']) = 0
      BY <3>1, <1>4
    <3>5. \A i \in DOMAIN files' : ~ (i > writer')
      BY <3>1, <1>3, <1>5
    <3> QED
      BY <2>1, <3>1, <3>3, <3>4, <3>5, <1>4 DEF WriterAtEnd
  <2>3. CASE "lag" \in env /\ UNCHANGED <<writer, midLine, line>>
    <3>1. files'[writer] = files[writer]
      BY <1>3, <1>4
    <3>2. /\ midLine' => /\ line' <= MaxLine
                         /\ \/ /\ Len(files'[writer']) % 3 = 1
                               /\ files'[writer'][Len(files'[writer'])] = line'
                            \/ /\ Len(files'[writer']) % 3 = 2
                               /\ files'[writer'][Len(files'[writer'])] = -line'
          /\ ~ midLine' => Len(files'[writer']) % 3 = 0
      BY <2>3, <3>1 DEF IInv, FilesOK, WriterAtEnd
    <3>3. ASSUME NEW i \in DOMAIN files', NEW k \in DOMAIN files'[i]
          PROVE  \/ files'[i][k] < line'
                 \/ midLine' /\ i = writer' /\ files'[i][k] = line'
      <4>1. i \in 1 .. n /\ k \in DOMAIN files[i] /\ files'[i] = files[i]
        BY <1>4, <1>5, <1>7
      <4> QED
        BY <4>1, <2>3, <1>3 DEF IInv, FilesOK, WriterAtEnd
    <3>4. \A i \in DOMAIN files' : i > writer' => files'[i] = << >>
      <4>1. \A i \in 1 .. n : i > writer => files[i] = << >>
        BY <1>3 DEF IInv, FilesOK, WriterAtEnd
      <4> QED
        BY <4>1, <2>3, <1>4, <1>5, <1>6
    <3> QED
      BY <2>1, <2>3, <3>2, <3>3, <3>4, <1>2 DEF WriterAtEnd
  <2> QED
    BY <2>2, <2>3 DEF CreateNew
<1>13. ReaderOK'
  <2> SUFFICES ASSUME Up
               PROVE  InStep' \/ Shrunk'
    BY <1>2 DEF ReaderOK, Up
  <2>1. fd \in 1 .. n
    BY PositionBounds
  <2>2. CASE InStep
    <3>1. FilesGrow
      <4>1. \A i \in 1 .. n : files[i] \in Seq(Byte)
        BY <1>3
      <4>2. \A i \in 1 .. n : Len(files[i]) \in Nat
        BY <4>1, LenProperties, Zenon
      <4>3. ASSUME NEW i \in 1 .. n
            PROVE  /\ Len(files'[i]) >= Len(files[i])
                   /\ \A k \in 1 .. Len(files[i]) : files'[i][k] = files[i][k]
        <5>1. files'[i] = files[i]
          BY <1>4
        <5> QED
          BY <5>1, <4>2
      <4>4. Len(files') >= n
        BY <1>3, <1>4
      <4> QED
        BY <4>3, <4>4, <1>4 DEF FilesGrow
    <3> QED
      BY <2>2, <3>1, <1>2, InStepGrows
  <2>3. CASE Shrunk
    <3>1. CommittedOffset' = CommittedOffset
      BY <1>2 DEF CommittedOffset
    <3>2. files'[fd] = files[fd]
      BY <2>1, <1>4
    <3>3. fd < writer => fd < writer'
      BY <2>1, <1>3, <1>8
    <3> QED
      BY <2>3, <3>1, <3>2, <3>3, <1>1, <1>2 DEF Shrunk
  <2> QED
    BY <2>2, <2>3 DEF IInv, ReaderOK
<1>14. CheckpointOK'
  <2>1. ckpt.inode \in 0 .. n
    BY DEF IInv, TypeOK
  <2>2. ckpt.inode = 0 => ckpt.offset = 0
    BY <1>1 DEF IInv, CheckpointOK
  <2>3. ckpt.inode \in {0, path'} => ckpt.offset = 0
    BY <2>1, <2>2, <1>1, <1>3
  <2>4. Len(files'[path']) = 0
    BY <1>1, <1>4
  <2> QED
    BY <2>2, <2>3, <2>4, <1>2 DEF CheckpointOK, CheckpointInStep
<1>15. /\ ReaderTypes' /\ FlagTypes' /\ ProducerTypes' /\ CountTypes'
       /\ ControlOK'
       /\ AllWhole'
  <2>1. /\ Len(files') \in Nat
        /\ Len(files') >= Len(files)
        /\ pc = "down" => "reader" \notin stale'
        /\ stale' \subseteq {"reader", "checkpoint"}
        /\ truncated' \in 0 .. MaxTruncate
    <3>1. Len(files') \in Nat /\ Len(files') >= Len(files)
      BY <1>3, <1>4
    <3>2. /\ pc = "down" => "reader" \notin stale
          /\ stale \subseteq {"reader", "checkpoint"}
          /\ truncated \in 0 .. MaxTruncate
      BY DEF IInv, TypeOK, ControlOK
    <3> QED
      BY <3>1, <3>2, <1>1
  <2> HIDE DEF n
  <2>2. EnvKeeps
    BY <1>1
  <2> QED
    BY <2>1, <2>2, EnvKeepsRest, Zenon
<1> QED
  BY <1>9, <1>10, <1>11, <1>12, <1>13, <1>14, <1>15, TypePartsPrimed DEF IInv, FilesOK

LEMMA TruncateKeeps ==
  ASSUME IInv, Truncate
  PROVE  IInv'
<1> DEFINE n == Len(files)
<1>1. /\ truncated < MaxTruncate
      /\ path = writer
      /\ files' = [files EXCEPT ![writer] = << >>]
      /\ stale' = (IF fd = writer THEN {"reader"} ELSE {}) \cup
                  (IF ckpt.inode \in {0, writer} /\ ckpt.offset > 0
                   THEN {"checkpoint"} ELSE {})
      /\ truncated' = truncated + 1
      /\ ~ midLine'
      /\ line' = IF midLine THEN line + 1 ELSE line
      /\ UNCHANGED <<path, writer>>
      /\ EnvKeeps
  BY DEF Truncate
<1>2. /\ UNCHANGED <<ckpt, env, stored>>
      /\ UNCHANGED <<fd, offset, pending, lines, pc>>
  BY <1>1 DEF EnvKeeps, producerVars, countVars, readerVars
<1>3. /\ files \in Seq(Seq(Byte))
      /\ n \in 1 .. MaxFiles
      /\ n \in Nat
      /\ writer = n
      /\ writer \in 1 .. n
      /\ path = n
      /\ fd \in 0 .. n
      /\ DOMAIN files = 1 .. n
  BY <1>1, ConstantTypes DEF IInv, TypeOK, FilesOK, WriterAtEnd
<1>4. /\ files' \in Seq(Seq(Byte))
      /\ Len(files') = n
      /\ files'[n] = << >>
      /\ \A j \in 1 .. n : j # n => files'[j] = files[j]
  <2>1. << >> \in Seq(Byte)
    OBVIOUS
  <2> QED
    BY <2>1, <1>1, <1>3, ExceptFile
<1>5. DOMAIN files' = 1 .. n
  BY <1>4
<1>6. \A j \in 1 .. n : \A k \in DOMAIN files'[j] :
         k \in DOMAIN files[j] /\ files'[j][k] = files[j][k]
  <2>1. DOMAIN << >> = {}
    OBVIOUS
  <2> QED
    BY <2>1, <1>4, Zenon
<1>7. /\ line' \in 1 .. MaxLine + 1
      /\ \A i \in 1 .. n : \A k \in DOMAIN files[i] : files[i][k] < line'
  BY <1>1, LineAfterTurn
<1>8. FileTypes'
  <2>1. midLine' \in BOOLEAN
    BY Zenon DEF Truncate
  <2> QED
    BY <2>1, <1>1, <1>3, <1>4, <1>7 DEF FileTypes
<1>9. FilesAlternate'
  <2> SUFFICES ASSUME NEW i \in DOMAIN files'
               PROVE  Alternates(files'[i])
    BY DEF FilesAlternate
  <2>1. CASE i # n
    BY <2>1, <1>3, <1>4, <1>5 DEF IInv, FilesOK, FilesAlternate
  <2>2. CASE i = n
    BY <2>2, <1>4, EmptyAlternates
  <2> QED
    BY <2>1, <2>2
<1>10. FilesAscend'
  <2> SUFFICES ASSUME NEW i \in DOMAIN files', NEW j \in DOMAIN files',
                      NEW k \in DOMAIN files'[i], NEW m \in DOMAIN files'[j],
                      files'[i][k] > 0,
                      files'[j][m] > 0,
                      i < j \/ (i = j /\ k < m)
               PROVE  files'[i][k] < files'[j][m]
    BY DEF FilesAscend
  <2>1. /\ i \in DOMAIN files /\ k \in DOMAIN files[i] /\ files'[i][k] = files[i][k]
        /\ j \in DOMAIN files /\ m \in DOMAIN files[j] /\ files'[j][m] = files[j][m]
    BY <1>3, <1>5, <1>6
  <2> QED
    BY <2>1 DEF IInv, FilesOK, FilesAscend
<1>11. WriterAtEnd'
  <2>1. \A i \in DOMAIN files' : \A k \in DOMAIN files'[i] : files'[i][k] < line'
    BY <1>5, <1>6, <1>7
  <2>2. Len(files'[writer']) = 0
    BY <1>1, <1>3, <1>4
  <2>3. \A i \in DOMAIN files' : ~ (i > writer')
    BY <1>1, <1>3, <1>5
  <2>4. path' = Len(files') /\ writer' = Len(files') /\ path' # 0
    BY <1>1, <1>3, <1>4
  <2> QED
    BY <2>1, <2>2, <2>3, <2>4, <1>1 DEF WriterAtEnd
<1>12. ReaderOK'
  <2> SUFFICES ASSUME Up
               PROVE  InStep' \/ Shrunk'
    BY <1>2 DEF ReaderOK, Up
  <2>1. /\ fd \in 1 .. n
        /\ offset \in Nat
        /\ CommittedOffset \in Nat
        /\ CommittedOffset + Len(pending) = offset
        /\ pending \in Seq(Byte)
    BY PositionBounds DEF IInv, TypeOK
  <2>2. CommittedOffset' = CommittedOffset
    BY <1>2 DEF CommittedOffset
  <2>3. CASE fd = n /\ offset = 0
    <3>1. Len(pending) \in Nat
      BY <2>1, LenProperties, Zenon
    <3>2. CommittedOffset = 0 /\ Len(pending) = 0
      BY <2>1, <2>3, <3>1
    <3>3. pending = << >>
      BY <2>1, <3>2, EmptySeq
    <3>4. SubSeq(<< >>, 1, 0) = << >>
      BY SubSeqOfNone
    <3> QED
      BY <2>2, <2>3, <3>2, <3>3, <3>4, <1>2, <1>4 DEF InStep
  <2>4. CASE fd = n /\ offset # 0
    <3>1. Len(files'[fd']) = 0
      BY <2>4, <1>2, <1>4
    <3>2. "reader" \in stale'
      BY <2>4, <1>1, <1>3
    <3> QED
      BY <2>1, <2>2, <2>4, <3>1, <3>2, <1>2 DEF Shrunk
  <2>5. CASE fd # n
    <3>1. files'[fd] = files[fd] /\ fd < n
      BY <2>1, <2>5, <1>3, <1>4
    <3>2. InStep => InStep'
      BY <2>2, <3>1, <1>2 DEF InStep
    <3>3. Shrunk => Shrunk'
      BY <2>2, <3>1, <1>1, <1>2, <1>3 DEF Shrunk
    <3> QED
      BY <3>2, <3>3 DEF IInv, ReaderOK
  <2> QED
    BY <2>3, <2>4, <2>5
<1>13. CheckpointOK'
  <2>1. ckpt.offset \in Nat
    BY DEF IInv, TypeOK
  <2>2. Len(files'[path']) = 0
    BY <1>1, <1>3, <1>4
  <2>3. ckpt.offset = 0 => CheckpointInStep'
    BY <2>2, <1>2 DEF CheckpointInStep
  <2>4. ckpt.inode \in {0, path} /\ ckpt.offset > 0 => CheckpointShrunk'
    BY <2>2, <1>1, <1>2 DEF CheckpointShrunk
  <2>5. ckpt.inode = 0 => ckpt.offset = 0 \/ path = 1
    BY DEF IInv, CheckpointOK
  <2> QED
    BY <2>1, <2>3, <2>4, <2>5, <1>1, <1>2 DEF CheckpointOK
<1>14. /\ ReaderTypes' /\ FlagTypes' /\ ProducerTypes' /\ CountTypes'
       /\ ControlOK'
       /\ AllWhole'
  <2>1. Len(files') \in Nat /\ Len(files') >= Len(files)
    BY <1>3, <1>4
  <2>2. pc = "down" => "reader" \notin stale'
    <3>1. pc = "down" => fd # writer
      BY <1>3 DEF IInv, ControlOK
    <3> QED
      BY <3>1, <1>1
  <2>3. stale' \subseteq {"reader", "checkpoint"}
    BY <1>1
  <2>4. truncated' \in 0 .. MaxTruncate
    BY <1>1, ConstantTypes DEF IInv, TypeOK
  <2>5. EnvKeeps
    BY <1>1
  <2> HIDE DEF n
  <2> QED
    BY <2>1, <2>2, <2>3, <2>4, <2>5, EnvKeepsRest, Zenon
<1> QED
  BY <1>8, <1>9, <1>10, <1>11, <1>12, <1>13, <1>14, TypePartsPrimed DEF IInv, FilesOK

-----------------------------------------------------------------------------
(* The invariant holds, and what follows from it. *)

LEMMA AppendToTwo ==
  ASSUME NEW S, NEW a \in S, NEW b \in S, NEW c \in S
  PROVE  Append(<<a, b>>, c) = <<a, b, c>>
<1> DEFINE s == <<a, b>>
           t == Append(s, c)
           u == <<a, b, c>>
<1>1. s \in Seq(S) /\ Len(s) = 2 /\ s[1] = a /\ s[2] = b
  OBVIOUS
<1>2. u \in Seq(S) /\ Len(u) = 3 /\ u[1] = a /\ u[2] = b /\ u[3] = c
  OBVIOUS
<1> HIDE DEF s, u
<1>3. t \in Seq(S) /\ Len(t) = 3 /\ t[1] = a /\ t[2] = b /\ t[3] = c
  <2>0. s \in Seq(S)
    BY <1>1
  <2>1. /\ t \in Seq(S)
        /\ Len(t) = Len(s) + 1
        /\ \A i \in 1 .. Len(s) : t[i] = s[i]
        /\ t[Len(s) + 1] = c
    BY <2>0, AppendProperties
  <2> HIDE DEF t
  <2> QED
    BY <1>1, <2>1
<1> HIDE DEF t
<1>4. \A i \in 1 .. Len(t) : t[i] = u[i]
  BY <1>2, <1>3
<1>5. t = u
  BY <1>2, <1>3, <1>4, SeqEqual
<1> QED
  BY <1>5 DEF t, s, u

LEMMA InitFiles ==
  ASSUME Init
  PROVE  \/ /\ line = 1
            /\ files = << << >> >>
            /\ stored = << >>
            /\ ckpt = [offset |-> 0, inode |-> 0]
         \/ /\ line = 2
            /\ files = << <<1, -1, Newline>> >>
            /\ stored = << Text(1) >>
            /\ ckpt = [offset |-> 3, inode |-> 0]
<1>1. Append(Text(1), Newline) = <<1, -1, Newline>>
  <2>1. 1 \in Int /\ -1 \in Int /\ Newline \in Int
    BY DEF Newline
  <2> QED
    BY <2>1, AppendToTwo, Zenon DEF Text
<1>2. line \in {1, 2}
  BY DEF Init
<1>3. CASE line = 1
  BY <1>3 DEF Init
<1>4. CASE line = 2
  <2>1. line # 1
    BY <1>4
  <2>2. /\ files = << Append(Text(1), Newline) >>
        /\ stored = << Text(1) >>
        /\ ckpt = [offset |-> 3, inode |-> 0]
    BY <2>1, Zenon DEF Init
  <2> QED
    BY <2>2, <1>1, <1>4, Zenon
<1> QED
  BY <1>2, <1>3, <1>4

LEMMA OneElement ==
  ASSUME NEW S, NEW x \in S
  PROVE  /\ <<x>> \in Seq(S)
         /\ Len(<<x>>) = 1
         /\ DOMAIN <<x>> = {1}
         /\ <<x>>[1] = x
         /\ Range(<<x>>) = {x}
BY DEF Range

LEMMA InitIInv == Init => IInv
<1> SUFFICES ASSUME Init
             PROVE  IInv
  OBVIOUS
<1>1. /\ path = 1 /\ writer = 1 /\ stale = {}
      /\ pc = "down" /\ fd = 0 /\ offset = 0 /\ size = 0
      /\ pending = << >> /\ lines = << >>
      /\ ~ switchOnNext /\ ~ replaced /\ ~ midLine
      /\ truncated = 0 /\ ends = 0 /\ unclean = 0
      /\ env \in Environments
  BY DEF Init, ReaderInit
<1>2. /\ MaxLine \in Nat \ {0} /\ MaxFiles \in Nat \ {0}
      /\ MaxTruncate \in Nat /\ MaxEnds \in Nat
  BY ConstantTypes, TailAssumption
<1>3. /\ Len(files) = 1 /\ DOMAIN files = {1}
      /\ files \in Seq(Seq(Byte))
      /\ Len(files[1]) = IF line = 1 THEN 0 ELSE 3
      /\ line = 2 => files[1][1] = 1 /\ files[1][2] = -1 /\ files[1][3] = Newline
      /\ DOMAIN files[1] = IF line = 1 THEN {} ELSE {1, 2, 3}
  <2>1. << >> \in Seq(Byte) /\ DOMAIN << >> = {} /\ Len(<< >>) = 0
    OBVIOUS
  <2>2. /\ <<1, -1, Newline>> \in Seq(Byte)
        /\ DOMAIN <<1, -1, Newline>> = {1, 2, 3}
        /\ Len(<<1, -1, Newline>>) = 3
    <3>1. 1 \in Byte /\ -1 \in Byte /\ Newline \in Byte
      BY <1>2 DEF Byte, Newline
    <3> QED
      BY <3>1
  <2>3. PICK f \in Seq(Byte) :
          /\ files = <<f>>
          /\ Len(f) = IF line = 1 THEN 0 ELSE 3
          /\ line = 2 => f[1] = 1 /\ f[2] = -1 /\ f[3] = Newline
          /\ DOMAIN f = IF line = 1 THEN {} ELSE {1, 2, 3}
    <3>1. CASE line = 1
      <4> DEFINE g == << >>
      <4>1. files = <<g>>
        BY <3>1, InitFiles
      <4>2. g \in Seq(Byte) /\ DOMAIN g = {} /\ Len(g) = 0
        BY <2>1
      <4> HIDE DEF g
      <4>3. /\ Len(g) = IF line = 1 THEN 0 ELSE 3
            /\ line = 2 => g[1] = 1 /\ g[2] = -1 /\ g[3] = Newline
            /\ DOMAIN g = IF line = 1 THEN {} ELSE {1, 2, 3}
        BY <3>1, <4>2
      <4> QED
        BY <4>1, <4>2, <4>3, Zenon
    <3>2. CASE line = 2
      <4> DEFINE g == <<1, -1, Newline>>
      <4>1. files = <<g>>
        BY <3>2, InitFiles
      <4>2. g[1] = 1 /\ g[2] = -1 /\ g[3] = Newline
        OBVIOUS
      <4>3. g \in Seq(Byte) /\ DOMAIN g = {1, 2, 3} /\ Len(g) = 3
        BY <2>2
      <4> HIDE DEF g
      <4> QED
        BY <3>2, <4>1, <4>2, <4>3
    <3> QED
      BY <3>1, <3>2, InitFiles
  <2> QED
    BY <2>3, OneElement
<1>4. line \in {1, 2}
  BY InitFiles
<1>5. CommittedOffset = 0
  <2>1. \A a \in Nat : a - Len(<< >>) = a
    OBVIOUS
  <2>2. 0 - Len(<< >>) = 0
    BY <2>1
  <2> QED
    BY <1>1, <2>2, Zenon DEF CommittedOffset
<1>6. AllWhole
  <2>1. Range(<< >>) = {}
    BY DEF Range
  <2>2. Range(<< Text(1) >>) = {Text(1)}
    BY OneElement
  <2>3. Text(1) \in WholeLine
    BY <1>2 DEF WholeLine
  <2> QED
    BY <2>1, <2>2, <2>3, <1>1, InitFiles DEF AllWhole
<1>7. TypeOK
  <2>1. FileTypes
    <3>1. midLine \in BOOLEAN
      BY Zenon DEF Init
    <3> QED
      BY <3>1, <1>1, <1>2, <1>3, <1>4 DEF FileTypes
  <2>2. ReaderTypes
    BY <1>1, <1>3, <1>5 DEF ReaderTypes
  <2>3. FlagTypes
    BY Zenon DEF FlagTypes, Init, ReaderInit
  <2>4. ProducerTypes
    <3>1. stored \in Seq(Seq(Byte))
      <4>1. 1 \in Byte /\ -1 \in Byte
        BY <1>2 DEF Byte
      <4>2. Text(1) \in Seq(Byte)
        BY <4>1 DEF Text
      <4>3. << Text(1) >> \in Seq(Seq(Byte))
        BY <4>2, OneElement
      <4>4. << >> \in Seq(Seq(Byte))
        OBVIOUS
      <4> QED
        BY <4>3, <4>4, InitFiles
    <3> QED
      BY <3>1, <1>1, <1>3, InitFiles DEF ProducerTypes
  <2>5. CountTypes
    BY <1>1, <1>2 DEF CountTypes
  <2> QED
    BY <2>1, <2>2, <2>3, <2>4, <2>5, TypeParts
<1>8. FilesOK
  <2>1. FilesAlternate
    <3> SUFFICES Alternates(files[1])
      BY <1>3 DEF FilesAlternate
    <3>1. CASE line = 1
      BY <3>1, <1>3 DEF Alternates
    <3>2. CASE line = 2
      <4>1. 1 % 3 = 1 /\ 2 % 3 = 2 /\ 3 % 3 = 0 /\ 2 - 1 = 1 /\ -1 # 0
        OBVIOUS
      <4>2. /\ DOMAIN files[1] = {1, 2, 3}
            /\ files[1][1] = 1
            /\ files[1][2] = -1
            /\ files[1][3] = 0
        BY <3>2, <1>3 DEF Newline
      <4> QED
        BY <4>1, <4>2, <1>2 DEF Alternates, Newline
    <3> QED
      BY <3>1, <3>2, <1>4
  <2>2. FilesAscend
    BY <1>3, <1>4 DEF FilesAscend, Newline
  <2>3. WriterAtEnd
    BY <1>1, <1>3, <1>4 DEF WriterAtEnd, Newline
  <2> QED
    BY <2>1, <2>2, <2>3 DEF FilesOK
<1>9. ControlOK
  BY <1>1, <1>5, EmptyAlternates DEF ControlOK, Up
<1>10. ReaderOK
  BY <1>1 DEF ReaderOK, Up
<1>11. CheckpointOK
  <2>1. CASE line = 1
    BY <2>1, <1>1, <1>3, InitFiles DEF CheckpointOK, CheckpointInStep
  <2>2. CASE line = 2
    <3>1. ckpt.offset = 3
      BY <2>2, InitFiles
    <3>2. Range(stored) = {Text(1)}
      BY <2>2, InitFiles DEF Range
    <3>3. \A k \in 1 .. 3 : files[1][k] > 0 => files[1][k] \in LinesIn(Range(stored))
      <4>1. 1 \in LinesIn(Range(stored))
        BY <1>2, <3>2 DEF LinesIn
      <4> QED
        BY <4>1, <2>2, <1>3 DEF Newline
    <3> QED
      BY <2>2, <3>1, <3>3, <1>1, <1>3 DEF CheckpointOK, CheckpointInStep
  <2> QED
    BY <2>1, <2>2, <1>4
<1> QED
  BY <1>6, <1>7, <1>8, <1>9, <1>10, <1>11 DEF IInv

LEMMA StutterIInv ==
  ASSUME IInv, UNCHANGED vars
  PROVE  IInv'
<1>1. /\ UNCHANGED <<files, path, writer, line, midLine, stale, truncated>>
      /\ UNCHANGED <<fd, offset, pending, switchOnNext, replaced, size, lines>>
      /\ UNCHANGED <<pc, stored, ckpt, ends, unclean, env>>
      /\ EnvKeeps
  BY DEF vars, fileVars, readerVars, producerVars, writerVars, countVars, EnvKeeps
<1>2. /\ Len(files) \in Nat
      /\ writer \in Nat
      /\ pc = "down" => "reader" \notin stale
      /\ stale \subseteq {"reader", "checkpoint"}
      /\ truncated \in 0 .. MaxTruncate
  <2>1. Len(files) \in Nat /\ writer \in Nat
    BY DEF IInv, TypeOK
  <2> QED
    BY <2>1 DEF IInv, TypeOK, ControlOK
<1>3. /\ ReaderTypes' /\ FlagTypes' /\ ProducerTypes' /\ CountTypes'
      /\ ControlOK'
      /\ AllWhole'
  <2>1. Len(files') \in Nat /\ Len(files') >= Len(files)
    BY <1>1, <1>2
  <2>2. /\ pc = "down" => "reader" \notin stale'
        /\ stale' \subseteq {"reader", "checkpoint"}
        /\ truncated' \in 0 .. MaxTruncate
    BY <1>1, <1>2
  <2> QED
    BY <2>1, <2>2, <1>1, EnvKeepsRest, Zenon
<1>4. FileTypes'
  BY <1>1, TypeParts, Zenon DEF IInv, FileTypes
<1>5. FilesOK'
  BY <1>1, FilesKept DEF IInv
<1>6. ReaderOK'
  BY <1>1, <1>2, PositionsKept
<1>7. CheckpointOK'
  BY <1>1 DEF IInv, CheckpointOK, CheckpointInStep, CheckpointShrunk
<1> QED
  BY <1>3, <1>4, <1>5, <1>6, <1>7, TypePartsPrimed DEF IInv

LEMMA NextIInv ==
  ASSUME IInv, [Next]_vars
  PROVE  IInv'
<1>1. CASE UNCHANGED vars
  BY <1>1, StutterIInv
<1>2. CASE Producer
  <2>1. CASE ReadNewLines
    BY <2>1, SwitchFileKeeps, StatPathKeeps DEF ReadNewLines
  <2>2. CASE Start \/ ReadFstat \/ ReadPread
    BY <2>2, StartKeeps, FstatKeeps, PreadKeeps
  <2>3. CASE StoreLine \/ RoundStored \/ Checkpoint
    BY <2>3, StoreLineKeeps, RoundStoredKeeps, CheckpointKeeps
  <2>4. CASE SwitchFails
    BY <2>4, ProcessEndKeeps
  <2> QED
    BY <1>2, <2>1, <2>2, <2>3, <2>4 DEF Producer
<1>3. CASE Environment
  <2>1. CASE WriteText \/ WriteRest \/ WriteNewline
    BY <2>1, WriteKeeps
  <2>2. CASE MoveAway \/ CreateNew \/ Reopen \/ Truncate
    BY <2>2, MoveAwayKeeps, CreateNewKeeps, ReopenKeeps, TruncateKeeps
  <2>3. CASE Stop \/ Crash \/ ForgetCheckpoint
    BY <2>3, ProcessEndKeeps, ForgetKeeps
  <2> QED
    BY <1>3, <2>1, <2>2, <2>3 DEF Environment
<1> QED
  BY <1>1, <1>2, <1>3 DEF Next

\* The inductive invariant holds whatever the environment does.
THEOREM TailInvariant == Spec => []IInv
<1>1. Init => IInv
  BY InitIInv
<1>2. IInv /\ [Next]_vars => IInv'
  BY NextIInv
<1> QED
  BY <1>1, <1>2, PTL DEF Spec

\* The state of the reader, the producer and the writer keeps its types; the
\* position updateFileCheckpoint saves is never negative.
THEOREM TailTypes == Spec => []TypeOK
<1>1. IInv => TypeOK
  BY DEF IInv
<1> QED
  BY <1>1, TailInvariant, PTL

\* PositionOf(l, i) is a position of line l in file i.
LEMMA PositionOfText ==
  ASSUME IInv, NEW i \in 1 .. Len(files), NEW l \in TextIn(i)
  PROVE  /\ PositionOf(l, i) \in DOMAIN files[i]
         /\ files[i][PositionOf(l, i)] = l
         /\ PositionOf(l, i) \in Nat
         /\ l \in 1 .. MaxLine
<1>1. PICK k \in DOMAIN files[i] : files[i][k] = l
  BY DEF TextIn, Range
<1>2. /\ PositionOf(l, i) \in DOMAIN files[i]
      /\ files[i][PositionOf(l, i)] = l
  BY <1>1, Zenon DEF PositionOf
<1>3. l \in 1 .. MaxLine
  BY <1>1, ByteTypes, BytesAreNumbers DEF TextIn
<1>4. files[i] \in Seq(Byte)
  BY FileTyped
<1>5. PositionOf(l, i) \in Nat
  BY <1>2, <1>4
<1> QED
  BY <1>2, <1>3, <1>5, ConstantTypes

LEMMA BehindStored ==
  ASSUME IInv, path # 0, NEW l \in TextIn(path), l \notin Stored
  PROVE  AheadOfCheckpoint(l, path)
<1> DEFINE s == StartOffset(ckpt.offset, ckpt.inode)
           p == PositionOf(l, path)
<1>1. /\ path \in 1 .. Len(files)
      /\ s \in Nat
      /\ \A k \in 1 .. s : files[path][k] > 0 =>
                               files[path][k] \in LinesIn(Range(stored))
  BY StartPosition
<1>2. p \in DOMAIN files[path] /\ files[path][p] = l /\ p \in Nat /\ l \in 1 .. MaxLine
  BY <1>1, PositionOfText
<1>3. files[path] \in Seq(Byte)
  BY <1>1, FileTyped
<1>4. p >= 1
  BY <1>2, <1>3
<1>5. l \notin LinesIn(Range(stored))
  BY DEF Stored
<1>6. l > 0
  BY DEF TextIn
<1> HIDE DEF s, p
<1>7. p > s
  BY <1>1, <1>2, <1>4, <1>5, <1>6
<1> QED
  BY <1>7 DEF AheadOfCheckpoint, s, p

\* The checkpoint on disk is behind what is stored, in every reachable state:
\* after a crash at any point, before or after any rotation or truncation, the
\* reader that openCurrentFile places from client.state has every line of the
\* file at the path that is not in the WAL in front of it.
THEOREM TailCheckpointBehindStored == Spec => []CheckpointBehindStored
<1>1. IInv => CheckpointBehindStored
  BY BehindStored DEF CheckpointBehindStored, CompleteIn
<1> QED
  BY <1>1, TailInvariant, PTL

-----------------------------------------------------------------------------
(* In an orderly environment no line is missed.  The invariant gets three   *)
(* parts more: the files that neither the path names nor the reader has     *)
(* open are all stored; the read of a replaced file sees its end; and a     *)
(* reader about to switch is at that end.                                   *)

OthersStored == \A i \in DOMAIN files \ {path, fd} : TextIn(i) \subseteq Stored

SeesTheEnd == pc = "pread" /\ replaced => size = Len(files[fd]) /\ InStep

AtTheEnd == switchOnNext => InStep /\ offset = Len(files[fd]) /\ pending = << >>

Drained == Orderly => OthersStored /\ SeesTheEnd /\ AtTheEnd

\* The open file of a reader that switches is stored to its last byte.
LEMMA SwitchDrained ==
  ASSUME IInv, AtTheEnd, switchOnNext, pc = "top"
  PROVE  TextIn(fd) \subseteq Stored
<1>1. /\ InStep
      /\ offset = Len(files[fd])
      /\ pending = << >>
  BY DEF AtTheEnd
<1>2. fd \in 1 .. Len(files) /\ files[fd] \in Seq(Byte)
  BY PositionBounds DEF Up
<1>3. CommittedOffset = Len(files[fd])
  <2>1. CommittedOffset \in Nat /\ CommittedOffset + Len(<< >>) = offset
    BY <1>1, PositionBounds
  <2> QED
    BY <2>1, <1>1
<1>4. Range(stored) \cup Range(lines) = Range(stored)
  BY DEF IInv, ControlOK, Range
<1>5. \A k \in 1 .. Len(files[fd]) :
         files[fd][k] > 0 => files[fd][k] \in LinesIn(Range(stored))
  BY <1>1, <1>3, <1>4 DEF InStep
<1>6. ASSUME NEW l \in TextIn(fd)
      PROVE  l \in Stored
  <2>1. PICK k \in DOMAIN files[fd] : files[fd][k] = l
    BY DEF TextIn, Range
  <2>2. k \in 1 .. Len(files[fd])
    BY <1>2
  <2>3. l > 0
    BY DEF TextIn
  <2> QED
    BY <2>1, <2>2, <2>3, <1>5 DEF Stored
<1> QED
  BY <1>6

LEMMA OthersKept ==
  ASSUME OthersStored, UNCHANGED <<files, path>>,
         Range(stored) \subseteq Range(stored'),
         fd' = fd \/ fd \notin DOMAIN files \/ TextIn(fd) \subseteq Stored
  PROVE  OthersStored'
<1> SUFFICES ASSUME NEW i \in DOMAIN files, i \notin {path, fd'}
             PROVE  TextIn(i)' \subseteq Stored'
  BY DEF OthersStored
<1>1. TextIn(i)' = TextIn(i)
  BY DEF TextIn
<1>2. Stored \subseteq Stored'
  BY LinesInMore DEF Stored
<1>3. TextIn(i) \subseteq Stored
  BY DEF OthersStored
<1> QED
  BY <1>1, <1>2, <1>3

LEMMA InStepKept ==
  ASSUME InStep, UNCHANGED <<fd, offset, pending, stored, lines>>, files'[fd] = files[fd]
  PROVE  InStep'
<1>1. CommittedOffset' = CommittedOffset
  BY DEF CommittedOffset
<1> QED
  BY <1>1 DEF InStep

LEMMA ProducerDrained ==
  ASSUME IInv, Drained, Orderly, Producer
  PROVE  OthersStored' /\ SeesTheEnd' /\ AtTheEnd'
<1>1. OthersStored /\ SeesTheEnd /\ AtTheEnd
  BY DEF Drained
<1>2. 0 \notin DOMAIN files
  BY DEF IInv, TypeOK
<1>3. CASE Start
  <2>1. /\ pc = "down"
        /\ pc' = "top"
        /\ UNCHANGED <<files, path, stored, switchOnNext>>
    BY <1>3 DEF Start, fileVars
  <2>2. ~ switchOnNext /\ fd = 0
    BY <2>1 DEF IInv, ControlOK
  <2>3. OthersStored'
    BY <2>1, <2>2, <1>1, <1>2, OthersKept
  <2> QED
    BY <2>1, <2>2, <2>3 DEF SeesTheEnd, AtTheEnd
<1>4. CASE ReadNewLines /\ SwitchFile
  <2>1. /\ pc = "top"
        /\ pc' = "fstat"
        /\ switchOnNext
        /\ ~ switchOnNext'
        /\ UNCHANGED <<files, path, stored>>
    BY <1>4 DEF ReadNewLines, SwitchFile, fileVars
  <2>2. TextIn(fd) \subseteq Stored
    BY <2>1, <1>1, SwitchDrained
  <2>3. OthersStored'
    BY <2>1, <2>2, <1>1, OthersKept
  <2> QED
    BY <2>1, <2>3 DEF SeesTheEnd, AtTheEnd
<1>5. CASE ReadNewLines /\ StatPath
  <2>1. /\ pc' = "fstat"
        /\ ~ switchOnNext'
        /\ UNCHANGED <<files, path, stored, fd>>
    BY <1>5 DEF ReadNewLines, StatPath, fileVars
  <2>2. OthersStored'
    BY <2>1, <1>1, OthersKept
  <2> QED
    BY <2>1, <2>2 DEF SeesTheEnd, AtTheEnd
<1>6. CASE ReadFstat
  <2>1. /\ pc = "fstat"
        /\ size' = Len(files[fd])
        /\ UNCHANGED <<files, path, stored, fd, switchOnNext>>
    BY <1>6 DEF ReadFstat, Fstat, fileVars
  <2>2. OthersStored'
    BY <2>1, <1>1, OthersKept
  <2>3. InStep'
    BY <1>6, FstatInStep
  <2>4. ~ switchOnNext
    BY <2>1 DEF IInv, ControlOK
  <2> QED
    BY <2>1, <2>2, <2>3, <2>4 DEF SeesTheEnd, AtTheEnd
<1>7. CASE ReadPread
  <2>1. /\ pc = "pread"
        /\ pc' = "store"
        /\ switchOnNext' = replaced
        /\ UNCHANGED <<files, path, stored, fd>>
    BY <1>7 DEF ReadPread, Pread, fileVars
  <2>2. OthersStored'
    BY <2>1, <1>1, OthersKept
  <2>3. ASSUME replaced
        PROVE  InStep' /\ offset' = Len(files[fd]) /\ pending' = << >>
    <3>1. InStep /\ size = Len(files[fd])
      BY <2>1, <2>3, <1>1 DEF SeesTheEnd
    <3>2. InStep'
      BY <3>1, <1>7, PreadInStep
    <3>3. CommittedOffset + Len(pending \o Chunk) = Len(files[fd])
      BY <3>1, <2>1, ReadBytes
    <3>4. offset' = CommittedOffset + Len(pending \o Chunk) /\ pending' = << >>
      BY <2>3, <1>7, PreadStep
    <3> QED
      BY <3>2, <3>3, <3>4
  <2> QED
    BY <2>1, <2>2, <2>3 DEF SeesTheEnd, AtTheEnd
<1>8. CASE StoreLine
  <2>1. /\ pc' = "store"
        /\ UNCHANGED <<files, path, fd, offset, pending, switchOnNext>>
    BY <1>8 DEF StoreLine, fileVars
  <2>2. /\ Range(stored') \cup Range(lines') = Range(stored) \cup Range(lines)
        /\ Range(stored) \subseteq Range(stored')
    BY <1>8, StoreLineMoves
  <2>3. OthersStored'
    BY <2>1, <2>2, <1>1, OthersKept
  <2>4. InStep => InStep'
    BY <2>1, <2>2 DEF InStep, CommittedOffset
  <2> QED
    BY <2>1, <2>3, <2>4, <1>1 DEF SeesTheEnd, AtTheEnd
<1>9. CASE RoundStored \/ Checkpoint
  <2>1. /\ pc' # "pread"
        /\ UNCHANGED <<files, path, fd, offset, pending, switchOnNext, lines, stored>>
    BY <1>9 DEF RoundStored, Checkpoint, fileVars, readerVars
  <2>2. OthersStored'
    BY <2>1, <1>1, OthersKept
  <2>3. InStep => InStep'
    BY <2>1, InStepKept
  <2> QED
    BY <2>1, <2>2, <2>3, <1>1 DEF SeesTheEnd, AtTheEnd
<1>10. CASE SwitchFails
  <2>1. /\ pc = "top"
        /\ pc' = "down"
        /\ switchOnNext
        /\ ~ switchOnNext'
        /\ UNCHANGED <<files, path, stored>>
    BY <1>10 DEF SwitchFails, Gone, fileVars
  <2>2. TextIn(fd) \subseteq Stored
    BY <2>1, <1>1, SwitchDrained
  <2>3. OthersStored'
    BY <2>1, <2>2, <1>1, OthersKept
  <2> QED
    BY <2>1, <2>3 DEF SeesTheEnd, AtTheEnd
<1> QED
  BY <1>3, <1>4, <1>5, <1>6, <1>7, <1>8, <1>9, <1>10 DEF Producer, ReadNewLines

\* A step of the environment changes no file but the newest, and that is not
\* the one a reader about to switch has open.
LEMMA NewestFileOnly ==
  ASSUME IInv, SeesTheEnd, AtTheEnd, EnvKeeps,
         \A i \in 1 .. Len(files) : i # Len(files) => files'[i] = files[i]
  PROVE  SeesTheEnd' /\ AtTheEnd'
<1>1. UNCHANGED <<fd, offset, pending, lines, stored, pc, replaced, switchOnNext, size>>
  BY DEF EnvKeeps, readerVars, producerVars
<1>2. replaced \/ switchOnNext => files'[fd] = files[fd]
  <2>1. replaced \/ switchOnNext => fd < Len(files) /\ Up
    BY DEF IInv, ControlOK, Up
  <2>2. Up => fd \in 1 .. Len(files)
    BY PositionBounds
  <2>3. Len(files) \in Nat
    BY DEF IInv, TypeOK
  <2> QED
    BY <2>1, <2>2, <2>3
<1>3. replaced \/ switchOnNext => (InStep => InStep')
  BY <1>1, <1>2, InStepKept
<1> QED
  BY <1>1, <1>2, <1>3 DEF SeesTheEnd, AtTheEnd

LEMMA EnvironmentDrained ==
  ASSUME IInv, Drained, Orderly, Environment
  PROVE  OthersStored' /\ SeesTheEnd' /\ AtTheEnd'
<1>1. OthersStored /\ SeesTheEnd /\ AtTheEnd
  BY DEF Drained
<1>2. env = {}
  BY DEF Orderly
<1>3. /\ writer = Len(files)
      /\ files \in Seq(Seq(Byte))
      /\ Len(files) \in Nat
      /\ DOMAIN files = 1 .. Len(files)
      /\ writer \in 1 .. Len(files)
  BY <1>2 DEF IInv, FilesOK, WriterAtEnd, TypeOK
<1>4. ASSUME NEW b \in Byte, WriteByte(b)
      PROVE  OthersStored' /\ SeesTheEnd' /\ AtTheEnd'
  <2>1. /\ MayWrite
        /\ files' = [files EXCEPT ![writer] = Append(@, b)]
        /\ path' = path
        /\ EnvKeeps
    BY <1>4 DEF WriteByte
  <2>2. fd' = fd /\ stored' = stored
    BY <2>1 DEF EnvKeeps, readerVars, producerVars
  <2>3. /\ DOMAIN files' = DOMAIN files
        /\ \A i \in DOMAIN files : i # writer => files'[i] = files[i]
    BY <2>1
  <2>4. writer \in {path, fd}
    BY <2>1, <1>2 DEF MayWrite
  <2>5. OthersStored'
    BY <2>1, <2>2, <2>3, <2>4, <1>1 DEF OthersStored, TextIn, Stored
  <2>6. SeesTheEnd' /\ AtTheEnd'
    BY <2>1, <2>3, <1>1, <1>3, NewestFileOnly
  <2> QED
    BY <2>5, <2>6
<1>5. CASE WriteText \/ WriteRest \/ WriteNewline
  BY <1>4, <1>5, SomeByte
<1>6. CASE MoveAway
  <2>1. /\ path' = 0
        /\ \/ fd = path
           \/ TextIn(path) \subseteq Stored
        /\ UNCHANGED <<files, fd, stored>>
        /\ EnvKeeps
    BY <1>2, <1>6 DEF MoveAway, EnvKeeps, readerVars, producerVars
  <2>2. OthersStored'
    BY <2>1, <1>1 DEF OthersStored, TextIn, Stored
  <2>3. SeesTheEnd' /\ AtTheEnd'
    BY <2>1, <1>1, NewestFileOnly
  <2> QED
    BY <2>2, <2>3
<1>7. CASE CreateNew
  <2>1. /\ path = 0
        /\ files' = Append(files, << >>)
        /\ path' = Len(files) + 1
        /\ UNCHANGED <<fd, stored>>
        /\ EnvKeeps
    BY <1>7 DEF CreateNew, EnvKeeps, readerVars, producerVars
  <2>2. << >> \in Seq(Byte)
    OBVIOUS
  <2>3. /\ Len(files') = Len(files) + 1
        /\ files' \in Seq(Seq(Byte))
        /\ \A i \in 1 .. Len(files) : files'[i] = files[i]
    BY <2>1, <2>2, <1>3, AppendFile
  <2>4. OthersStored'
    <3> SUFFICES ASSUME NEW i \in DOMAIN files', i \notin {path', fd'}
                 PROVE  TextIn(i)' \subseteq Stored'
      BY DEF OthersStored
    <3>1. i \in 1 .. Len(files) + 1
      BY <2>3
    <3>2. i \in DOMAIN files /\ i \notin {path, fd}
      BY <3>1, <2>1, <1>3
    <3>3. files'[i] = files[i]
      BY <3>2, <2>3, <1>3
    <3> QED
      BY <3>2, <3>3, <2>1, <1>1 DEF OthersStored, TextIn, Stored
  <2>5. SeesTheEnd' /\ AtTheEnd'
    BY <2>1, <2>3, <1>1, NewestFileOnly
  <2> QED
    BY <2>4, <2>5
<1>8. CASE Reopen
  <2>1. UNCHANGED <<files, path, fd, stored>> /\ EnvKeeps
    BY <1>8 DEF Reopen, fileVars, EnvKeeps, readerVars, producerVars
  <2> QED
    BY <2>1, <1>1, OthersKept, NewestFileOnly
<1>9. CASE Truncate
  <2>1. /\ path = writer
        /\ files' = [files EXCEPT ![writer] = << >>]
        /\ path' = path
        /\ UNCHANGED <<fd, stored>>
        /\ EnvKeeps
    BY <1>9 DEF Truncate, EnvKeeps, readerVars, producerVars
  <2>2. /\ DOMAIN files' = DOMAIN files
        /\ \A i \in DOMAIN files : i # writer => files'[i] = files[i]
    BY <2>1
  <2>3. OthersStored'
    BY <2>1, <2>2, <1>1 DEF OthersStored, TextIn, Stored
  <2>4. SeesTheEnd' /\ AtTheEnd'
    BY <2>1, <2>2, <1>1, <1>3, NewestFileOnly
  <2> QED
    BY <2>3, <2>4
<1>10. CASE Stop \/ Crash
  <2>1. /\ RotatedStored
        /\ pc' = "down"
        /\ ~ switchOnNext'
        /\ UNCHANGED <<files, path, stored>>
    BY <1>2, <1>10 DEF Stop, Crash, MayEnd, Gone, fileVars
  <2>2. OthersStored'
    BY <2>1 DEF RotatedStored, OthersStored, TextIn, Stored
  <2> QED
    BY <2>1, <2>2 DEF SeesTheEnd, AtTheEnd
<1>11. CASE ForgetCheckpoint
  <2>1. /\ pc = "down"
        /\ pc' = "down"
        /\ UNCHANGED <<files, path, stored, fd, switchOnNext>>
    BY <1>11 DEF ForgetCheckpoint, fileVars, readerVars
  <2>2. ~ switchOnNext
    BY <2>1 DEF IInv, ControlOK
  <2> QED
    BY <2>1, <2>2, <1>1, OthersKept DEF SeesTheEnd, AtTheEnd
<1> QED
  BY <1>5, <1>6, <1>7, <1>8, <1>9, <1>10, <1>11 DEF Environment

LEMMA StutterDrained ==
  ASSUME IInv, Drained, Orderly, UNCHANGED vars
  PROVE  OthersStored' /\ SeesTheEnd' /\ AtTheEnd'
<1>1. UNCHANGED <<files, path, fd, stored>> /\ EnvKeeps
  BY DEF vars, fileVars, readerVars, producerVars, writerVars, countVars, EnvKeeps
<1> QED
  BY <1>1, OthersKept, NewestFileOnly DEF Drained

LEMMA EnvFixed ==
  ASSUME [Next]_vars
  PROVE  env' = env
<1>1. Producer => env' = env
  BY DEF Producer, Start, ReadNewLines, ReadFstat, ReadPread, StoreLine, RoundStored,
         Checkpoint, SwitchFails, ProducerKeeps, countVars
<1>2. Environment => env' = env
  BY DEF Environment, WriteText, WriteRest, WriteNewline, WriteByte, MoveAway, CreateNew,
         Reopen, Truncate, EnvKeeps, Stop, Crash, ForgetCheckpoint, countVars
<1>3. UNCHANGED vars => env' = env
  BY DEF vars, countVars
<1> QED
  BY <1>1, <1>2, <1>3 DEF Next

LEMMA InitDrained == Init => Drained
<1> SUFFICES ASSUME Init
             PROVE  OthersStored /\ SeesTheEnd /\ AtTheEnd
  BY DEF Drained
<1>1. path = 1 /\ pc = "down" /\ ~ switchOnNext
  BY DEF Init, ReaderInit
<1>2. DOMAIN files = {1}
  <2>1. \E f : files = <<f>>
    BY InitFiles
  <2> QED
    BY <2>1
<1> QED
  BY <1>1, <1>2 DEF OthersStored, SeesTheEnd, AtTheEnd

LEMMA NextDrained ==
  ASSUME IInv, Drained, [Next]_vars
  PROVE  Drained'
<1> SUFFICES ASSUME Orderly
             PROVE  OthersStored' /\ SeesTheEnd' /\ AtTheEnd'
  BY EnvFixed DEF Drained, Orderly
<1> QED
  BY ProducerDrained, EnvironmentDrained, StutterDrained DEF Next

LEMMA NothingMissed ==
  ASSUME IInv, Drained
  PROVE  NoLineMissed
<1> SUFFICES ASSUME Orderly, NEW i \in DOMAIN files, NEW l \in CompleteIn(i) \ Stored
             PROVE  IF Up THEN AheadOfReader(l, i) ELSE AheadOfCheckpoint(l, i)
  BY Zenon DEF NoLineMissed
<1>1. l \in TextIn(i) /\ l \notin Stored
  BY DEF CompleteIn
<1>2. i \in {path, fd}
  BY <1>1 DEF Drained, OthersStored
<1>3. i \in 1 .. Len(files) /\ i # 0 /\ files[i] \in Seq(Byte)
  <2>1. files \in Seq(Seq(Byte))
    BY Zenon DEF IInv, TypeOK
  <2> QED
    BY <2>1
<1>4. CASE ~ Up
  <2>1. fd = 0
    BY <1>4 DEF IInv, ControlOK, Up
  <2>2. i = path
    BY <2>1, <1>2, <1>3
  <2> QED
    BY <2>2, <1>1, <1>3, <1>4, BehindStored
<1>5. CASE Up /\ i # fd
  BY <1>2, <1>5 DEF AheadOfReader
<1>6. CASE Up /\ i = fd /\ Shrunk
  BY <1>6 DEF AheadOfReader, Shrunk
<1>7. CASE Up /\ i = fd /\ InStep
  <2> DEFINE p == PositionOf(l, i)
  <2>1. /\ p \in DOMAIN files[i]
        /\ files[i][p] = l
        /\ p \in Nat
        /\ l \in 1 .. MaxLine
    BY <1>1, <1>3, PositionOfText
  <2>2. p >= 1
    BY <2>1, <1>3
  <2>3. l > 0 /\ l \notin LinesIn(Range(stored))
    BY <2>1, <1>1 DEF TextIn, Stored
  <2>4. CommittedOffset \in Nat
    BY PositionBounds
  <2> HIDE DEF p
  <2>5. p > CommittedOffset \/ l \in LinesIn(Range(lines))
    <3>1. CASE p <= CommittedOffset
      <4>1. p \in 1 .. CommittedOffset
        BY <3>1, <2>1, <2>2, <2>4
      <4>2. l \in LinesIn(Range(stored) \cup Range(lines))
        BY <4>1, <2>1, <2>3, <1>7 DEF InStep
      <4> QED
        BY <4>2, <2>3, LinesInUnion
    <3> QED
      BY <3>1, <2>1, <2>4
  <2> QED
    BY <2>5, <1>7 DEF AheadOfReader, p
<1> QED
  BY <1>4, <1>5, <1>6, <1>7 DEF IInv, ReaderOK

\* With an orderly writer (files are renamed away under a reader that has them
\* open or has stored them, and the writer moves on at once) readNewLines
\* passes over no line, through any number of rotations, truncations, half
\* lines, crashes and restarts.
THEOREM TailNoLineMissed == Spec => []NoLineMissed
<1>1. Init => IInv /\ Drained
  BY InitIInv, InitDrained
<1>2. IInv /\ Drained /\ [Next]_vars => (IInv /\ Drained)'
  BY NextIInv, NextDrained
<1>3. IInv /\ Drained => NoLineMissed
  BY NothingMissed
<1> QED
  BY <1>1, <1>2, <1>3, PTL DEF Spec

\* With an orderly writer the old file is closed for the new one only after
\* every line of it, a half line at its end included, is in the WAL.
THEOREM TailDrainedBeforeSwitch ==
  Spec => [][Orderly /\ ReadNewLines /\ SwitchFile => TextIn(fd) \subseteq Stored]_vars
<1>1. Init => IInv /\ Drained
  BY InitIInv, InitDrained
<1>2. IInv /\ Drained /\ [Next]_vars => (IInv /\ Drained)'
  BY NextIInv, NextDrained
<1>3. IInv /\ Drained =>
        [Orderly /\ ReadNewLines /\ SwitchFile => TextIn(fd) \subseteq Stored]_vars
  BY SwitchDrained DEF Drained, ReadNewLines, SwitchFile
<1> QED
  BY <1>1, <1>2, <1>3, PTL DEF Spec

-----------------------------------------------------------------------------
(* A line that is returned cut has its first byte in a file that has been   *)
(* rotated away; with an orderly writer it is the last byte of that file.   *)
(* Rotated files are not truncated, and only a lagging writer adds to them. *)

CutIn(l, i) == l \in TextIn(i) /\ (Orderly => LastByte(i) = l)

CutOK == \A l \in 1 .. MaxLine : Cut(l) \in Range(stored) \cup Range(lines) =>
           \E i \in 1 .. Len(files) - 1 : CutIn(l, i)

ReplacedInStep == pc = "pread" /\ replaced => InStep

CutInv == Drained /\ CutOK /\ ReplacedInStep

\* The files but the newest.
OlderKept == /\ Len(files') \in Nat
             /\ Len(files') >= Len(files)
             /\ \A i \in 1 .. Len(files) - 1 : files'[i] = files[i]

LEMMA OlderFiles ==
  ASSUME IInv, Environment
  PROVE  \/ OlderKept
         \/ ~ Orderly /\ FilesGrow /\ EnvKeeps
<1>1. /\ files \in Seq(Seq(Byte))
      /\ Len(files) \in Nat
      /\ writer \in 1 .. Len(files)
      /\ path \in 0 .. Len(files)
  BY CoreTypes
<1>2. /\ path \in {0, Len(files)}
      /\ Orderly => writer = Len(files)
  BY DEF IInv, FilesOK, WriterAtEnd, Orderly
<1>3. ASSUME NEW b \in Byte, WriteByte(b)
      PROVE  OlderKept \/ (~ Orderly /\ FilesGrow /\ EnvKeeps)
  <2>1. /\ FilesGrow
        /\ Len(files') = Len(files)
        /\ \A i \in 1 .. Len(files) : i # writer => files'[i] = files[i]
    BY <1>3, WriteByteFiles
  <2>2. EnvKeeps
    BY <1>3 DEF WriteByte
  <2>3. CASE Orderly
    BY <2>1, <2>3, <1>1, <1>2 DEF OlderKept
  <2> QED
    BY <2>1, <2>2, <2>3
<1>4. CASE WriteText \/ WriteRest \/ WriteNewline
  BY <1>3, <1>4, SomeByte
<1>5. CASE MoveAway \/ Reopen \/ Stop \/ Crash \/ ForgetCheckpoint
  <2>1. files' = files
    BY <1>5 DEF MoveAway, Reopen, Stop, Crash, ForgetCheckpoint, Gone, fileVars
  <2> QED
    BY <2>1, <1>1 DEF OlderKept
<1>6. CASE CreateNew
  <2>1. files' = Append(files, << >>) /\ << >> \in Seq(Byte)
    BY <1>6 DEF CreateNew
  <2>2. /\ Len(files') = Len(files) + 1
        /\ \A i \in 1 .. Len(files) : files'[i] = files[i]
    BY <2>1, <1>1, AppendFile
  <2> QED
    BY <2>2, <1>1 DEF OlderKept
<1>7. CASE Truncate
  <2>1. /\ path = writer
        /\ files' = [files EXCEPT ![writer] = << >>]
    BY <1>7 DEF Truncate
  <2>2. writer = Len(files)
    BY <2>1, <1>1, <1>2
  <2>3. /\ Len(files') = Len(files)
        /\ \A i \in 1 .. Len(files) : i # writer => files'[i] = files[i]
    BY <2>1, <1>1
  <2> QED
    BY <2>2, <2>3, <1>1 DEF OlderKept
<1> QED
  BY <1>4, <1>5, <1>6, <1>7 DEF Environment

\* A step after which the older files hold what they held, and no line is new.
LEMMA CutsKept ==
  ASSUME IInv, CutOK, env' = env,
         OlderKept \/ (~ Orderly /\ FilesGrow),
         Range(stored') \cup Range(lines') \subseteq Range(stored) \cup Range(lines)
  PROVE  CutOK'
<1>1. Len(files) \in Nat /\ Len(files') \in Nat /\ Len(files') >= Len(files)
  <2>1. FilesGrow => Len(files') \in Nat
    BY LenProperties DEF FilesGrow
  <2> QED
    BY <2>1, CoreTypes DEF OlderKept, FilesGrow
<1>2. ASSUME NEW l \in 1 .. MaxLine, NEW i \in 1 .. Len(files) - 1, CutIn(l, i)
      PROVE  i \in 1 .. Len(files') - 1 /\ CutIn(l, i)'
  <2>1. i \in 1 .. Len(files') - 1 /\ i \in 1 .. Len(files)
    BY <1>1
  <2>2. CASE OlderKept
    BY <1>2, <2>1, <2>2 DEF OlderKept, CutIn, TextIn, LastByte, Orderly
  <2>3. CASE ~ Orderly /\ FilesGrow
    <3>1. PICK k \in DOMAIN files[i] : files[i][k] = l /\ l > 0
      BY <1>2 DEF CutIn, TextIn, Range
    <3>2. files[i] \in Seq(Byte) /\ files'[i] \in Seq(Byte)
      <4>1. files[i] \in Seq(Byte)
        BY <2>1, FileTyped
      <4>2. files'[i] \in Seq(Byte)
        BY <2>1, <2>3, <1>1, ElementOfSeq DEF FilesGrow
      <4> QED
        BY <4>1, <4>2
    <3>3. /\ DOMAIN files[i] = 1 .. Len(files[i]) /\ Len(files[i]) \in Nat
          /\ DOMAIN files'[i] = 1 .. Len(files'[i]) /\ Len(files'[i]) \in Nat
      BY <3>2, LenProperties, Zenon
    <3>4. files'[i][k] = l /\ Len(files'[i]) >= Len(files[i])
      BY <3>1, <3>3, <2>1, <2>3 DEF FilesGrow
    <3>5. k \in DOMAIN files'[i]
      BY <3>1, <3>3, <3>4
    <3>6. l \in Range(files'[i])
      BY <3>4, <3>5 DEF Range
    <3> QED
      BY <2>1, <2>3, <3>1, <3>6 DEF CutIn, TextIn, Orderly
  <2> QED
    BY <2>2, <2>3
<1> QED
  BY <1>2 DEF CutOK

\* A line cut by a pread is cut at the end of what it read of a replaced file.
LEMMA PreadCut ==
  ASSUME IInv, CutInv, ReadPread
  PROVE  CutOK'
<1> DEFINE c == CommittedOffset
           F == files[fd]
           bytes == pending \o Chunk
           L == Len(bytes)
           h == Len(lines')
<1>1. /\ pc = "pread"
      /\ UNCHANGED <<files, fd, stored, env>>
  BY DEF ReadPread, Pread, fileVars, ProducerKeeps, countVars
<1>2. /\ fd \in 1 .. Len(files) /\ Len(files) \in Nat
      /\ c \in Nat
      /\ F \in Seq(Byte) /\ Len(F) \in Nat /\ DOMAIN F = 1 .. Len(F)
  <2>1. fd \in 1 .. Len(files) /\ c \in Nat
    BY <1>1, PositionBounds DEF Up
  <2>2. F \in Seq(Byte) /\ Len(F) \in Nat
    BY <2>1, FileTyped
  <2> QED
    BY <2>1, <2>2, LenProperties, CoreTypes, Zenon
<1>3. /\ L \in Nat
      /\ lines' \in Seq(WholeLine)
      /\ \A n \in 1 .. h :
            /\ 3 * n - 2 <= L
            /\ bytes[3 * n - 2] \in 1 .. MaxLine
            /\ \/ lines'[n] = Text(bytes[3 * n - 2])
               \/ lines'[n] = Cut(bytes[3 * n - 2]) /\ replaced /\ L = 3 * n - 2
  BY PreadStep
<1>4. DOMAIN lines' = 1 .. h /\ h \in Nat
  BY <1>3, LenProperties, Zenon
<1>5. replaced => /\ fd < Len(files)
                  /\ c + L <= Len(F)
                  /\ \A n \in 1 .. L : bytes[n] = F[c + n]
                  /\ Orderly => c + L = Len(F)
  <2> SUFFICES ASSUME replaced
               PROVE  /\ fd < Len(files)
                      /\ c + L <= Len(F)
                      /\ \A n \in 1 .. L : bytes[n] = F[c + n]
                      /\ Orderly => c + L = Len(F)
    OBVIOUS
  <2>1. fd < Len(files)
    BY DEF IInv, ControlOK
  <2>2. InStep
    BY <1>1 DEF CutInv, ReplacedInStep
  <2>3. Orderly => size = Len(F)
    BY <1>1 DEF CutInv, Drained, SeesTheEnd
  <2> QED
    BY <2>1, <2>2, <2>3, <1>1, ReadBytes
<1> HIDE DEF c, F, bytes, L, h
<1> SUFFICES ASSUME NEW l \in 1 .. MaxLine, Cut(l) \in Range(stored') \cup Range(lines')
             PROVE  \E i \in 1 .. Len(files) - 1 : CutIn(l, i)
  BY <1>1 DEF CutOK, CutIn, TextIn, LastByte, Orderly
<1>6. CASE Cut(l) \in Range(stored)
  BY <1>6 DEF CutInv, CutOK
<1>7. CASE Cut(l) \in Range(lines')
  <2>1. PICK n \in 1 .. h : lines'[n] = Cut(l)
    BY <1>4, <1>7 DEF Range
  <2>2. \A a, b : Text(a) # Cut(b) /\ (Cut(a) = Cut(b) => a = b)
    BY DEF Text, Cut
  <2>3. l = bytes[3 * n - 2] /\ replaced /\ L = 3 * n - 2
    BY <2>1, <2>2, <1>3, Zenon
  <2>4. L \in 1 .. L /\ c + L \in 1 .. Len(F) /\ l > 0
    BY <2>1, <2>3, <1>2, <1>3, <1>4, <1>5, ConstantTypes
  <2>5. l = F[c + L]
    BY <2>3, <2>4, <1>5
  <2>6. l \in Range(F)
    BY <2>4, <2>5, <1>2 DEF Range
  <2>7. Orderly => F[Len(F)] = l
    BY <2>3, <2>5, <1>5
  <2>8. CutIn(l, fd)
    BY <2>4, <2>6, <2>7 DEF CutIn, TextIn, LastByte, F
  <2>9. fd \in 1 .. Len(files) - 1
    BY <2>3, <1>2, <1>5
  <2> QED
    BY <2>8, <2>9
<1> QED
  BY <1>1, <1>6, <1>7

LEMMA ProducerCut ==
  ASSUME IInv, CutInv, Producer
  PROVE  CutOK' /\ ReplacedInStep'
<1>1. CutOK
  BY DEF CutInv
<1>2. CASE ReadFstat
  <2>1. UNCHANGED <<files, stored, lines, env>>
    BY <1>2 DEF ReadFstat, Fstat, fileVars, ProducerKeeps, countVars
  <2>2. CutOK'
    BY <2>1, <1>1 DEF CutOK, CutIn, TextIn, LastByte, Orderly
  <2>3. InStep'
    BY <1>2, FstatInStep
  <2> QED
    BY <2>2, <2>3 DEF ReplacedInStep
<1>3. CASE ReadPread
  <2>1. pc' = "store"
    BY <1>3 DEF ReadPread
  <2> QED
    BY <2>1, <1>3, PreadCut DEF ReplacedInStep
<1>4. CASE StoreLine
  <2>1. pc' = "store" /\ UNCHANGED <<files, env>>
    BY <1>4 DEF StoreLine, fileVars, ProducerKeeps, countVars
  <2>2. Range(stored') \cup Range(lines') = Range(stored) \cup Range(lines)
    BY <1>4, StoreLineMoves
  <2>3. CutOK'
    BY <2>1, <2>2, <1>1 DEF CutOK, CutIn, TextIn, LastByte, Orderly
  <2> QED
    BY <2>1, <2>3 DEF ReplacedInStep
<1>5. CASE Start \/ ReadNewLines \/ RoundStored \/ Checkpoint
  <2>1. pc' # "pread" /\ UNCHANGED <<files, stored, lines, env>>
    BY <1>5 DEF Start, ReadNewLines, SwitchFile, StatPath, RoundStored, Checkpoint,
       fileVars, readerVars, ProducerKeeps, countVars
  <2>2. CutOK'
    BY <2>1, <1>1 DEF CutOK, CutIn, TextIn, LastByte, Orderly
  <2> QED
    BY <2>1, <2>2 DEF ReplacedInStep
<1>6. CASE SwitchFails
  <2>1. pc' # "pread" /\ lines' = << >> /\ UNCHANGED <<files, stored, env>>
    BY <1>6 DEF SwitchFails, Gone, fileVars, countVars
  <2>2. Range(lines') = {}
    BY <2>1 DEF Range
  <2>3. CutOK'
    BY <2>1, <2>2, <1>1 DEF CutOK, CutIn, TextIn, LastByte, Orderly
  <2> QED
    BY <2>1, <2>3 DEF ReplacedInStep
<1> QED
  BY <1>2, <1>3, <1>4, <1>5, <1>6 DEF Producer

LEMMA EnvironmentCut ==
  ASSUME IInv, CutInv, Environment
  PROVE  CutOK' /\ ReplacedInStep'
<1>1. CutOK /\ ReplacedInStep
  BY DEF CutInv
<1>2. OlderKept \/ (~ Orderly /\ FilesGrow /\ EnvKeeps)
  BY OlderFiles
<1>3. env' = env
  BY EnvFixed DEF Next
<1>4. CASE EnvKeeps
  <2>1. UNCHANGED <<fd, offset, pending, lines, stored, pc, replaced>>
    BY <1>4 DEF EnvKeeps, readerVars, producerVars
  <2>2. CutOK'
    BY <2>1, <1>1, <1>2, <1>3, CutsKept
  <2>3. ASSUME pc = "pread", replaced
        PROVE  InStep'
    <3>1. InStep /\ Up /\ fd < Len(files)
      BY <2>3, <1>1 DEF ReplacedInStep, Up, IInv, ControlOK
    <3>2. fd \in 1 .. Len(files) - 1
      BY <3>1, PositionBounds, CoreTypes
    <3>3. CASE OlderKept
      <4>1. files'[fd] = files[fd]
        BY <3>2, <3>3 DEF OlderKept
      <4> QED
        BY <4>1, <3>1, <2>1, InStepKept
    <3>4. CASE FilesGrow
      BY <3>1, <3>4, <2>1, InStepGrows
    <3> QED
      BY <3>3, <3>4, <1>2
  <2> QED
    BY <2>1, <2>2, <2>3 DEF ReplacedInStep
<1>5. CASE Stop \/ Crash \/ ForgetCheckpoint
  <2>1. pc' = "down" /\ (lines' = lines \/ lines' = << >>) /\ UNCHANGED <<files, stored>>
    BY <1>5 DEF Stop, Crash, ForgetCheckpoint, Gone, fileVars, readerVars
  <2>2. Range(stored') \cup Range(lines') \subseteq Range(stored) \cup Range(lines)
    BY <2>1 DEF Range
  <2>3. OlderKept
    BY <2>1, CoreTypes DEF OlderKept
  <2>4. CutOK'
    BY <2>2, <2>3, <1>1, <1>3, CutsKept
  <2> QED
    BY <2>1, <2>4 DEF ReplacedInStep
<1>6. EnvKeeps \/ Stop \/ Crash \/ ForgetCheckpoint
  BY DEF Environment, WriteText, WriteRest, WriteNewline, WriteByte, MoveAway,
     CreateNew, Reopen, Truncate
<1> QED
  BY <1>4, <1>5, <1>6

LEMMA InitCut == Init => CutInv
<1> SUFFICES ASSUME Init
             PROVE  CutOK /\ ReplacedInStep
  BY InitDrained DEF CutInv
<1>1. pc = "down" /\ lines = << >>
  BY DEF Init, ReaderInit
<1>2. stored = << >> \/ stored = <<Text(1)>>
  BY InitFiles
<1>3. \A a, b : Text(a) # Cut(b)
  BY DEF Text, Cut
<1>4. Range(lines) = {} /\ Range(stored) \subseteq {Text(1)}
  BY <1>1, <1>2 DEF Range
<1> QED
  BY <1>1, <1>3, <1>4 DEF CutOK, ReplacedInStep

LEMMA NextCut ==
  ASSUME IInv, CutInv, [Next]_vars
  PROVE  CutInv'
<1>1. Drained'
  BY NextDrained DEF CutInv
<1>2. CASE UNCHANGED vars
  <2>1. UNCHANGED <<files, stored, lines, pc, replaced, env, fd, offset, pending>>
    BY <1>2 DEF vars, fileVars, readerVars, producerVars, countVars
  <2>2. CutOK' /\ ReplacedInStep'
    BY <2>1 DEF CutInv, CutOK, CutIn, TextIn, LastByte, Orderly, ReplacedInStep,
       InStep, CommittedOffset
  <2> QED
    BY <2>2, <1>1 DEF CutInv
<1> QED
  BY <1>1, <1>2, ProducerCut, EnvironmentCut DEF Next, CutInv

LEMMA WholeOrCut ==
  ASSUME IInv, CutInv
  PROVE  LinesWhole
<1> SUFFICES ASSUME NEW text \in Range(stored)
             PROVE  \E l \in 1 .. MaxLine :
                       \/ text = Text(l)
                       \/ /\ text = Cut(l)
                          /\ \E i \in DOMAIN files \ {path} :
                                /\ l \in TextIn(i)
                                /\ Orderly => i # writer /\ LastByte(i) = l
  BY DEF LinesWhole
<1>1. PICK l \in 1 .. MaxLine : text = Text(l) \/ text = Cut(l)
  BY DEF IInv, AllWhole, WholeLine
<1>2. CASE text = Text(l)
  BY <1>2
<1>3. CASE text = Cut(l)
  <2>1. PICK i \in 1 .. Len(files) - 1 : CutIn(l, i)
    BY <1>3 DEF CutInv, CutOK
  <2>2. /\ DOMAIN files = 1 .. Len(files) /\ Len(files) \in Nat
        /\ path \in {0, Len(files)}
        /\ Orderly => writer = Len(files)
    BY CoreTypes DEF IInv, FilesOK, WriterAtEnd, Orderly
  <2>3. i \in DOMAIN files \ {path} /\ (Orderly => i # writer)
    <3>0. Len(files) \in Nat
      BY <2>2
    <3>1. i \in 1 .. Len(files) /\ i # Len(files) /\ i # 0
      BY <3>0
    <3> QED
      BY <2>2, <3>1, Zenon
  <2> QED
    BY <1>3, <2>1, <2>3 DEF CutIn
<1> QED
  BY <1>1, <1>2, <1>3

\* Whatever the writer, the rotations and the truncations do, and wherever the
\* process ends, readNewLines returns lines as they were written, none empty
\* and none glued to another, but for one that is cut at the end of a rotated
\* file; with an orderly writer that is all the writer has written of it.
THEOREM TailLinesWhole == Spec => []LinesWhole
<1>1. Init => IInv /\ CutInv
  BY InitIInv, InitCut
<1>2. IInv /\ CutInv /\ [Next]_vars => (IInv /\ CutInv)'
  BY NextIInv, NextCut
<1>3. IInv /\ CutInv => LinesWhole
  BY WholeOrCut
<1> QED
  BY <1>1, <1>2, <1>3, PTL DEF Spec

-----------------------------------------------------------------------------
(* Lines are stored in order, but for the steps back that unclean counts.   *)
(* The invariant follows what is in front of the reader: the lines it holds *)
(* and the text it has not read are in the order they were written, and     *)
(* they are beyond the last line stored unless one more step back is paid   *)
(* for already.                                                             *)

TextAfter(bytes, p) ==
  {bytes[k] : k \in {n \in DOMAIN bytes : n > p /\ bytes[n] > 0}}

\* The largest number a line has that is written, in part at least.
Newest == IF midLine THEN line ELSE line - 1

LastStored == IF stored = << >> THEN 0 ELSE stored[Len(stored)][1]

StepsBackIn(s) == {k \in DOMAIN s : k > 1 /\ s[k][1] <= s[k - 1][1]}

MayStepBack == Cardinality(StepsBackIn(stored)) < unclean

\* The fstat of the next round will find the file too short.
Short == Len(files[fd]) < offset

\* The text of the file that the reader will open next.
NextText == IF path \in {0, fd} THEN {} ELSE TextAfter(files[path], 0)

Unread == TextAfter(files[fd], IF Short THEN 0 ELSE CommittedOffset) \cup NextText

Returned == {lines[n][1] : n \in DOMAIN lines}

\* The number of the line that is pending.
HalfRead == TextAfter(pending, 0)

Held == Returned \cup HalfRead

HeldInOrder ==
  /\ \A m, n \in DOMAIN lines : m < n => lines[m][1] < lines[n][1]
  /\ \A a \in Returned, b \in HalfRead \cup Unread : a < b
  /\ Short => \A a \in HalfRead, b \in Unread : a < b
  /\ \A a \in Held : a <= Newest

Forward == \A b \in Held \cup Unread : LastStored < b

\* What a reader started from the checkpoint will read.
RestartText == TextAfter(files[path], StartOffset(ckpt.offset, ckpt.inode))

CheckpointForward == \A b \in RestartText : LastStored < b

ReaderForward == Up => HeldInOrder /\ (MayStepBack \/ Forward)

RestartForward == path # 0 => \/ MayStepBack
                              \/ pc \in {"store", "checkpoint"}
                              \/ CheckpointForward

StoredOK == /\ \A k \in DOMAIN stored : stored[k][1] <= Newest
            /\ Cardinality(StepsBackIn(stored)) <= unclean

Ordered == StoredOK /\ ReaderForward /\ RestartForward

LEMMA WholeValues ==
  ASSUME NEW s, s \in Seq(Seq(Byte)), Range(s) \subseteq WholeLine,
         NEW k \in DOMAIN s
  PROVE  s[k][1] \in 1 .. MaxLine /\ s[k][1] \in Nat
<1>1. PICK l \in 1 .. MaxLine : s[k] = Text(l) \/ s[k] = Cut(l)
  BY DEF Range, WholeLine
<1>2. Text(l)[1] = l /\ Cut(l)[1] = l
  BY DEF Text, Cut
<1>3. s[k][1] = l
  BY <1>1, <1>2, Zenon
<1> QED
  BY <1>3, ConstantTypes

LEMMA NewestTyped ==
  ASSUME TypeOK
  PROVE  Newest \in Nat
BY ConstantTypes DEF TypeOK, Newest

LEMMA TextAfterTyped ==
  ASSUME IInv, NEW i \in 1 .. Len(files), NEW p
  PROVE  TextAfter(files[i], p) \subseteq Nat
<1>1. \A k \in DOMAIN files[i] : files[i][k] \in Int
  BY ByteTypes
<1> QED
  BY <1>1 DEF TextAfter

\* The numbers that the invariant compares are numbers.
LEMMA NumbersTyped ==
  ASSUME IInv
  PROVE  /\ Newest \in Nat
         /\ \A k \in DOMAIN stored : stored[k][1] \in Nat
         /\ LastStored \in Nat
         /\ Returned \subseteq Nat
         /\ HalfRead \subseteq Nat
         /\ Up => Unread \subseteq Nat
<1>1. /\ stored \in Seq(Seq(Byte)) /\ Range(stored) \subseteq WholeLine
      /\ lines \in Seq(Seq(Byte)) /\ Range(lines) \subseteq WholeLine
      /\ pending \in Seq(Byte)
  BY DEF IInv, TypeOK, AllWhole
<1>2. Newest \in Nat
  BY NewestTyped DEF IInv
<1>3. \A k \in DOMAIN stored : stored[k][1] \in Nat
  BY <1>1, WholeValues
<1>4. LastStored \in Nat
  <2>1. stored # << >> => Len(stored) \in DOMAIN stored
    BY <1>1, EmptySeq
  <2> QED
    BY <2>1, <1>3 DEF LastStored
<1>5. Returned \subseteq Nat
  BY <1>1, WholeValues DEF Returned
<1>6. HalfRead \subseteq Nat
  <2>1. \A k \in DOMAIN pending : pending[k] \in Int
    <3>1. pending \in [1 .. Len(pending) -> Byte]
      BY <1>1, LenProperties, Zenon
    <3> QED
      BY <3>1, BytesAreNumbers
  <2> QED
    BY <2>1 DEF HalfRead, TextAfter
<1>7. Up => Unread \subseteq Nat
  <2>1. Up => fd \in 1 .. Len(files)
    BY PositionBounds
  <2>2. path # 0 => path \in 1 .. Len(files)
    BY DEF IInv, TypeOK
  <2> QED
    BY <2>1, <2>2, TextAfterTyped DEF Unread, NextText
<1> QED
  BY <1>2, <1>3, <1>4, <1>5, <1>6, <1>7

\* A line added at the end is a step back or it is not.
LEMMA StepsBackAfter ==
  ASSUME NEW T, NEW s \in Seq(T), NEW e \in T,
         \A k \in DOMAIN s : s[k][1] \in Nat, e[1] \in Nat
  PROVE  LET C(t) == Cardinality(StepsBackIn(t))
         IN  /\ C(s) \in Nat
             /\ C(Append(s, e)) \in Nat
             /\ C(Append(s, e)) <= C(s) + 1
             /\ s = << >> \/ e[1] > s[Len(s)][1] => C(Append(s, e)) = C(s)
<1> DEFINE u == Append(s, e)
           n == Len(s)
           A == StepsBackIn(s)
           B == StepsBackIn(u)
<1>1. /\ n \in Nat
      /\ DOMAIN s = 1 .. n
      /\ DOMAIN u = 1 .. n + 1
      /\ \A k \in 1 .. n : u[k] = s[k]
      /\ u[n + 1] = e
      /\ s = << >> <=> n = 0
  BY EmptySeq
<1> HIDE DEF u, n
<1>2. ASSUME NEW k \in 1 .. n
      PROVE  k \in A <=> k \in B
  <2>1. k > 1 => k - 1 \in 1 .. n
    BY <1>1
  <2> QED
    BY <2>1, <1>1 DEF StepsBackIn
<1>3. A \subseteq 1 .. n /\ B \subseteq 1 .. n + 1
  BY <1>1 DEF StepsBackIn
<1>4. n + 1 \in B => n > 0 /\ e[1] <= s[n][1]
  BY <1>1 DEF StepsBackIn
<1>5. B = A \/ B = A \cup {n + 1}
  <2>1. \A k \in 1 .. n + 1 : k \in 1 .. n \/ k = n + 1
    BY <1>1
  <2>2. \A k \in 1 .. n : k \in 1 .. n + 1 /\ k # n + 1
    BY <1>1
  <2> HIDE DEF A, B
  <2> QED
    BY <2>1, <2>2, <1>2, <1>3
<1>6. IsFiniteSet(A) /\ n + 1 \notin A
  <2>1. IsFiniteSet(1 .. n)
    BY <1>1, FS_Interval
  <2>2. n + 1 \notin 1 .. n
    BY <1>1
  <2> HIDE DEF A
  <2> QED
    BY <2>1, <2>2, <1>3, FS_Subset
<1> HIDE DEF A, B
<1>7. Cardinality(A) \in Nat /\ Cardinality(A \cup {n + 1}) = Cardinality(A) + 1
  BY <1>6, FS_CardinalityType, FS_AddElement
<1>8. Cardinality(B) \in Nat /\ Cardinality(B) <= Cardinality(A) + 1
  <2>1. Cardinality(B) = Cardinality(A) \/ Cardinality(B) = Cardinality(A) + 1
    BY <1>5, <1>7, Zenon
  <2> QED
    BY <2>1, <1>7
<1>9. s = << >> \/ e[1] > s[n][1] => B = A
  <2>1. n > 0 => s[n][1] \in Nat
    BY <1>1
  <2> QED
    BY <2>1, <1>1, <1>4, <1>5, <1>6
<1> QED
  BY <1>7, <1>8, <1>9 DEF A, B, u, n

\* A step after which the reader holds what it held, and what it has not read
\* is text it had not read before or a line newer than all it holds.
LEMMA HeldKept ==
  ASSUME IInv, Ordered, Up, UNCHANGED <<stored, lines, pending, unclean>>,
         Newest' \in Nat, Newest' >= Newest,
         \A b \in Unread' : b \in Unread \/ (b \in Nat /\ b > Newest),
         Short' => Short \/ \A b \in Unread' : b \in Nat /\ b > Newest
  PROVE  HeldInOrder' /\ (MayStepBack' \/ Forward')
<1>1. /\ Newest \in Nat
      /\ \A k \in DOMAIN stored : stored[k][1] \in Nat
      /\ LastStored \in Nat
      /\ Returned \subseteq Nat
      /\ HalfRead \subseteq Nat
      /\ Unread \subseteq Nat
  BY NumbersTyped
<1>2. /\ Returned' = Returned /\ Held' = Held /\ LastStored' = LastStored
      /\ HalfRead' = HalfRead
      /\ MayStepBack' <=> MayStepBack
  BY DEF Returned, HalfRead, Held, LastStored, MayStepBack
<1>3. HeldInOrder /\ (MayStepBack \/ Forward)
  BY DEF Ordered, ReaderForward
<1>4. LastStored <= Newest
  <2>1. \A k \in DOMAIN stored : stored[k][1] <= Newest
    BY DEF Ordered, StoredOK
  <2>2. stored # << >> => Len(stored) \in DOMAIN stored
    BY LastOfStored
  <2> QED
    BY <2>1, <2>2, <1>1 DEF LastStored
<1>5. \A a \in Held : a \in Nat /\ a <= Newest /\ a <= Newest'
  BY <1>1, <1>3 DEF Held, HeldInOrder
<1>6. \A m, n \in DOMAIN lines' : m < n => lines'[m][1] < lines'[n][1]
  BY <1>3 DEF HeldInOrder
<1>7. \A a \in Returned, b \in HalfRead \cup Unread' : a < b
  <2>1. \A a \in Returned, b \in HalfRead \cup Unread : a < b
    BY <1>3 DEF HeldInOrder
  <2>2. \A a \in Returned, b \in Nat : b > Newest => a < b
    BY <1>1, <1>5 DEF Held
  <2> QED
    BY <2>1, <2>2
<1>8. Short' => \A a \in HalfRead, b \in Unread' : a < b
  <2>1. Short => \A a \in HalfRead, b \in Unread : a < b
    BY <1>3 DEF HeldInOrder
  <2>2. \A a \in HalfRead, b \in Nat : b > Newest => a < b
    BY <1>1, <1>5 DEF Held
  <2> QED
    BY <2>1, <2>2
<1>9. HeldInOrder'
  BY <1>2, <1>5, <1>6, <1>7, <1>8 DEF HeldInOrder
<1>10. Forward => Forward'
  <2>1. \A b \in Nat : b > Newest => LastStored < b
    BY <1>1, <1>4
  <2> QED
    BY <2>1, <1>2 DEF Forward
<1> QED
  BY <1>2, <1>3, <1>9, <1>10

\* The same for a reader started from the checkpoint.
LEMMA RestartKept ==
  ASSUME IInv, Ordered, UNCHANGED <<stored, unclean>>,
         pc \in {"store", "checkpoint"} => pc' \in {"store", "checkpoint"},
         path' # 0 =>
           \A b \in RestartText' :
              \/ path # 0 /\ b \in RestartText
              \/ b \in Nat /\ b > Newest
  PROVE  RestartForward'
<1>1. Newest \in Nat /\ LastStored \in Nat /\ \A k \in DOMAIN stored : stored[k][1] \in Nat
  BY NumbersTyped
<1>2. LastStored' = LastStored /\ (MayStepBack' <=> MayStepBack)
  BY DEF LastStored, MayStepBack
<1>3. LastStored <= Newest
  <2>1. \A k \in DOMAIN stored : stored[k][1] <= Newest
    BY DEF Ordered, StoredOK
  <2>2. stored # << >> => Len(stored) \in DOMAIN stored
    BY LastOfStored
  <2> QED
    BY <2>1, <2>2, <1>1 DEF LastStored
<1>4. \A b \in Nat : b > Newest => LastStored < b
  BY <1>1, <1>3
<1>5. path' # 0 /\ (path = 0 \/ CheckpointForward) => CheckpointForward'
  BY <1>2, <1>4 DEF CheckpointForward
<1> QED
  BY <1>2, <1>5 DEF Ordered, RestartForward

LEMMA StoredKept ==
  ASSUME IInv, StoredOK, UNCHANGED stored,
         Newest' \in Nat, Newest' >= Newest,
         unclean' \in Nat, unclean' >= unclean
  PROVE  StoredOK'
<1>1. Newest \in Nat /\ \A k \in DOMAIN stored : stored[k][1] \in Nat
  BY NumbersTyped
<1>2. unclean \in Nat
  BY ConstantTypes DEF IInv, TypeOK
<1>3. Cardinality(StepsBackIn(stored)) \in Nat
  <2>1. stored \in Seq(Seq(Byte))
    BY DEF IInv, TypeOK
  <2>2. IsFiniteSet(DOMAIN stored)
    BY <2>1, FS_Interval, LenProperties
  <2>3. StepsBackIn(stored) \subseteq DOMAIN stored
    BY DEF StepsBackIn
  <2> QED
    BY <2>2, <2>3, FS_Subset, FS_CardinalityType
<1>4. \A k \in DOMAIN stored' : stored'[k][1] <= Newest'
  BY <1>1 DEF StoredOK
<1>5. Cardinality(StepsBackIn(stored')) <= unclean'
  BY <1>2, <1>3 DEF StoredOK
<1> QED
  BY <1>4, <1>5 DEF StoredOK

\* A reader that holds nothing.
LEMMA HoldsNothing ==
  ASSUME IInv, lines' = << >>, pending' = << >>, UNCHANGED <<stored, unclean>>,
         MayStepBack \/ \A b \in Unread' : LastStored < b
  PROVE  HeldInOrder' /\ (MayStepBack' \/ Forward')
<1>1. Returned' = {} /\ HalfRead' = {} /\ Held' = {} /\ DOMAIN lines' = {}
  BY DEF Returned, HalfRead, Held, TextAfter
<1>2. LastStored' = LastStored /\ (MayStepBack' <=> MayStepBack)
  BY DEF LastStored, MayStepBack
<1> QED
  BY <1>1, <1>2 DEF HeldInOrder, Forward

LEMMA StartOrdered ==
  ASSUME IInv, Ordered, Start
  PROVE  ReaderForward'
<1> DEFINE s == StartOffset(ckpt.offset, ckpt.inode)
<1>1. /\ path # 0
      /\ fd' = path
      /\ offset' = s
      /\ pending' = << >>
      /\ pc = "down"
      /\ UNCHANGED <<files, path, stored, lines, unclean>>
  BY DEF Start, OpenCurrentFile, fileVars, countVars
<1>2. /\ path \in 1 .. Len(files)
      /\ s \in Nat
      /\ s <= Len(files[path])
      /\ \A k \in 1 .. s : files[path][k] > 0 => files[path][k] \in LinesIn(Range(stored))
  BY <1>1, StartPosition
<1>3. CommittedOffset' = s
  BY <1>1, <1>2, PlacedInStep
<1>4. lines = << >>
  BY <1>1 DEF IInv, ControlOK
<1>5. ~ Short'
  <2>1. Len(files[path]) \in Nat
    BY <1>2, FileTyped
  <2> QED
    BY <2>1, <1>1, <1>2 DEF Short
<1> HIDE DEF s
<1>6. Unread' = TextAfter(files[path], s)
  BY <1>1, <1>3, <1>5 DEF Unread, NextText, TextAfter
<1>7. MayStepBack \/ \A b \in TextAfter(files[path], s) : LastStored < b
  BY <1>1 DEF Ordered, RestartForward, CheckpointForward, RestartText, s
<1>8. HeldInOrder' /\ (MayStepBack' \/ Forward')
  BY <1>1, <1>4, <1>6, <1>7, HoldsNothing
<1> QED
  BY <1>8 DEF ReaderForward

LEMMA SwitchOrdered ==
  ASSUME IInv, Ordered, ReadNewLines, SwitchFile
  PROVE  ReaderForward'
<1>1. /\ path # 0
      /\ fd' = path
      /\ offset' = 0
      /\ pending' = << >>
      /\ pc = "top"
      /\ switchOnNext
      /\ UNCHANGED <<files, path, stored, lines, unclean>>
  BY DEF ReadNewLines, SwitchFile, OpenCurrentFile, StartOffset, fileVars,
         ProducerKeeps, countVars
<1>2. /\ path \in 1 .. Len(files)
      /\ path = Len(files)
      /\ fd < Len(files)
      /\ Len(files[path]) \in Nat
      /\ fd \in Nat
  <2>1. path \in 1 .. Len(files) /\ fd \in Nat
    BY <1>1, CoreTypes
  <2>2. path \in {0, Len(files)}
    BY Zenon DEF IInv, FilesOK, WriterAtEnd
  <2>3. fd < Len(files)
    BY <1>1, Zenon DEF IInv, ControlOK
  <2>4. Len(files[path]) \in Nat
    BY <2>1, FileTyped
  <2> QED
    BY <1>1, <2>1, <2>2, <2>3, <2>4
<1>3. CommittedOffset' = 0
  BY <1>1, <1>2, PlacedInStep
<1>4. lines = << >>
  BY <1>1 DEF IInv, ControlOK
<1>5. Unread' = TextAfter(files[path], 0)
  BY <1>1, <1>2, <1>3 DEF Unread, NextText, TextAfter, Short
<1>6. TextAfter(files[path], 0) \subseteq Unread
  BY <1>1, <1>2 DEF Unread, NextText
<1>7. MayStepBack \/ \A b \in Unread : LastStored < b
  BY <1>1 DEF Ordered, ReaderForward, Forward, Up
<1>8. HeldInOrder' /\ (MayStepBack' \/ Forward')
  BY <1>1, <1>4, <1>5, <1>6, <1>7, HoldsNothing
<1> QED
  BY <1>8 DEF ReaderForward

LEMMA FstatOrdered ==
  ASSUME IInv, Ordered, ReadFstat
  PROVE  ReaderForward'
<1>1. /\ pc = "fstat"
      /\ IF Len(files[fd]) < offset
         THEN offset' = 0 /\ pending' = << >>
         ELSE UNCHANGED <<offset, pending>>
      /\ UNCHANGED <<files, path, fd, stored, lines, unclean, line, midLine>>
  BY DEF ReadFstat, Fstat, fileVars, ProducerKeeps, countVars
<1>2. /\ Up
      /\ fd \in 1 .. Len(files)
      /\ Len(files[fd]) \in Nat
      /\ lines = << >>
  BY <1>1, PositionBounds DEF Up, IInv, ControlOK
<1>3. CASE Short
  <2>1. offset' = 0 /\ pending' = << >>
    BY <1>1, <1>3 DEF Short
  <2>2. CommittedOffset' = 0
    BY <2>1, <1>1, <1>2, PlacedInStep
  <2>3. ~ Short'
    BY <2>1, <1>1, <1>2 DEF Short
  <2>4. Unread' = Unread
    BY <2>2, <2>3, <1>1, <1>3 DEF Unread, NextText, TextAfter
  <2>5. MayStepBack \/ \A b \in Unread : LastStored < b
    BY <1>2 DEF Ordered, ReaderForward, Forward
  <2>6. HeldInOrder' /\ (MayStepBack' \/ Forward')
    BY <2>1, <2>4, <2>5, <1>1, <1>2, HoldsNothing
  <2> QED
    BY <2>6 DEF ReaderForward
<1>4. CASE ~ Short
  <2>1. UNCHANGED <<offset, pending>>
    BY <1>1, <1>4 DEF Short
  <2>2. Unread' = Unread /\ ~ Short' /\ Newest' = Newest
    BY <2>1, <1>1, <1>4 DEF Unread, NextText, TextAfter, Short, CommittedOffset, Newest
  <2>3. Newest \in Nat
    BY NumbersTyped
  <2>4. HeldInOrder' /\ (MayStepBack' \/ Forward')
    BY <2>1, <2>2, <2>3, <1>1, <1>2, HeldKept
  <2> QED
    BY <2>4 DEF ReaderForward
<1> QED
  BY <1>3, <1>4

\* A step of the round that moves neither the reader nor the file.
LEMMA IdleOrdered ==
  ASSUME IInv, Ordered, Up,
         UNCHANGED <<files, path, fd, offset, pending, lines, stored, unclean>>,
         UNCHANGED <<line, midLine>>
  PROVE  ReaderForward'
<1>1. Unread' = Unread /\ (Short' <=> Short) /\ Newest' = Newest
  BY DEF Unread, NextText, TextAfter, Short, CommittedOffset, Newest
<1>2. Newest \in Nat
  BY NumbersTyped
<1>3. HeldInOrder' /\ (MayStepBack' \/ Forward')
  BY <1>1, <1>2, HeldKept
<1> QED
  BY <1>3 DEF ReaderForward

LEMMA StoreLineOrdered ==
  ASSUME IInv, Ordered, StoreLine
  PROVE  StoredOK' /\ ReaderForward'
<1> DEFINE v == lines[1][1]
<1>1. /\ pc = "store"
      /\ lines # << >>
      /\ stored' = Append(stored, Head(lines))
      /\ lines' = Tail(lines)
      /\ UNCHANGED <<files, path, fd, offset, pending, unclean, line, midLine>>
  BY DEF StoreLine, fileVars, ProducerKeeps, countVars
<1>2. /\ stored \in Seq(Seq(Byte)) /\ Range(stored) \subseteq WholeLine
      /\ lines \in Seq(Seq(Byte)) /\ Range(lines) \subseteq WholeLine
      /\ unclean \in Nat
  BY ConstantTypes DEF IInv, TypeOK, AllWhole
<1>3. /\ Len(lines) \in Nat
      /\ DOMAIN lines = 1 .. Len(lines)
      /\ 1 \in DOMAIN lines
      /\ Head(lines) = lines[1]
      /\ Head(lines) \in Seq(Byte)
      /\ Len(stored) \in Nat
  BY <1>1, <1>2, EmptySeq
<1>4. /\ DOMAIN lines' = 1 .. Len(lines) - 1
      /\ \A n \in 1 .. Len(lines) - 1 : lines'[n] = lines[n + 1]
  BY <1>1, <1>2, <1>3
<1>5. v \in Nat /\ v \in Returned
  BY <1>2, <1>3, WholeValues DEF Returned
<1>6. /\ HeldInOrder
      /\ MayStepBack \/ Forward
      /\ StoredOK
  BY <1>1 DEF Ordered, ReaderForward, Up
<1>7. /\ Newest \in Nat
      /\ \A k \in DOMAIN stored : stored[k][1] \in Nat
      /\ LastStored \in Nat
  BY NumbersTyped
<1>8. /\ DOMAIN stored' = 1 .. Len(stored) + 1
      /\ Len(stored') = Len(stored) + 1
      /\ \A k \in 1 .. Len(stored) : stored'[k] = stored[k]
      /\ stored'[Len(stored) + 1] = lines[1]
      /\ stored' # << >>
  <2>1. /\ stored' \in Seq(Seq(Byte))
        /\ Len(stored') = Len(stored) + 1
        /\ \A k \in 1 .. Len(stored) : stored'[k] = stored[k]
        /\ stored'[Len(stored) + 1] = Head(lines)
    BY <1>1, <1>2, <1>3, AppendFile
  <2>2. DOMAIN stored' = 1 .. Len(stored) + 1
    BY <2>1
  <2>3. stored' # << >>
    BY <2>1, <1>3
  <2> QED
    BY <2>1, <2>2, <2>3, <1>3
<1>9. Newest' = Newest /\ LastStored' = v
  <2>1. Newest' = Newest
    BY <1>1 DEF Newest
  <2>2. LastStored' = v
    BY <1>8 DEF LastStored
  <2> QED
    BY <2>1, <2>2
<1>10. StoredOK'
  <2>1. \A k \in DOMAIN stored' : stored'[k][1] <= Newest
    <3>1. v <= Newest
      BY <1>5, <1>6 DEF HeldInOrder, Held
    <3>2. \A k \in 1 .. Len(stored) : stored[k][1] <= Newest
      BY <1>2, <1>6 DEF StoredOK
    <3>3. \A k \in 1 .. Len(stored) + 1 : k \in 1 .. Len(stored) \/ k = Len(stored) + 1
      BY <1>3
    <3> QED
      BY <3>1, <3>2, <3>3, <1>8
  <2>2. LET C(t) == Cardinality(StepsBackIn(t))
        IN  /\ C(stored) \in Nat
            /\ C(stored') \in Nat
            /\ C(stored') <= C(stored) + 1
            /\ stored = << >> \/ v > stored[Len(stored)][1] => C(stored') = C(stored)
    BY <1>1, <1>2, <1>3, <1>5, <1>7, StepsBackAfter
  <2>3. CASE stored = << >> \/ v > stored[Len(stored)][1]
    <3>1. Cardinality(StepsBackIn(stored')) <= unclean'
      BY <2>2, <2>3, <1>1, <1>6 DEF StoredOK
    <3> QED
      BY <2>1, <3>1, <1>9 DEF StoredOK
  <2>4. CASE stored # << >> /\ ~ (v > stored[Len(stored)][1])
    <3>1. LastStored = stored[Len(stored)][1]
      BY <2>4 DEF LastStored
    <3>2. ~ (LastStored < v)
      BY <2>4, <3>1, <1>5, <1>7
    <3>3. MayStepBack
      BY <3>2, <1>5, <1>6 DEF Forward, Held
    <3>4. Cardinality(StepsBackIn(stored')) <= unclean'
      BY <2>2, <3>3, <1>1, <1>2 DEF MayStepBack
    <3> QED
      BY <2>1, <3>4, <1>9 DEF StoredOK
  <2> QED
    BY <2>3, <2>4
<1>11. Unread' = Unread /\ (Short' <=> Short) /\ HalfRead' = HalfRead
  BY <1>1 DEF Unread, NextText, TextAfter, Short, CommittedOffset, HalfRead
<1>12. \A n \in DOMAIN lines' : n + 1 \in DOMAIN lines /\ n + 1 > 1 /\ lines'[n] = lines[n + 1]
  BY <1>3, <1>4
<1>13. Returned' \subseteq Returned /\ \A a \in Returned' : v < a
  <2>1. \A n \in DOMAIN lines' : v < lines'[n][1] /\ lines'[n][1] \in Returned
    BY <1>3, <1>6, <1>12 DEF HeldInOrder, Returned
  <2> QED
    BY <2>1 DEF Returned
<1>14. HeldInOrder'
  <2>1. ASSUME NEW m \in DOMAIN lines', NEW n \in DOMAIN lines', m < n
        PROVE  lines'[m][1] < lines'[n][1]
    <3>1. m + 1 < n + 1
      BY <2>1, <1>3, <1>4
    <3> QED
      BY <3>1, <1>6, <1>12 DEF HeldInOrder
  <2>2. \A a \in Returned', b \in HalfRead' \cup Unread' : a < b
    BY <1>6, <1>11, <1>13 DEF HeldInOrder
  <2>3. Short' => \A a \in HalfRead', b \in Unread' : a < b
    BY <1>6, <1>11 DEF HeldInOrder
  <2>4. \A a \in Held' : a <= Newest'
    BY <1>6, <1>9, <1>11, <1>13 DEF HeldInOrder, Held
  <2> QED
    BY <2>1, <2>2, <2>3, <2>4 DEF HeldInOrder
<1>15. Forward'
  <2>1. \A b \in HalfRead \cup Unread : v < b
    BY <1>5, <1>6 DEF HeldInOrder
  <2> QED
    BY <2>1, <1>9, <1>11, <1>13 DEF Forward, Held
<1> QED
  BY <1>10, <1>14, <1>15 DEF ReaderForward

\* What a pread returns and keeps, when the file is as long as the position:
\* text after the committed position, in the order of the file.
LEMMA PreadOrdered ==
  ASSUME IInv, Ordered, ReadPread, ~ Short
  PROVE  ReaderForward'
<1> DEFINE F == files[fd]
           c == CommittedOffset
           bytes == pending \o Chunk
           L == Len(bytes)
           h == Len(lines')
           d == CommittedOffset'
<1>1. /\ pc = "pread"
      /\ UNCHANGED <<files, path, fd, stored, unclean, line, midLine>>
  BY DEF ReadPread, Pread, fileVars, ProducerKeeps, countVars
<1>2. /\ Up
      /\ c \in Nat
      /\ fd \in 1 .. Len(files)
      /\ F \in Seq(Byte)
      /\ Len(F) \in Nat
  BY <1>1, PositionBounds DEF Up
<1>3. InStep
  BY <1>2 DEF IInv, ReaderOK, Shrunk, Short
<1>4. /\ Alternates(bytes)
      /\ c + L <= Len(F)
      /\ \A n \in 1 .. L : bytes[n] = F[c + n]
      /\ DOMAIN bytes = 1 .. L
      /\ bytes \in Seq(Byte)
  <2>1. bytes \in Seq(Byte)
    BY <1>1, ReadBytes
  <2> QED
    BY <2>1, <1>1, <1>3, ReadBytes
<1>5. /\ L \in Nat
      /\ h \in Nat
      /\ lines' \in Seq(WholeLine)
      /\ \A n \in 1 .. h :
            /\ 3 * n - 2 <= L
            /\ bytes[3 * n - 2] \in 1 .. MaxLine
            /\ \/ lines'[n] = Text(bytes[3 * n - 2])
               \/ lines'[n] = Cut(bytes[3 * n - 2]) /\ replaced /\ L = 3 * n - 2
      /\ offset' = c + L
      /\ \/ /\ pending' = << >>
            /\ L = 3 * h \/ (replaced /\ (L = 3 * h - 1 \/ L = 3 * h - 2))
         \/ /\ pending' = SubSeq(bytes, 3 * h + 1, L)
            /\ L = 3 * h + 1 \/ L = 3 * h + 2
            /\ ~ replaced
  BY PreadStep
<1>6. DOMAIN lines' = 1 .. h
  BY <1>5
<1> HIDE DEF F, c, bytes, L, h, d
\* The new committed position, and where the lines and the half line lie.
<1>7. /\ d \in Nat
      /\ c <= d
      /\ \A n \in 1 .. h : c + 3 * n - 2 <= d
      /\ \/ pending' = << >>
         \/ /\ d = c + 3 * h
            /\ Len(pending') \in Nat
            /\ DOMAIN pending' = 1 .. Len(pending')
            /\ 3 * h + Len(pending') = L
            /\ \A k \in 1 .. Len(pending') : pending'[k] = bytes[3 * h + k]
  <2>0. offset' = c + L /\ L \in Nat /\ h \in Nat /\ c \in Nat
    BY <1>2, <1>5
  <2>1. CASE pending' = << >> /\ (L = 3 * h \/ L = 3 * h - 1 \/ L = 3 * h - 2)
    <3>1. d = c + L
      BY <2>1, <2>0 DEF CommittedOffset, d
    <3>2. d \in Nat /\ c <= d /\ \A n \in 1 .. h : c + 3 * n - 2 <= d
      BY <2>1, <3>1, <2>0
    <3> QED
      BY <2>1, <3>2
  <2>2. CASE pending' = SubSeq(bytes, 3 * h + 1, L) /\ (L = 3 * h + 1 \/ L = 3 * h + 2)
    <3>0. 3 * h \in Nat /\ 3 * h <= L /\ L <= Len(bytes)
      BY <2>0, <2>2 DEF L
    <3>1. /\ pending' \in Seq(Byte)
          /\ Len(pending') = L - 3 * h
          /\ \A k \in 1 .. L - 3 * h : pending'[k] = bytes[3 * h + k]
      <4> DEFINE w == SubSeq(bytes, 3 * h + 1, L)
      <4>0. bytes \in Seq(Byte) /\ L \in Nat
        BY <2>0, <1>4
      <4>1. /\ w \in Seq(Byte)
            /\ Len(w) = L - 3 * h
            /\ \A k \in 1 .. L - 3 * h : w[k] = bytes[3 * h + k]
        BY <4>0, <3>0, RestAfter, Zenon
      <4> QED
        BY <4>1, <2>2, Zenon
    <3>2. d = c + 3 * h
      BY <2>0, <3>0, <3>1 DEF CommittedOffset, d
    <3>3. Len(pending') \in Nat /\ DOMAIN pending' = 1 .. Len(pending')
      BY <3>1, LenProperties, Zenon
    <3>4. d \in Nat /\ c <= d /\ \A n \in 1 .. h : c + 3 * n - 2 <= d
      BY <3>2, <2>0
    <3>5. 3 * h + Len(pending') = L
      BY <3>1, <3>0, <2>0
    <3> QED
      BY <3>1, <3>2, <3>3, <3>4, <3>5
  <2> QED
    BY <2>1, <2>2, <1>5
<1>8. ASSUME NEW n \in 1 .. h
      PROVE  /\ c + 3 * n - 2 \in DOMAIN F
             /\ c + 3 * n - 2 > c
             /\ c + 3 * n - 2 <= d
             /\ F[c + 3 * n - 2] > 0
             /\ lines'[n][1] = F[c + 3 * n - 2]
  <2>1. 3 * n - 2 \in 1 .. L /\ c + (3 * n - 2) = c + 3 * n - 2
    BY <1>2, <1>5
  <2>2. bytes[3 * n - 2] \in 1 .. MaxLine
    BY <1>5
  <2>3. bytes[3 * n - 2] > 0
    BY <2>2, ConstantTypes
  <2>4. lines'[n][1] = bytes[3 * n - 2]
    <3>1. \A l : Text(l)[1] = l /\ Cut(l)[1] = l
      BY DEF Text, Cut
    <3>2. lines'[n] = Text(bytes[3 * n - 2]) \/ lines'[n] = Cut(bytes[3 * n - 2])
      BY <1>5
    <3> QED
      BY <3>1, <3>2, Zenon
  <2>5. bytes[3 * n - 2] = F[c + 3 * n - 2]
    BY <2>1, <1>4
  <2>6. c + 3 * n - 2 \in 1 .. Len(F)
    BY <2>1, <1>2, <1>4, <1>5
  <2> QED
    BY <2>1, <2>3, <2>4, <2>5, <2>6, <1>2, <1>7
<1>9. ASSUME NEW a \in HalfRead'
      PROVE  \E k \in DOMAIN F : k > d /\ F[k] = a /\ F[k] > 0
  <2>1. PICK k \in DOMAIN pending' : pending'[k] = a /\ pending'[k] > 0
    BY DEF HalfRead, TextAfter
  <2>2. pending' # << >>
    BY <2>1
  <2>3. /\ d = c + 3 * h
        /\ Len(pending') \in Nat
        /\ k \in 1 .. Len(pending')
        /\ 3 * h + Len(pending') = L
        /\ pending'[k] = bytes[3 * h + k]
    BY <2>1, <2>2, <1>7
  <2>4. /\ 3 * h + k \in 1 .. L
        /\ c + (3 * h + k) \in 1 .. Len(F)
        /\ c + (3 * h + k) > d
    <3>1. h \in Nat /\ L \in Nat /\ c \in Nat /\ Len(F) \in Nat /\ c + L <= Len(F)
      BY <1>2, <1>4, <1>5
    <3>2. \A x, y, z, v, w, u \in Nat :
             /\ u \in 1 .. w
             /\ 3 * x + w = y
             /\ z + y <= v
             => /\ 3 * x + u \in 1 .. y
                /\ z + (3 * x + u) \in 1 .. v
                /\ z + (3 * x + u) > z + 3 * x
      OBVIOUS
    <3>3. k \in Nat
      BY <2>3
    <3> QED
      BY <2>3, <3>1, <3>2, <3>3, Zenon
  <2>5. bytes[3 * h + k] = F[c + (3 * h + k)]
    BY <2>4, <1>4
  <2>6. c + (3 * h + k) \in DOMAIN F
    BY <2>4, <1>2
  <2> QED
    BY <2>1, <2>3, <2>4, <2>5, <2>6
<1>10. ASSUME NEW k \in DOMAIN F, k > d, F[k] > 0
       PROVE  k > c
  <2>1. k \in Nat
    BY <1>2
  <2> QED
    BY <2>1, <1>2, <1>7, <1>10
\* The files are in order.
<1>11. ASSUME NEW k \in DOMAIN F, NEW m \in DOMAIN F, k < m,
              F[k] > 0, F[m] > 0
       PROVE  F[k] < F[m]
  <2>1. fd \in DOMAIN files
    BY <1>2 DEF IInv, TypeOK
  <2> QED
    BY <2>1, <1>11 DEF IInv, FilesOK, FilesAscend, F
<1>12. ASSUME NEW k \in DOMAIN F, F[k] > 0, NEW b \in NextText
       PROVE  F[k] < b
  <2>0. path \notin {0, fd} /\ b \in TextAfter(files[path], 0)
    BY DEF NextText
  <2>1. fd \in DOMAIN files /\ path \in DOMAIN files /\ fd < path
    <3>1. path = Len(files) /\ DOMAIN files = 1 .. Len(files) /\ Len(files) \in Nat
      BY <2>0 DEF IInv, TypeOK, FilesOK, WriterAtEnd
    <3>2. fd # path /\ path # 0
      BY <2>0
    <3> QED
      BY <3>1, <3>2, <1>2
  <2>2. PICK m \in DOMAIN files[path] : files[path][m] = b /\ b > 0
    BY <2>0 DEF TextAfter
  <2> QED
    BY <2>1, <2>2, <1>12 DEF IInv, FilesOK, FilesAscend, F
<1>13. Unread' = TextAfter(files[fd], d) \cup NextText
  <2>1. ~ Short'
    BY <1>1, <1>2, <1>4, <1>5 DEF Short, F
  <2> QED
    BY <2>1, <1>1 DEF Unread, NextText, TextAfter, d
<1>14. Unread = TextAfter(files[fd], c) \cup NextText
  BY DEF Unread, NextText, c
<1>15. TextAfter(files[fd], d) = {F[k] : k \in {n \in DOMAIN F : n > d /\ F[n] > 0}}
  BY DEF TextAfter, F
<1>16. TextAfter(files[fd], c) = {F[k] : k \in {n \in DOMAIN F : n > c /\ F[n] > 0}}
  BY DEF TextAfter, F
<1>17. HalfRead' \subseteq TextAfter(files[fd], d)
  BY <1>9, <1>15
<1>18. TextAfter(files[fd], d) \subseteq TextAfter(files[fd], c)
  BY <1>10, <1>15, <1>16
<1>19. \A n \in 1 .. h : lines'[n][1] \in TextAfter(files[fd], c)
  BY <1>8, <1>16
<1>20. Returned' = {lines'[n][1] : n \in 1 .. h}
  BY <1>6 DEF Returned
<1>21. HeldInOrder'
  <2>1. ASSUME NEW m \in DOMAIN lines', NEW n \in DOMAIN lines', m < n
        PROVE  lines'[m][1] < lines'[n][1]
    <3>1. c + 3 * m - 2 < c + 3 * n - 2
      BY <2>1, <1>2, <1>5, <1>6
    <3> QED
      BY <3>1, <1>6, <1>8, <1>11
  <2>2. ASSUME NEW n \in 1 .. h, NEW b \in TextAfter(files[fd], d)
        PROVE  lines'[n][1] < b
    <3>1. PICK m \in DOMAIN F : m > d /\ F[m] = b /\ F[m] > 0
      BY <1>15
    <3>2. c + 3 * n - 2 < m
      BY <3>1, <1>2, <1>5, <1>7, <1>8
    <3> QED
      BY <3>1, <3>2, <1>8, <1>11
  <2>3. \A a \in Returned', b \in HalfRead' \cup Unread' : a < b
    BY <2>2, <1>8, <1>12, <1>13, <1>17, <1>20
  <2>4. ~ Short'
    BY <1>1, <1>2, <1>4, <1>5 DEF Short, F
  <2>5. \A a \in TextAfter(files[fd], c) : a <= Newest
    <3> SUFFICES ASSUME NEW k \in DOMAIN F
                 PROVE  F[k] <= Newest
      BY <1>16
    <3>1. fd \in DOMAIN files /\ line \in Nat
      BY <1>2, ConstantTypes DEF IInv, TypeOK
    <3>3. F[k] \in Int
      BY <1>2, ByteTypes DEF F
    <3>2. F[k] < line \/ (midLine /\ F[k] = line)
      BY <3>1 DEF IInv, FilesOK, WriterAtEnd, F
    <3> QED
      BY <3>1, <3>2, <3>3 DEF Newest
  <2>6. Newest' = Newest
    BY <1>1 DEF Newest
  <2>7. \A a \in Held' : a <= Newest'
    BY <2>5, <2>6, <1>17, <1>18, <1>19, <1>20 DEF Held
  <2> QED
    BY <2>1, <2>3, <2>4, <2>7 DEF HeldInOrder
<1>22. MayStepBack' \/ Forward'
  <2>1. MayStepBack \/ Forward
    BY <1>2 DEF Ordered, ReaderForward
  <2>2. LastStored' = LastStored /\ (MayStepBack' <=> MayStepBack)
    BY <1>1 DEF LastStored, MayStepBack
  <2>3. Held' \cup Unread' \subseteq Unread
    BY <1>13, <1>14, <1>17, <1>18, <1>19, <1>20 DEF Held
  <2> QED
    BY <2>1, <2>2, <2>3 DEF Forward
<1> QED
  BY <1>21, <1>22 DEF ReaderForward

\* When the file has shrunk since the fstat, the pread finds nothing: the round
\* returns or keeps the half line it held.
LEMMA PreadShortOrdered ==
  ASSUME IInv, Ordered, ReadPread, Short
  PROVE  ReaderForward'
<1>1. /\ pc = "pread"
      /\ offset' = offset + Len(Chunk)
      /\ UNCHANGED <<files, path, fd, stored, unclean, line, midLine>>
  BY DEF ReadPread, Pread, fileVars, ProducerKeeps, countVars
<1>2. /\ Up
      /\ fd \in 1 .. Len(files)
      /\ Len(files[fd]) \in Nat
      /\ offset \in Nat
      /\ pending \in Seq(Byte)
      /\ Len(pending) <= 2
  <2>1. Up
    BY <1>1 DEF Up
  <2>2. fd \in 1 .. Len(files) /\ files[fd] \in Seq(Byte)
    BY <2>1, PositionBounds
  <2>3. Len(files[fd]) \in Nat
    BY <2>2, LenProperties, Zenon
  <2>4. offset \in Nat /\ pending \in Seq(Byte) /\ Len(pending) <= 2
    BY DEF IInv, TypeOK, ControlOK
  <2> QED
    BY <2>1, <2>2, <2>3, <2>4
<1>3. ~ InStep
  BY <1>2 DEF InStep, Short
<1>4. Chunk = << >> /\ pending \o Chunk = pending
  BY <1>1, <1>3, ReadBytes
<1>5. offset' = offset
  BY <1>1, <1>2, <1>4
<1>6. /\ Len(pending) \in Nat
      /\ Len(lines') \in Nat
      /\ lines' \in Seq(WholeLine)
      /\ \A n \in 1 .. Len(lines') :
            /\ 3 * n - 2 <= Len(pending)
            /\ pending[3 * n - 2] \in 1 .. MaxLine
            /\ \/ lines'[n] = Text(pending[3 * n - 2])
               \/ lines'[n] = Cut(pending[3 * n - 2])
      /\ \/ pending' = << >>
         \/ /\ pending' = SubSeq(pending, 3 * Len(lines') + 1, Len(pending))
            /\ \/ Len(pending) = 3 * Len(lines') + 1
               \/ Len(pending) = 3 * Len(lines') + 2
  BY <1>4, PreadStep
<1>7. DOMAIN lines' = 1 .. Len(lines')
  BY <1>6
<1>8. \/ DOMAIN lines' = {} /\ HalfRead' \subseteq HalfRead
      \/ /\ DOMAIN lines' = {1}
         /\ lines'[1][1] \in HalfRead
         /\ HalfRead' = {}
  <2>1. CASE pending' # << >>
    <3>1. Len(lines') = 0 /\ pending' = SubSeq(pending, 3 * Len(lines') + 1, Len(pending))
      BY <2>1, <1>2, <1>6
    <3>2. DOMAIN lines' = {}
      BY <3>1, <1>7
    <3>3. pending' = SubSeq(pending, 0 + 1, Len(pending))
      BY <3>1
    <3>4. /\ pending' \in Seq(Byte)
          /\ Len(pending') = Len(pending) - 0
          /\ \A n \in 1 .. Len(pending) - 0 : pending'[n] = pending[0 + n]
      <4> DEFINE w == SubSeq(pending, 0 + 1, Len(pending))
      <4>1. 0 \in Nat /\ 0 <= Len(pending) /\ Len(pending) <= Len(pending)
        BY <1>6
      <4>2. /\ w \in Seq(Byte)
            /\ Len(w) = Len(pending) - 0
            /\ \A n \in 1 .. Len(pending) - 0 : w[n] = pending[0 + n]
        <5>1. pending \in Seq(Byte) /\ Len(pending) \in Nat
          BY <1>2, <1>6
        <5> QED
          BY <4>1, <5>1, RestAfter, Zenon
      <4> QED
        BY <4>2, <3>3, Zenon
    <3>5. DOMAIN pending' = DOMAIN pending /\ DOMAIN pending = 1 .. Len(pending)
      <4>1. DOMAIN pending' = 1 .. Len(pending') /\ DOMAIN pending = 1 .. Len(pending)
        BY <3>4, <1>2, LenProperties, Zenon
      <4>2. Len(pending') = Len(pending)
        BY <3>4, <1>6
      <4> QED
        BY <4>1, <4>2, Zenon
    <3>6. \A n \in DOMAIN pending' : pending'[n] = pending[n]
      <4>1. \A n \in 1 .. Len(pending) : 0 + n = n
        BY <1>6
      <4>2. Len(pending) - 0 = Len(pending)
        BY <1>6
      <4> QED
        BY <4>1, <4>2, <3>4, <3>5, Zenon
    <3>7. HalfRead' \subseteq HalfRead
      BY <3>5, <3>6 DEF HalfRead, TextAfter
    <3> QED
      BY <3>2, <3>7
  <2>2. CASE pending' = << >> /\ Len(lines') = 0
    BY <2>2, <1>7 DEF HalfRead, TextAfter
  <2>3. CASE pending' = << >> /\ Len(lines') # 0
    <3>1. Len(lines') = 1
      <4>1. Len(lines') \in 1 .. Len(lines')
        BY <2>3, <1>6
      <4>2. 3 * Len(lines') - 2 <= Len(pending)
        BY <4>1, <1>6
      <4>3. Len(lines') \in Nat /\ Len(pending) \in Nat /\ Len(pending) <= 2
        BY <1>2, <1>6
      <4>4. \A a, b \in Nat : a # 0 /\ 3 * a - 2 <= b /\ b <= 2 => a = 1
        OBVIOUS
      <4> QED
        BY <2>3, <4>2, <4>3, <4>4, Zenon
    <3>2. DOMAIN lines' = {1}
      BY <3>1, <1>7
    <3>3. /\ 1 <= Len(pending)
          /\ pending[1] \in 1 .. MaxLine
          /\ lines'[1] = Text(pending[1]) \/ lines'[1] = Cut(pending[1])
      <4>1. 1 \in 1 .. Len(lines') /\ 3 * 1 - 2 = 1
        BY <3>1
      <4> QED
        BY <4>1, <1>6
    <3>4. lines'[1][1] = pending[1]
      <4>1. Text(pending[1])[1] = pending[1] /\ Cut(pending[1])[1] = pending[1]
        BY DEF Text, Cut
      <4> QED
        BY <3>3, <4>1, Zenon
    <3>5. 1 \in DOMAIN pending /\ pending[1] > 0 /\ 1 > 0
      BY <3>3, <1>2, <1>6, ConstantTypes
    <3>6. HalfRead' = {}
      BY <2>3 DEF HalfRead, TextAfter
    <3>7. pending[1] \in HalfRead
      BY <3>5 DEF HalfRead, TextAfter
    <3> QED
      BY <3>2, <3>4, <3>6, <3>7
  <2> QED
    BY <2>1, <2>2, <2>3
<1>9. Short' /\ Unread' = Unread /\ Newest' = Newest
  BY <1>1, <1>5 DEF Short, Unread, NextText, TextAfter, Newest
<1>10. HeldInOrder /\ (MayStepBack \/ Forward)
  BY <1>2 DEF Ordered, ReaderForward
<1>11. Held' \subseteq HalfRead /\ (Returned' = {} \/ HalfRead' = {})
  BY <1>8 DEF Held, Returned
<1>12. \A a \in Held', b \in Unread' : a < b
  BY <1>9, <1>10, <1>11 DEF HeldInOrder
<1>13. HeldInOrder'
  <2>1. \A m, n \in DOMAIN lines' : ~ (m < n)
    BY <1>8
  <2>2. \A a \in Held' : a <= Newest'
    BY <1>9, <1>10, <1>11 DEF HeldInOrder, Held
  <2>3. \A a \in Returned', b \in HalfRead' \cup Unread' : a < b
    BY <1>11, <1>12 DEF Held
  <2> QED
    BY <2>1, <2>2, <2>3, <1>12 DEF HeldInOrder, Held
<1>14. MayStepBack' \/ Forward'
  <2>1. LastStored' = LastStored /\ (MayStepBack' <=> MayStepBack)
    BY <1>1 DEF LastStored, MayStepBack
  <2> QED
    BY <2>1, <1>9, <1>10, <1>11 DEF Forward, Held
<1> QED
  BY <1>13, <1>14 DEF ReaderForward

LEMMA TextAfterFurther ==
  ASSUME IInv, NEW i \in 1 .. Len(files), NEW p \in Nat, NEW q \in Nat, p <= q
  PROVE  TextAfter(files[i], q) \subseteq TextAfter(files[i], p)
<1>1. files[i] \in Seq(Byte)
  BY FileTyped
<1>2. \A k \in DOMAIN files[i] : k \in Nat
  BY <1>1
<1>3. \A k \in DOMAIN files[i] : k > q => k > p
  BY <1>2
<1> QED
  BY <1>3 DEF TextAfter

\* What a reader started from the new checkpoint finds is in front of the
\* running one.
LEMMA CheckpointOrdered ==
  ASSUME IInv, Ordered, Checkpoint
  PROVE  RestartForward'
<1>1. /\ pc = "checkpoint"
      /\ ckpt' = [offset |-> CommittedOffset, inode |-> fd]
      /\ UNCHANGED <<files, path, stored, unclean>>
  BY DEF Checkpoint, fileVars, ProducerKeeps, countVars
<1>2. /\ ckpt'.offset = CommittedOffset
      /\ ckpt'.inode = fd
  BY <1>1
<1>3. SUFFICES ASSUME path # 0
               PROVE  MayStepBack' \/ CheckpointForward'
  BY <1>1 DEF RestartForward
<1> DEFINE s == StartOffset(ckpt.offset, ckpt.inode)'
<1>4. /\ Up
      /\ fd \in 1 .. Len(files)
      /\ path \in 1 .. Len(files)
      /\ CommittedOffset \in Nat
      /\ CommittedOffset + Len(pending) = offset
      /\ offset \in Nat
      /\ Len(files[fd]) \in Nat
  <2>1. Up
    BY <1>1 DEF Up
  <2>2. fd \in 1 .. Len(files) /\ files[fd] \in Seq(Byte)
    BY <2>1, PositionBounds
  <2>3. Len(files[fd]) \in Nat
    BY <2>2, LenProperties, Zenon
  <2>4. offset \in Nat /\ path \in 1 .. Len(files)
    BY <1>3 DEF IInv, TypeOK
  <2> QED
    BY <2>1, <2>2, <2>3, <2>4, PositionBounds
<1>5. Len(pending) \in Nat
  <2>1. pending \in Seq(Byte)
    BY DEF IInv, TypeOK
  <2> QED
    BY <2>1, LenProperties, Zenon
<1>6. s = IF fd = path /\ CommittedOffset <= Len(files[path]) THEN CommittedOffset ELSE 0
  BY <1>1, <1>2, <1>4 DEF StartOffset
<1> HIDE DEF s
<1>7. TextAfter(files[path], s) \subseteq Unread
  <2>1. CASE fd # path
    <3>1. s = 0
      BY <2>1, <1>6
    <3> QED
      BY <2>1, <3>1, <1>3 DEF Unread, NextText
  <2>2. CASE fd = path /\ Short
    <3>1. s \in Nat /\ 0 <= s
      BY <1>4, <1>6
    <3>2. TextAfter(files[path], s) \subseteq TextAfter(files[path], 0)
      BY <3>1, <1>4, TextAfterFurther
    <3> QED
      BY <2>2, <3>2 DEF Unread, NextText
  <2>3. CASE fd = path /\ ~ Short
    <3>1. s = CommittedOffset
      BY <2>3, <1>4, <1>5, <1>6 DEF Short
    <3> QED
      BY <2>3, <3>1 DEF Unread, NextText
  <2> QED
    BY <2>1, <2>2, <2>3
<1>8. MayStepBack \/ \A b \in Unread : LastStored < b
  BY <1>4 DEF Ordered, ReaderForward, Forward
<1>9. LastStored' = LastStored /\ (MayStepBack' <=> MayStepBack)
  BY <1>1 DEF LastStored, MayStepBack
<1>10. RestartText' = TextAfter(files[path], s)
  BY <1>1 DEF RestartText, s
<1> QED
  BY <1>7, <1>8, <1>9, <1>10 DEF CheckpointForward

LEMMA RestartSame ==
  ASSUME IInv, Ordered, UNCHANGED <<files, path, ckpt, stored, unclean>>,
         pc \in {"store", "checkpoint"} => pc' \in {"store", "checkpoint"}
  PROVE  RestartForward'
<1>1. RestartText' = RestartText
  BY DEF RestartText, StartOffset
<1> QED
  BY <1>1, RestartKept

\* A step that leaves stored, the line being written and unclean alone.
LEMMA StoredSame ==
  ASSUME IInv, Ordered, UNCHANGED <<stored, line, midLine, unclean>>
  PROVE  StoredOK'
BY DEF Ordered, StoredOK, Newest

LEMMA ProducerOrdered ==
  ASSUME IInv, Ordered, Producer
  PROVE  Ordered'
<1>1. CASE Start
  <2>1. /\ pc = "down"
        /\ UNCHANGED <<files, path, ckpt, stored, unclean, line, midLine>>
    BY <1>1 DEF Start, fileVars, countVars
  <2> QED
    BY <2>1, <1>1, StoredSame, StartOrdered, RestartSame DEF Ordered
<1>2. CASE ReadNewLines
  <2>1. /\ pc = "top"
        /\ UNCHANGED <<files, path, ckpt, stored, unclean, line, midLine>>
    BY <1>2 DEF ReadNewLines, SwitchFile, StatPath, fileVars, ProducerKeeps, countVars
  <2>2. ASSUME SwitchFile
        PROVE  ReaderForward'
    BY <2>2, <1>2, SwitchOrdered
  <2>3. ASSUME StatPath
        PROVE  ReaderForward'
    <3>1. UNCHANGED <<fd, offset, pending, lines>>
      BY <2>3 DEF StatPath
    <3> QED
      BY <2>1, <3>1, IdleOrdered DEF Up
  <2>4. ReaderForward'
    BY <2>2, <2>3, <1>2 DEF ReadNewLines
  <2> QED
    BY <2>1, <2>4, StoredSame, RestartSame DEF Ordered
<1>3. CASE ReadFstat
  <2>1. /\ pc = "fstat"
        /\ UNCHANGED <<files, path, ckpt, stored, unclean, line, midLine>>
    BY <1>3 DEF ReadFstat, Fstat, fileVars, ProducerKeeps, countVars
  <2> QED
    BY <2>1, <1>3, StoredSame, FstatOrdered, RestartSame DEF Ordered
<1>4. CASE ReadPread
  <2>1. /\ pc' = "store"
        /\ UNCHANGED <<stored, unclean, line, midLine>>
    BY <1>4 DEF ReadPread, ProducerKeeps, countVars
  <2>2. RestartForward'
    BY <2>1 DEF RestartForward
  <2> QED
    BY <2>1, <2>2, <1>4, StoredSame, PreadOrdered, PreadShortOrdered DEF Ordered
<1>5. CASE StoreLine
  <2>1. pc' = "store"
    BY <1>5 DEF StoreLine
  <2>2. RestartForward'
    BY <2>1 DEF RestartForward
  <2> QED
    BY <2>2, <1>5, StoreLineOrdered DEF Ordered
<1>6. CASE RoundStored
  <2>1. /\ pc = "store"
        /\ pc' = "checkpoint"
        /\ UNCHANGED <<files, path, fd, offset, pending, lines, stored, unclean>>
        /\ UNCHANGED <<line, midLine>>
    BY <1>6 DEF RoundStored, fileVars, readerVars, ProducerKeeps, countVars
  <2>2. RestartForward'
    BY <2>1 DEF RestartForward
  <2> QED
    BY <2>1, <2>2, StoredSame, IdleOrdered DEF Ordered, Up
<1>7. CASE Checkpoint
  <2>1. /\ pc = "checkpoint"
        /\ UNCHANGED <<files, path, fd, offset, pending, lines, stored, unclean>>
        /\ UNCHANGED <<line, midLine>>
    BY <1>7 DEF Checkpoint, fileVars, readerVars, ProducerKeeps, countVars
  <2> QED
    BY <2>1, <1>7, StoredSame, IdleOrdered, CheckpointOrdered DEF Ordered, Up
<1>8. CASE SwitchFails
  <2>1. /\ pc = "top"
        /\ pc' = "down"
        /\ UNCHANGED <<files, path, ckpt, stored, unclean, line, midLine>>
    BY <1>8 DEF SwitchFails, Gone, fileVars, countVars
  <2>2. ReaderForward'
    BY <2>1 DEF ReaderForward, Up
  <2> QED
    BY <2>1, <2>2, StoredSame, RestartSame DEF Ordered
<1> QED
  BY <1>1, <1>2, <1>3, <1>4, <1>5, <1>6, <1>7, <1>8 DEF Producer

\* The end of a process pays for one step back when it comes after lines were
\* stored and before the checkpoint; so does a lost checkpoint.
LEMMA EndOrdered ==
  ASSUME IInv, Ordered, Stop \/ Crash \/ ForgetCheckpoint
  PROVE  Ordered'
<1>1. /\ pc' = "down"
      /\ UNCHANGED <<files, path, stored, line, midLine>>
  BY DEF Stop, Crash, ForgetCheckpoint, Gone, fileVars
<1>2. ReaderForward'
  BY <1>1 DEF ReaderForward, Up
<1>3. unclean \in Nat /\ Newest \in Nat
  <2>1. unclean \in 0 .. MaxEnds
    BY Zenon DEF IInv, TypeOK
  <2> QED
    BY <2>1, ConstantTypes, NumbersTyped
<1>4. Newest' = Newest
  BY <1>1 DEF Newest
<1>5. unclean' \in Nat /\ unclean' >= unclean
  <2>1. unclean' = unclean \/ unclean' = unclean + 1
    BY DEF Stop, Crash, ForgetCheckpoint
  <2> QED
    BY <2>1, <1>3
<1>6. StoredOK'
  BY <1>1, <1>3, <1>4, <1>5, StoredKept DEF Ordered
<1>7. RestartForward'
  <2>1. CASE unclean' = unclean + 1
    <3>1. Cardinality(StepsBackIn(stored)) <= unclean
      BY DEF Ordered, StoredOK
    <3>2. Cardinality(StepsBackIn(stored)) \in Nat
      <4>1. stored \in Seq(Seq(Byte))
        BY DEF IInv, TypeOK
      <4>2. IsFiniteSet(DOMAIN stored)
        BY <4>1, FS_Interval, LenProperties
      <4>3. StepsBackIn(stored) \subseteq DOMAIN stored
        BY DEF StepsBackIn
      <4> QED
        BY <4>2, <4>3, FS_Subset, FS_CardinalityType
    <3>3. Cardinality(StepsBackIn(stored')) < unclean'
      BY <2>1, <3>1, <3>2, <1>1, <1>3
    <3> QED
      BY <3>3 DEF RestartForward, MayStepBack
  <2>2. CASE unclean' # unclean + 1
    <3>1. /\ unclean' = unclean
          /\ ckpt' = ckpt
          /\ pc \notin {"store", "checkpoint"}
      BY <2>2 DEF Stop, Crash, ForgetCheckpoint, Gone
    <3> QED
      BY <3>1, <1>1, RestartSame
  <2> QED
    BY <2>1, <2>2
<1> QED
  BY <1>2, <1>6, <1>7 DEF Ordered

\* The steps of the programs that own the file leave the reader and the WAL
\* alone; they may add text newer than all there is, or take some away.
LEMMA OwnerOrdered ==
  ASSUME IInv, Ordered, EnvKeeps, Newest' \in Nat, Newest' >= Newest,
         Up => /\ \A b \in Unread' : b \in Unread \/ (b \in Nat /\ b > Newest)
               /\ Short' => Short \/ \A b \in Unread' : b \in Nat /\ b > Newest,
         path' # 0 =>
           \A b \in RestartText' :
              \/ path # 0 /\ b \in RestartText
              \/ b \in Nat /\ b > Newest
  PROVE  Ordered'
<1>1. UNCHANGED <<stored, lines, pending, unclean, pc>>
  BY DEF EnvKeeps, readerVars, producerVars, countVars
<1>2. unclean \in Nat
  BY ConstantTypes DEF IInv, TypeOK
<1>3. StoredOK'
  BY <1>1, <1>2, StoredKept DEF Ordered
<1>4. ReaderForward'
  <2>1. Up => HeldInOrder' /\ (MayStepBack' \/ Forward')
    BY <1>1, HeldKept
  <2> QED
    BY <2>1, <1>1 DEF ReaderForward, Up
<1>5. RestartForward'
  BY <1>1, RestartKept
<1> QED
  BY <1>3, <1>4, <1>5 DEF Ordered

\* The writer leaves its line or ends it: the newest line stays the newest.
LEMMA NewestAfterTurn ==
  ASSUME IInv, ~ midLine', line' = IF midLine THEN line + 1 ELSE line
  PROVE  Newest' = Newest /\ Newest \in Nat
<1>1. line \in Nat
  BY ConstantTypes DEF IInv, TypeOK
<1>2. Newest' = Newest
  BY <1>1 DEF Newest
<1> QED
  BY <1>2, NumbersTyped

LEMMA EmptyText ==
  ASSUME NEW p
  PROVE  TextAfter(<< >>, p) = {}
BY DEF TextAfter

LEMMA WriteOrdered ==
  ASSUME IInv, Ordered, NEW b \in Byte, WriteByte(b),
         b <= 0 \/ b > Newest, Newest' \in Nat, Newest' >= Newest
  PROVE  Ordered'
<1>1. /\ files' = [files EXCEPT ![writer] = Append(@, b)]
      /\ path' = path
      /\ EnvKeeps
      /\ UNCHANGED <<fd, offset, pending, ckpt>>
  BY DEF WriteByte, EnvKeeps, readerVars, producerVars
<1>2. FilesGrow /\ Len(files') = Len(files)
  BY WriteByteFiles
<1>3. /\ files \in Seq(Seq(Byte))
      /\ writer \in 1 .. Len(files)
      /\ b \in Int
  BY CoreTypes, BytesAreNumbers
<1>4. ASSUME NEW i \in 1 .. Len(files)
      PROVE  /\ files[i] \in Seq(Byte)
             /\ files'[i] \in Seq(Byte)
             /\ Len(files[i]) \in Nat
             /\ Len(files'[i]) \in Nat
             /\ Len(files'[i]) >= Len(files[i])
  <2>1. files[i] \in Seq(Byte)
    BY <1>3, ElementOfSeq, Zenon
  <2>2. files'[i] \in Seq(Byte)
    BY <1>2, ElementOfSeq, Zenon DEF FilesGrow
  <2> QED
    BY <2>1, <2>2, <1>2, LenProperties, Zenon DEF FilesGrow
<1>5. ASSUME NEW i \in 1 .. Len(files), NEW k \in DOMAIN files'[i]
      PROVE  /\ k \in Nat
             /\ \/ k \in DOMAIN files[i] /\ files'[i][k] = files[i][k]
                \/ files'[i][k] = b
  <2>1. CASE i # writer
    <3>1. files'[i] = files[i]
      BY <2>1, <1>1, <1>3
    <3>2. DOMAIN files[i] = 1 .. Len(files[i])
      BY <1>4
    <3> QED
      BY <3>1, <3>2, <1>4
  <2>2. CASE i = writer
    <3> DEFINE F == files[writer]
    <3>1. F \in Seq(Byte) /\ files'[i] = Append(F, b)
      BY <2>2, <1>1, <1>3, <1>4
    <3> HIDE DEF F
    <3>2. /\ Len(files'[i]) = Len(F) + 1
          /\ files'[i][Len(F) + 1] = b
          /\ \A j \in 1 .. Len(F) : files'[i][j] = F[j]
          /\ files'[i] \in Seq(Byte)
      BY <3>1, AppendFile
    <3>3. k \in 1 .. Len(F) + 1
      BY <3>2
    <3>4. Len(F) \in Nat /\ DOMAIN F = 1 .. Len(F)
      BY <3>1
    <3>5. k \in 1 .. Len(F) \/ k = Len(F) + 1
      BY <3>3, <3>4
    <3> QED
      BY <2>2, <3>2, <3>3, <3>4, <3>5 DEF F
  <2> QED
    BY <2>1, <2>2
<1>6. ASSUME NEW i \in 1 .. Len(files), NEW p \in Nat, NEW q \in Nat, p <= q,
             NEW e \in TextAfter(files'[i], q)
      PROVE  e \in TextAfter(files[i], p) \/ (e \in Nat /\ e > Newest)
  <2>1. PICK k \in DOMAIN files'[i] : k > q /\ files'[i][k] > 0 /\ e = files'[i][k]
    BY <1>6 DEF TextAfter
  <2>2. k \in Nat /\ k > p
    BY <2>1, <1>5, <1>6
  <2>3. CASE k \in DOMAIN files[i] /\ files'[i][k] = files[i][k]
    BY <2>1, <2>2, <2>3 DEF TextAfter
  <2>4. CASE files'[i][k] = b
    BY <2>1, <2>4, <1>3
  <2> QED
    BY <2>3, <2>4, <1>5
<1>7. ASSUME Up
      PROVE  /\ \A e \in Unread' : e \in Unread \/ (e \in Nat /\ e > Newest)
             /\ Short' => Short
  <2>1. /\ fd \in 1 .. Len(files)
        /\ CommittedOffset \in Nat
        /\ offset \in Nat
    BY <1>7, PositionBounds DEF IInv, TypeOK
  <2>2. Short' => Short
    BY <2>1, <1>1, <1>4 DEF Short
  <2> DEFINE p == IF Short THEN 0 ELSE CommittedOffset
             q == IF Short' THEN 0 ELSE CommittedOffset
  <2>3. p \in Nat /\ q \in Nat /\ p <= q
    BY <2>1, <2>2
  <2>4. CommittedOffset' = CommittedOffset
    BY <1>1 DEF CommittedOffset
  <2>5. Unread' = TextAfter(files'[fd], q) \cup NextText'
    BY <2>4, <1>1 DEF Unread, NextText, TextAfter
  <2>6. Unread = TextAfter(files[fd], p) \cup NextText
    BY DEF Unread, NextText
  <2> HIDE DEF p, q
  <2>7. path # 0 => path \in 1 .. Len(files)
    BY DEF IInv, TypeOK
  <2>8. \A e \in TextAfter(files'[fd], q) :
           e \in TextAfter(files[fd], p) \/ (e \in Nat /\ e > Newest)
    BY <2>1, <2>3, <1>6
  <2>9. path # 0 => \A e \in TextAfter(files'[path], 0) :
                       e \in TextAfter(files[path], 0) \/ (e \in Nat /\ e > Newest)
    BY <2>7, <1>6
  <2>10. \A e \in NextText' : e \in NextText \/ (e \in Nat /\ e > Newest)
    BY <2>9, <1>1 DEF NextText
  <2> QED
    BY <2>2, <2>5, <2>6, <2>8, <2>10
<1>8. ASSUME path # 0
      PROVE  \A e \in RestartText' :
                \/ e \in RestartText
                \/ e \in Nat /\ e > Newest
  <2> DEFINE p == StartOffset(ckpt.offset, ckpt.inode)
             q == StartOffset(ckpt.offset, ckpt.inode)'
  <2>1. path \in 1 .. Len(files) /\ ckpt.offset \in Nat
    BY <1>8 DEF IInv, TypeOK
  <2>2. p \in Nat /\ q \in Nat /\ p <= q
    BY <2>1, <1>1, <1>4 DEF StartOffset
  <2>3. RestartText' = TextAfter(files'[path], q) /\ RestartText = TextAfter(files[path], p)
    BY <1>1 DEF RestartText
  <2> HIDE DEF p, q
  <2>4. \A e \in TextAfter(files'[path], q) :
           e \in TextAfter(files[path], p) \/ (e \in Nat /\ e > Newest)
    BY <2>1, <2>2, <1>6
  <2> QED
    BY <2>3, <2>4
<1> QED
  BY <1>1, <1>7, <1>8, OwnerOrdered

LEMMA OwnersOrdered ==
  ASSUME IInv, Ordered,
         \/ WriteText \/ WriteRest \/ WriteNewline
         \/ MoveAway \/ CreateNew \/ Reopen \/ Truncate
  PROVE  Ordered'
<1>1. /\ line \in Nat
      /\ Newest \in Nat
      /\ files \in Seq(Seq(Byte))
      /\ Len(files) \in Nat
      /\ path \in 0 .. Len(files)
      /\ writer \in 1 .. Len(files)
      /\ Up => fd \in 1 .. Len(files)
      /\ fd \in 0 .. Len(files)
  <2>1. line \in 1 .. MaxLine + 1
    BY Zenon DEF IInv, TypeOK
  <2>2. line \in Nat /\ Newest \in Nat
    BY <2>1, NumbersTyped, ConstantTypes
  <2>3. Up => fd \in 1 .. Len(files)
    BY PositionBounds
  <2> QED
    BY <2>2, <2>3, CoreTypes
<1>2. CASE WriteText
  <2>1. /\ ~ midLine
        /\ midLine'
        /\ line' = line
        /\ line <= MaxLine
        /\ WriteByte(line)
    BY <1>2 DEF WriteText
  <2>2. line \in Byte
    BY <2>1, LineTyped
  <2>3. line > Newest /\ Newest' \in Nat /\ Newest' >= Newest
    BY <2>1, <1>1 DEF Newest
  <2> QED
    BY <2>1, <2>2, <2>3, WriteOrdered
<1>3. CASE WriteNewline
  <2>1. /\ midLine
        /\ ~ midLine'
        /\ line' = line + 1
        /\ WriteByte(Newline)
    BY <1>3 DEF WriteNewline
  <2>2. Newline \in Byte /\ Newline <= 0
    BY BytesAreNumbers DEF Newline
  <2>3. Newest' \in Nat /\ Newest' >= Newest
    BY <2>1, <1>1 DEF Newest
  <2> QED
    BY <2>1, <2>2, <2>3, WriteOrdered
<1>4. CASE MoveAway
  <2>1. /\ path' = 0
        /\ UNCHANGED <<files, line, midLine, fd, offset, pending>>
        /\ EnvKeeps
    BY <1>4 DEF MoveAway, writerVars, EnvKeeps, readerVars
  <2>2. Newest' = Newest
    BY <2>1 DEF Newest
  <2>3. (Short' <=> Short) /\ CommittedOffset' = CommittedOffset
    BY <2>1 DEF Short, CommittedOffset
  <2>4. Unread' \subseteq Unread
    BY <2>1, <2>3 DEF Unread, NextText
  <2> QED
    BY <2>1, <2>2, <2>3, <2>4, <1>1, OwnerOrdered
<1>5. CASE CreateNew
  <2>1. /\ path = 0
        /\ files' = Append(files, << >>)
        /\ path' = Len(files) + 1
        /\ UNCHANGED <<fd, offset, pending>>
        /\ EnvKeeps
    BY <1>5 DEF CreateNew, EnvKeeps, readerVars
  <2>2. /\ files'[Len(files) + 1] = << >>
        /\ \A j \in 1 .. Len(files) : files'[j] = files[j]
    <3>1. << >> \in Seq(Byte)
      OBVIOUS
    <3> QED
      BY <3>1, <2>1, <1>1, AppendFile
  <2>3. Newest' = Newest
    <3>1. CASE WriterTurnsTo(Len(files) + 1)
      BY <3>1, NewestAfterTurn DEF WriterTurnsTo
    <3>2. CASE UNCHANGED <<writer, midLine, line>>
      BY <3>2 DEF Newest
    <3> QED
      BY <3>1, <3>2, <1>5 DEF CreateNew
  <2>4. RestartText' = {} /\ NextText' = {}
    BY <2>1, <2>2, EmptyText DEF RestartText, NextText
  <2>5. ASSUME Up
        PROVE  Unread' \subseteq Unread /\ (Short' <=> Short)
    <3>1. files'[fd] = files[fd]
      BY <2>2, <2>5, <1>1
    <3>2. (Short' <=> Short) /\ CommittedOffset' = CommittedOffset
      BY <2>1, <3>1 DEF Short, CommittedOffset
    <3> QED
      BY <2>1, <2>4, <3>1, <3>2 DEF Unread
  <2> QED
    BY <2>1, <2>3, <2>4, <2>5, <1>1, OwnerOrdered
<1>6. CASE Reopen
  <2>1. /\ UNCHANGED <<files, path, fd, offset, pending, ckpt>>
        /\ EnvKeeps
        /\ WriterTurnsTo(path)
    BY <1>6 DEF Reopen, EnvKeeps, readerVars, producerVars, fileVars
  <2>2. Newest' = Newest
    BY <2>1, NewestAfterTurn DEF WriterTurnsTo
  <2>3. (Short' <=> Short) /\ CommittedOffset' = CommittedOffset
    BY <2>1 DEF Short, CommittedOffset
  <2>4. Unread' = Unread /\ RestartText' = RestartText
    BY <2>1, <2>3 DEF Unread, NextText, RestartText, StartOffset
  <2> QED
    BY <2>1, <2>2, <2>3, <2>4, <1>1, OwnerOrdered
<1>7. CASE Truncate
  <2>1. /\ path = writer
        /\ path' = path
        /\ files' = [files EXCEPT ![writer] = << >>]
        /\ UNCHANGED <<fd, offset, pending>>
        /\ EnvKeeps
        /\ ~ midLine'
        /\ line' = IF midLine THEN line + 1 ELSE line
    BY <1>7 DEF Truncate, EnvKeeps, readerVars
  <2>2. /\ files'[path] = << >>
        /\ \A j \in 1 .. Len(files) : j # path => files'[j] = files[j]
    BY <2>1, <1>1
  <2>3. Newest' = Newest
    BY <2>1, NewestAfterTurn
  <2>4. RestartText' = {} /\ NextText' = {}
    BY <2>1, <2>2, EmptyText DEF RestartText, NextText
  <2>5. ASSUME Up
        PROVE  Unread' \subseteq Unread /\ ((Short' <=> Short) \/ Unread' = {})
    <3>1. CASE fd = path
      <4>1. Unread' = {}
        BY <2>1, <2>2, <2>4, <3>1, EmptyText DEF Unread
      <4> QED
        BY <4>1
    <3>2. CASE fd # path
      <4>1. files'[fd] = files[fd]
        BY <2>2, <2>5, <3>2, <1>1
      <4>2. (Short' <=> Short) /\ CommittedOffset' = CommittedOffset
        BY <2>1, <4>1 DEF Short, CommittedOffset
      <4> QED
        BY <2>1, <2>4, <4>1, <4>2 DEF Unread
    <3> QED
      BY <3>1, <3>2
  <2> QED
    BY <2>1, <2>3, <2>4, <2>5, <1>1, OwnerOrdered
<1>8. CASE WriteRest
  <2>1. midLine /\ midLine' = midLine /\ line' = line /\ WriteByte(-line)
    BY <1>8 DEF WriteRest
  <2>2. line <= MaxLine
    BY <2>1 DEF IInv, FilesOK, WriterAtEnd
  <2>3. -line \in Byte /\ -line <= 0
    BY <2>2, LineTyped
  <2>4. Newest' = Newest
    BY <2>1 DEF Newest
  <2> QED
    BY <2>1, <2>3, <2>4, <1>1, WriteOrdered
<1> QED
  BY <1>2, <1>3, <1>4, <1>5, <1>6, <1>7, <1>8

LEMMA InitOrdered == Init => Ordered
<1> SUFFICES ASSUME Init
             PROVE  Ordered
  OBVIOUS
<1>1. /\ path = 1 /\ pc = "down" /\ ~ midLine /\ unclean = 0
      /\ line \in {1, 2}
  BY DEF Init
<1>2. Newest = line - 1
  BY <1>1 DEF Newest
<1>3. CASE line = 1
  <2>1. stored = << >> /\ files = << << >> >>
    BY <1>3, InitFiles
  <2>2. StepsBackIn(stored) = {} /\ DOMAIN stored = {}
    BY <2>1 DEF StepsBackIn
  <2>3. Cardinality({}) = 0
    BY FS_EmptySet
  <2>4. RestartText = {}
    BY <2>1, <1>1 DEF RestartText, TextAfter
  <2> QED
    BY <2>2, <2>3, <2>4, <1>1 DEF Ordered, StoredOK, ReaderForward, Up,
       RestartForward, CheckpointForward
<1>4. CASE line = 2
  <2>1. /\ stored = << Text(1) >>
        /\ files = << <<1, -1, Newline>> >>
        /\ ckpt = [offset |-> 3, inode |-> 0]
    BY <1>4, InitFiles
  <2>2. DOMAIN stored = {1} /\ stored[1][1] = 1
    BY <2>1 DEF Text
  <2>3. StepsBackIn(stored) = {}
    BY <2>2 DEF StepsBackIn
  <2>4. Cardinality({}) = 0
    BY FS_EmptySet
  <2>5. DOMAIN files[1] = {1, 2, 3} /\ Len(files[1]) = 3
    BY <2>1
  <2>6. StartOffset(ckpt.offset, ckpt.inode) = 3
    BY <2>1, <2>5, <1>1 DEF StartOffset
  <2>7. RestartText = {}
    BY <2>5, <2>6, <1>1 DEF RestartText, TextAfter
  <2> QED
    BY <2>2, <2>3, <2>4, <2>7, <1>1, <1>2, <1>4 DEF Ordered, StoredOK, ReaderForward,
       Up, RestartForward, CheckpointForward
<1> QED
  BY <1>1, <1>3, <1>4

LEMMA NextOrdered ==
  ASSUME IInv, Ordered, [Next]_vars
  PROVE  Ordered'
<1>1. CASE UNCHANGED vars
  <2>1. /\ UNCHANGED <<files, path, fd, offset, pending, lines, stored, unclean>>
        /\ UNCHANGED <<line, midLine, ckpt, pc>>
    BY <1>1 DEF vars, fileVars, readerVars, producerVars, writerVars, countVars
  <2>2. StoredOK' /\ RestartForward'
    BY <2>1, StoredSame, RestartSame
  <2>3. ReaderForward'
    <3>1. Up => ReaderForward'
      BY <2>1, IdleOrdered
    <3> QED
      BY <2>1, <3>1 DEF ReaderForward, Up
  <2> QED
    BY <2>2, <2>3 DEF Ordered
<1>2. CASE Producer
  BY <1>2, ProducerOrdered
<1>3. CASE Environment
  BY <1>3, OwnersOrdered, EndOrdered DEF Environment
<1> QED
  BY <1>1, <1>2, <1>3 DEF Next

\* Lines go into the WAL in the order they were written, each once, with no more
\* steps back than there were processes that ended between wal.append and
\* updateFileCheckpoint, or lost checkpoints: no rotation, truncation or half
\* line makes readNewLines return a line again, in any environment.
THEOREM TailRepeatsOnlyAfterCrash == Spec => []RepeatsOnlyAfterCrash
<1>1. Init => IInv /\ Ordered
  BY InitIInv, InitOrdered
<1>2. IInv /\ Ordered /\ [Next]_vars => (IInv /\ Ordered)'
  BY NextIInv, NextOrdered
<1>3. Ordered => RepeatsOnlyAfterCrash
  BY DEF Ordered, StoredOK, StepsBackIn, RepeatsOnlyAfterCrash
<1> QED
  BY <1>1, <1>2, <1>3, PTL DEF Spec

=============================================================================
