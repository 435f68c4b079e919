-------------------------- MODULE PersistenceProofs --------------------------
(***************************************************************************)
(* What appendDurably and writeAtomically promise survives kills, failing  *)
(* calls and power failures, in any number: for any number of records.     *)
(***************************************************************************)
EXTENDS Persistence, SequenceTheorems, TLAPS

Record == 1 .. MaxRecord

\* The record that the k-th half belongs to.
Half(k) == (k + 1) \div 2

\* The halves are in order and come in pairs, the last perhaps alone.
Good(b) ==
  \A i, j \in 1 .. Len(b) : /\ Half(i) = Half(j) => b[i] = b[j]
                            /\ Half(i) < Half(j) => b[i] < b[j]

Even(b) == Len(b) % 2 = 0

\* The records that are completely there.
Whole(b) == {b[2 * k] : k \in 1 .. Len(b) \div 2}

\* The records that must not come back.
Gone == dropped \ undone

\* A content that load accepts and that has nothing that is gone.
Clean(b) ==
  /\ b \in Seq(Record)
  /\ Good(b)
  /\ \A i \in 1 .. Len(b) : b[i] < next /\ b[i] \notin Gone

\* A content that has everything that was promised.
Keeps(b) == IF b = NoFile THEN promised = {} ELSE promised \subseteq Whole(b)

DiskInv ==
  /\ \A b \in old \cup {file} : /\ b # NoFile => Clean(b)
                                /\ Keeps(b)
  /\ Exists => /\ synced \in 0 .. Len(file)
               /\ Keeps(SubSeq(file, 1, synced))

\* Records in memory, in the order of their numbers.
Ordered(recs) ==
  /\ recs \in Seq(Record)
  /\ \A i, j \in 1 .. Len(recs) : i < j => recs[i] < recs[j]

\* What the process has in memory is everything it has promised and nothing
\* it has dropped for good.
MemInv ==
  pc # "down" =>
    /\ Ordered(mem)
    /\ \A i \in 1 .. Len(mem) : mem[i] < next /\ mem[i] \notin Gone
    /\ \A r \in promised : \E i \in 1 .. Len(mem) : mem[i] = r

\* A new record goes behind complete ones.
TailInv ==
  /\ pc = "idle" /\ ~ broken => Even(Content)
  /\ pc \in {"tmpwrite", "rename"} /\ caller = "confirm" /\ ~ broken
       => Even(Content)

Appending == caller = "append" /\ pc \in {"write", "fsync", "dirsync"}

\* The record on its way is newer than all others.
AppendInv ==
  /\ pc \in {"write", "fsync"} => caller = "append"
  /\ Appending =>
       /\ Exists
       /\ ~ broken
       /\ next - 1 \in Record
       /\ next - 1 \notin Gone
       /\ \A i \in 1 .. Len(mem) : mem[i] < next - 1
  /\ pc = "write" =>
       \/ /\ todo = <<next - 1, next - 1>>
          /\ Even(file)
          /\ \A i \in 1 .. Len(file) : file[i] < next - 1
       \/ /\ todo = <<next - 1>>
          /\ ~ Even(file)
          /\ file[Len(file)] = next - 1
  /\ Appending /\ pc # "write" =>
       /\ Even(file)
       /\ Len(file) > 0
       /\ file[Len(file)] = next - 1
  /\ Appending /\ pc = "dirsync" => synced = Len(file)

\* The temporary file becomes a copy of the memory.
RewriteInv ==
  /\ pc \in {"tmpwrite", "rename"} => caller \in {"confirm", "load"}
  /\ pc = "tmpwrite" => /\ tmp \in Seq(Record) /\ todo \in Seq(Record)
                        /\ tmp \o todo = Bytes(mem)
  /\ pc = "rename" => tmp = Bytes(mem) /\ tmpSynced = Len(tmp)
  /\ pc = "dirsync" /\ caller # "append" =>
       file = Bytes(mem) /\ synced = Len(file)

Bounds ==
  /\ next \in 1 .. MaxRecord + 1
  /\ promised \subseteq Record
  /\ dropped \subseteq 1 .. next - 1
  /\ undone \subseteq 1 .. next - 1
  /\ pc \in {"down", "idle", "write", "fsync", "dirsync", "tmpwrite", "rename"}
  /\ caller \in {"append", "confirm", "load"}
  /\ broken \in BOOLEAN

Inv == Bounds /\ DiskInv /\ MemInv /\ TailInv /\ AppendInv /\ RewriteInv

-----------------------------------------------------------------------------
(* Bytes and records. *)

\* Halves 2k - 1 and 2k belong to record k.
LEMMA Halves ==
  /\ \A k \in Nat : /\ k \div 2 \in Nat /\ 2 * (k \div 2) <= k
                    /\ k < 2 * (k \div 2) + 2
                    /\ k % 2 = 0 => k = 2 * (k \div 2)
                    /\ k % 2 # 0 => k = 2 * (k \div 2) + 1
                    /\ k % 2 = 0 <=> (k + 1) % 2 # 0
  /\ \A k \in Nat : Half(k) \in Nat /\ 2 * Half(k) <= k + 1 /\ k <= 2 * Half(k)
<1>1. \A k \in Nat : /\ k \div 2 \in Nat /\ 2 * (k \div 2) <= k
                     /\ k < 2 * (k \div 2) + 2
                     /\ k % 2 = 0 => k = 2 * (k \div 2)
                     /\ k % 2 # 0 => k = 2 * (k \div 2) + 1
                     /\ k % 2 = 0 <=> (k + 1) % 2 # 0
  OBVIOUS
<1>2. \A k \in Nat : Half(k) \in Nat /\ 2 * Half(k) <= k + 1 /\ k <= 2 * Half(k)
  BY DEF Half
<1> QED
  BY <1>1, <1>2

\* Two halves are of the same record or of different ones, by their places.
LEMMA HalfOrder ==
  ASSUME NEW i \in Nat, NEW j \in Nat
  PROVE  /\ i <= j => Half(i) <= Half(j)
         /\ Half(i) = Half(j) /\ i < j => j = i + 1 /\ j % 2 = 0
         /\ Half(2 * i) = i
         /\ i > 0 => Half(2 * i - 1) = i
         /\ j % 2 = 0 /\ i < j + 1 => Half(i) < Half(j + 1)
BY DEF Half

\* A prefix of a good content is good.
LEMMA Prefix ==
  ASSUME NEW T, NEW b \in Seq(T), NEW n \in 0 .. Len(b)
  PROVE  /\ SubSeq(b, 1, n) \in Seq(T)
         /\ Len(SubSeq(b, 1, n)) = n
         /\ \A i \in 1 .. n : SubSeq(b, 1, n)[i] = b[i]
         /\ Good(b) => Good(SubSeq(b, 1, n))
<1>1. /\ SubSeq(b, 1, n) \in Seq(T)
      /\ Len(SubSeq(b, 1, n)) = n
      /\ \A i \in 1 .. n : SubSeq(b, 1, n)[i] = b[i]
  OBVIOUS
<1> QED
  BY <1>1 DEF Good

\* A longer prefix has more complete records.
LEMMA WholeGrows ==
  ASSUME NEW T, NEW b \in Seq(T), NEW n \in 0 .. Len(b), NEW m \in 0 .. n
  PROVE  Whole(SubSeq(b, 1, m)) \subseteq Whole(SubSeq(b, 1, n))
<1>1. SUFFICES ASSUME NEW k \in 1 .. m \div 2
               PROVE  SubSeq(b, 1, m)[2 * k] \in Whole(SubSeq(b, 1, n))
  BY Prefix DEF Whole
<1>2. 2 * k \in 1 .. m /\ k \in 1 .. n \div 2
  OBVIOUS
<1>3. SubSeq(b, 1, m)[2 * k] = SubSeq(b, 1, n)[2 * k]
  <2>1. 2 * k \in 1 .. n /\ m \in 0 .. Len(b)
    BY <1>2
  <2>2. SubSeq(b, 1, n)[2 * k] = b[2 * k]
    BY <2>1, Prefix
  <2>3. SubSeq(b, 1, m)[2 * k] = b[2 * k]
    BY <1>2, <2>1, Prefix
  <2> QED
    BY <2>2, <2>3
<1> QED
  BY <1>2, <1>3, Prefix DEF Whole

\* The copy of some records.
LEMMA CopyFacts ==
  ASSUME NEW recs, Ordered(recs)
  PROVE  /\ Bytes(recs) \in Seq(Record)
         /\ Len(Bytes(recs)) = 2 * Len(recs)
         /\ Even(Bytes(recs))
         /\ Good(Bytes(recs))
         /\ Whole(Bytes(recs)) = {recs[i] : i \in 1 .. Len(recs)}
         /\ \A k \in 1 .. Len(Bytes(recs)) :
               Half(k) \in 1 .. Len(recs) /\ Bytes(recs)[k] = recs[Half(k)]
<1> DEFINE n == Len(recs)  c == Bytes(recs)
<1>1. n \in Nat /\ \A i \in 1 .. n : recs[i] \in Record
  BY DEF Ordered
<1>2. \A k \in 1 .. 2 * n : Half(k) \in 1 .. n
  <2> HIDE DEF n
  <2> QED
    BY <1>1 DEF Half
<1>3. c = [k \in 1 .. 2 * n |-> recs[Half(k)]]
  BY DEF Bytes, Half
<1>4. c \in [1 .. 2 * n -> Record]
  BY <1>1, <1>2, <1>3
<1>5. c \in Seq(Record) /\ Len(c) = 2 * n
  BY <1>1, <1>4, SeqDef
<1>6. \A k \in 1 .. 2 * n : c[k] = recs[Half(k)]
  BY <1>3
<1>7. Even(c)
  BY <1>1, <1>5 DEF Even
<1>8. Good(c)
  BY <1>2, <1>5, <1>6 DEF Good, Ordered
<1>9. \A k \in 1 .. n : 2 * k \in 1 .. 2 * n /\ c[2 * k] = recs[k]
  <2> SUFFICES ASSUME NEW k \in 1 .. n
               PROVE  2 * k \in 1 .. 2 * n /\ c[2 * k] = recs[k]
    OBVIOUS
  <2>1. 2 * k \in 1 .. 2 * n /\ Half(2 * k) = k
    BY <1>1, HalfOrder
  <2> QED
    BY <1>6, <2>1
<1>10. (2 * n) \div 2 = n
  BY <1>1
<1>11. Whole(c) = {recs[i] : i \in 1 .. n}
  BY <1>5, <1>9, <1>10 DEF Whole
<1> QED
  BY <1>2, <1>5, <1>6, <1>7, <1>8, <1>11

\* What load reads.
LEMMA LoadFacts ==
  ASSUME NEW b \in Seq(Record), Good(b)
  PROVE  /\ Loadable(b)
         /\ Ordered(Records(b))
         /\ Len(Records(b)) = Len(b) \div 2
         /\ \A k \in 1 .. Len(b) \div 2 : Records(b)[k] = b[2 * k]
         /\ Range(Records(b)) = Whole(b)
<1> DEFINE n == Len(b) \div 2  recs == Records(b)
<1>1. Len(b) \in Nat /\ n \in Nat
  OBVIOUS
<1>2. \A k \in 1 .. n : 2 * k \in 1 .. Len(b) /\ 2 * k - 1 \in 1 .. Len(b)
  BY <1>1
<1>3. \A k \in 1 .. n : Half(2 * k) = k /\ Half(2 * k - 1) = k
  BY <1>1, HalfOrder
<1>4. \A k \in 1 .. n : b[2 * k - 1] = b[2 * k]
  BY <1>2, <1>3 DEF Good
<1>5. \A k, m \in 1 .. n : k < m => b[2 * k] < b[2 * m]
  BY <1>2, <1>3 DEF Good
<1>6. recs = [k \in 1 .. n |-> b[2 * k]]
  BY DEF Records
<1>7. recs \in [1 .. n -> Record]
  BY <1>2, <1>6
<1>8. recs \in Seq(Record) /\ Len(recs) = n
  BY <1>1, <1>7, SeqDef
<1>9. Ordered(recs)
  BY <1>5, <1>6, <1>8 DEF Ordered
<1>10. Range(recs) = Whole(b)
  BY <1>6 DEF Range, Whole
<1> QED
  BY <1>4, <1>6, <1>8, <1>9, <1>10 DEF Loadable

\* One more half, of a new record or of the record that has only one.
LEMMA OneMoreHalf ==
  ASSUME NEW b \in Seq(Record), Good(b), NEW e \in Record,
         \/ Even(b) /\ \A i \in 1 .. Len(b) : b[i] < e
         \/ ~ Even(b) /\ b[Len(b)] = e
  PROVE  /\ Append(b, e) \in Seq(Record)
         /\ Len(Append(b, e)) = Len(b) + 1
         /\ \A i \in 1 .. Len(b) : Append(b, e)[i] = b[i]
         /\ Append(b, e)[Len(b) + 1] = e
         /\ Good(Append(b, e))
         /\ Even(Append(b, e)) <=> ~ Even(b)
         /\ Whole(b) \subseteq Whole(Append(b, e))
         /\ \A n \in 0 .. Len(b) : SubSeq(Append(b, e), 1, n) = SubSeq(b, 1, n)
<1> DEFINE c == Append(b, e)  n == Len(b)
<1>1. /\ c \in Seq(Record) /\ Len(c) = n + 1 /\ n \in Nat
      /\ c[n + 1] = e /\ \A i \in 1 .. n : c[i] = b[i]
  OBVIOUS
<1>2. Even(c) <=> ~ Even(b)
  BY <1>1 DEF Even
<1>3. ASSUME NEW i \in 1 .. n
      PROVE  /\ Half(i) = Half(n + 1) => b[i] = e
             /\ Half(i) < Half(n + 1) => b[i] < e
             /\ Half(i) <= Half(n + 1)
  <2>1. Half(i) <= Half(n + 1)
    BY <1>1 DEF Half
  <2>2. CASE Even(b) /\ \A j \in 1 .. Len(b) : b[j] < e
    <3>1. Half(i) < Half(n + 1)
      BY <1>1, <2>2 DEF Half, Even
    <3> QED
      BY <1>1, <2>2, <3>1 DEF Half
  <2>3. CASE ~ Even(b) /\ b[Len(b)] = e
    <3>1. n \in 1 .. n /\ Half(n + 1) = Half(n)
      BY <1>1, <2>3 DEF Half, Even
    <3> QED
      BY <2>1, <2>3, <3>1 DEF Good
  <2> QED
    BY <2>2, <2>3
<1>4. Good(c)
  <2> SUFFICES ASSUME NEW i \in 1 .. n + 1, NEW j \in 1 .. n + 1
               PROVE  /\ Half(i) = Half(j) => c[i] = c[j]
                      /\ Half(i) < Half(j) => c[i] < c[j]
    BY <1>1 DEF Good
  <2>1. CASE i \in 1 .. n /\ j \in 1 .. n
    BY <1>1, <2>1 DEF Good
  <2>2. CASE i \in 1 .. n /\ j = n + 1
    BY <1>1, <1>3, <2>2
  <2>3. CASE i = n + 1 /\ j \in 1 .. n
    <3>1. Half(j) \in Nat /\ Half(n + 1) \in Nat
      BY <1>1, <2>3, Halves
    <3>2. /\ Half(j) <= Half(n + 1)
          /\ Half(j) = Half(n + 1) => b[j] = e
      BY <1>3, <2>3
    <3> QED
      BY <1>1, <2>3, <3>1, <3>2
  <2>4. CASE i = n + 1 /\ j = n + 1
    BY <2>4, Halves
  <2> QED
    BY <1>1, <2>1, <2>2, <2>3, <2>4
<1>5. Whole(b) \subseteq Whole(c)
  <2> SUFFICES ASSUME NEW k \in 1 .. n \div 2
               PROVE  b[2 * k] \in Whole(c)
    BY DEF Whole
  <2>1. 2 * k \in 1 .. n /\ k \in 1 .. (n + 1) \div 2
    BY <1>1
  <2>2. c[2 * k] = b[2 * k]
    BY <1>1, <2>1
  <2> QED
    BY <1>1, <2>1, <2>2 DEF Whole
<1>6. ASSUME NEW m \in 0 .. n
      PROVE  SubSeq(c, 1, m) = SubSeq(b, 1, m)
  <2>1. m \in 0 .. Len(c)
    BY <1>1
  <2>2. /\ SubSeq(c, 1, m) \in Seq(Record) /\ SubSeq(b, 1, m) \in Seq(Record)
        /\ Len(SubSeq(c, 1, m)) = m /\ Len(SubSeq(b, 1, m)) = m
        /\ \A i \in 1 .. m : SubSeq(c, 1, m)[i] = c[i] /\ SubSeq(b, 1, m)[i] = b[i]
    BY <1>1, <2>1, Prefix
  <2> QED
    <3>1. \A i \in 1 .. m : SubSeq(c, 1, m)[i] = SubSeq(b, 1, m)[i]
      BY <1>1, <2>2
    <3> HIDE DEF c
    <3> QED
      BY <2>2, <3>1, SeqEqual
<1> QED
  BY <1>1, <1>2, <1>4, <1>5, <1>6

\* The last half of a complete file completes a record.
LEMMA LastIsWhole ==
  ASSUME NEW b \in Seq(Record), Even(b), Len(b) > 0
  PROVE  b[Len(b)] \in Whole(b)
<1> DEFINE k == Len(b) \div 2
<1>1. k \in 1 .. Len(b) \div 2 /\ 2 * k = Len(b)
  BY DEF Even
<1> QED
  BY <1>1 DEF Whole

\* A content of a file is not the absence of one.
LEMMA NotNoFile ==
  ASSUME NEW b \in Seq(Record)
  PROVE  b # NoFile
BY PersistenceAssumption DEF Record

-----------------------------------------------------------------------------
(* What the invariant says of every content the disk may come back with. *)

\* Every prefix that reaches the synced part is as good as the file.
LEMMA DiskFacts ==
  ASSUME DiskInv
  PROVE  \A b \in Entry \cup {file} : /\ b # NoFile => Clean(b)
                                      /\ Keeps(b)
<1> SUFFICES ASSUME Exists, NEW n \in synced .. Len(file)
             PROVE  Clean(SubSeq(file, 1, n)) /\ Keeps(SubSeq(file, 1, n))
  BY DEF Entry, OnDisk, DiskInv, Exists
<1> DEFINE b == SubSeq(file, 1, n)
<1>1. Clean(file) /\ synced \in 0 .. Len(file) /\ Keeps(SubSeq(file, 1, synced))
  BY DEF DiskInv, Exists
<1>2. n \in 0 .. Len(file) /\ synced \in 0 .. n /\ file \in Seq(Record)
  BY <1>1 DEF Clean
<1>3. /\ b \in Seq(Record) /\ Len(b) = n /\ Good(b)
      /\ \A i \in 1 .. n : b[i] = file[i]
  BY <1>1, <1>2, Prefix DEF Clean
<1>4. \A i \in 1 .. n : i \in 1 .. Len(file)
  BY <1>2
<1>5. Clean(b)
  BY <1>1, <1>3, <1>4 DEF Clean
<1>6. Whole(SubSeq(file, 1, synced)) \subseteq Whole(b)
  BY <1>2, WholeGrows
<1>7. SubSeq(file, 1, synced) # NoFile /\ b # NoFile
  BY <1>1, <1>2, <1>3, Prefix, NotNoFile
<1> QED
  BY <1>1, <1>5, <1>6, <1>7 DEF Keeps

\* The invariant implies the three properties.
LEMMA InvImplies ==
  Inv => PromisedSurvives /\ DroppedStaysDropped /\ AlwaysLoadable
<1> SUFFICES ASSUME Inv, NEW b \in AfterPower \cup {file}
             PROVE  /\ \/ promised \subseteq Survivors(b)
                       \/ b = NoFile /\ directory = "new"
                    /\ Gone \cap Survivors(b) = {}
                    /\ b # NoFile =>
                         /\ Loadable(b)
                         /\ \A i, j \in DOMAIN Records(b) :
                               i < j => Records(b)[i] < Records(b)[j]
  BY DEF PromisedSurvives, DroppedStaysDropped, AlwaysLoadable, Gone
<1>1. \/ (b # NoFile => Clean(b)) /\ Keeps(b)
      \/ b = NoFile /\ directory = "new"
  BY DiskFacts DEF Inv, AfterPower
<1>2. CASE b = NoFile
  BY <1>1, <1>2 DEF Keeps, Survivors
<1>3. CASE b # NoFile
  <2>1. /\ b \in Seq(Record) /\ Good(b)
        /\ \A i \in 1 .. Len(b) : b[i] \notin Gone
    BY <1>1, <1>3 DEF Clean
  <2>2. /\ Loadable(b) /\ Ordered(Records(b))
        /\ Survivors(b) = Whole(b)
    BY <1>3, <2>1, LoadFacts DEF Survivors
  <2>3. \A k \in 1 .. Len(b) \div 2 : 2 * k \in 1 .. Len(b)
    BY <2>1
  <2>4. Gone \cap Whole(b) = {}
    BY <2>1, <2>3 DEF Whole
  <2>5. DOMAIN Records(b) = 1 .. Len(Records(b))
    BY <2>2 DEF Ordered
  <2> QED
    BY <1>1, <1>3, <2>2, <2>4, <2>5 DEF Keeps, Ordered
<1> QED
  BY <1>2, <1>3

-----------------------------------------------------------------------------
(* Steps that leave the contents alone. *)

\* A content stays clean while records are numbered, and keeps what is still
\* promised.
LEMMA StaysClean ==
  ASSUME Bounds, next' \in Nat, next <= next', Gone' \subseteq Gone,
         promised' \subseteq promised
  PROVE  \A b : (Clean(b) => Clean(b)') /\ (Keeps(b) => Keeps(b)')
<1>1. ASSUME NEW b, Clean(b)
      PROVE  Clean(b)'
  <2>1. \A i \in 1 .. Len(b) : b[i] \in Record
    BY <1>1 DEF Clean
  <2> QED
    BY <1>1, <2>1 DEF Clean, Bounds, Record
<1>2. ASSUME NEW b, Keeps(b)
      PROVE  Keeps(b)'
  BY <1>2 DEF Keeps
<1> QED
  BY <1>1, <1>2

\* The contents and their number are as before.
LEMMA DiskUntouched ==
  ASSUME Bounds, DiskInv, next' \in Nat, next <= next', Gone' \subseteq Gone,
         promised' \subseteq promised, UNCHANGED <<file, synced, old>>
  PROVE  DiskInv'
<1>1. \A b : (Clean(b) => Clean(b)') /\ (Keeps(b) => Keeps(b)')
  BY StaysClean
<1>2. \A b \in old' \cup {file'} : (b # NoFile => Clean(b)') /\ Keeps(b)'
  BY <1>1 DEF DiskInv
<1>3. Exists' => Keeps(SubSeq(file, 1, synced))'
  BY DEF DiskInv, Exists, Keeps
<1> QED
  BY <1>2, <1>3 DEF DiskInv, Exists

\* The process is gone, the files are not.
LEMMA DownSafe ==
  ASSUME Inv,
         UNCHANGED <<file, synced, old, caller, next, promised, dropped, undone>>,
         broken' \in BOOLEAN, pc' = "down"
  PROVE  Inv'
<1> USE DEF Inv
<1>1. Bounds'
  BY DEF Bounds
<1>2. DiskInv'
  <2>1. Gone' = Gone
    BY DEF Gone
  <2> QED
    BY <2>1, DiskUntouched DEF Bounds
<1> QED
  BY <1>1, <1>2 DEF MemInv, TailInv, AppendInv, Appending, RewriteInv

\* appendDurably opens: the new record is behind complete ones.
LEMMA AppendOpenSafe ==
  ASSUME Inv, AppendOpen
  PROVE  Inv'
<1> USE DEF Inv
<1>1. /\ pc = "idle" /\ ~ broken /\ next <= MaxRecord /\ pc' = "write"
      /\ caller' = "append" /\ todo' = <<next, next>> /\ next' = next + 1
      /\ file' = Content
      /\ UNCHANGED <<mem, broken, promised, dropped, undone>> /\ Gone' = Gone
  BY DEF AppendOpen, Gone
<1>2. next \in Record /\ next \notin Gone /\ next' - 1 = next /\ next' \in Nat
  BY <1>1, PersistenceAssumption DEF Bounds, Record, Gone
<1>3. Bounds'
  BY <1>1, <1>2, PersistenceAssumption DEF Bounds, Record
<1>4. \A b : (Clean(b) => Clean(b)') /\ (Keeps(b) => Keeps(b)')
  BY <1>1, <1>2, StaysClean DEF Bounds
<1>5. /\ Content \in Seq(Record) /\ Even(Content)
      /\ \A i \in 1 .. Len(Content) : Content[i] < next
  <2>1. CASE Exists
    BY <1>1, <2>1 DEF DiskInv, Clean, TailInv, Content, Exists
  <2>2. CASE ~ Exists
    BY <1>1, <2>2 DEF TailInv, Content
  <2> QED
    BY <2>1, <2>2
<1>6. Exists' /\ file' \in Seq(Record)
  BY <1>1, <1>5, NotNoFile DEF Exists
<1>7. DiskInv'
  <2>1. CASE Exists
    <3>1. UNCHANGED <<file, synced, old>>
      BY <2>1 DEF AppendOpen, Content
    <3> QED
      BY <1>1, <1>2, <3>1, DiskUntouched DEF Bounds
  <2>2. CASE ~ Exists
    <3>1. file' = << >> /\ synced' = 0 /\ old' = old \cup {NoFile}
      BY <2>2 DEF AppendOpen, Content
    <3>2. promised = {} /\ promised' = {}
      BY <1>1, <2>2 DEF DiskInv, Keeps, Exists
    <3>3. Clean(<< >>)' /\ Len(<< >>) = 0
      BY DEF Clean, Good
    <3>4. \A b : Keeps(b)'
      BY <3>2 DEF Keeps
    <3>5. \A b \in old' \cup {file'} : (b # NoFile => Clean(b)') /\ Keeps(b)'
      BY <1>4, <3>1, <3>3, <3>4 DEF DiskInv
    <3>6. Keeps(SubSeq(file, 1, synced))'
      BY <3>2 DEF Keeps
    <3> QED
      BY <3>1, <3>3, <3>5, <3>6 DEF DiskInv
  <2> QED
    BY <2>1, <2>2
<1>8. MemInv'
  <2>1. \A i \in 1 .. Len(mem) : mem[i] \in Record
    BY <1>1 DEF MemInv, Ordered
  <2> QED
    BY <1>1, <1>2, <2>1 DEF MemInv, Record, Bounds
<1>9. AppendInv'
  BY <1>1, <1>2, <1>5, <1>6 DEF AppendInv, Appending, MemInv
<1>10. TailInv' /\ RewriteInv'
  BY <1>1 DEF TailInv, RewriteInv
<1> QED
  BY <1>3, <1>7, <1>8, <1>9, <1>10

\* The rewrite of the file begins: the whole copy has still to be written.
LEMMA OpenTmpSafe ==
  ASSUME Inv, OpenTmp(mem'), caller' \in {"confirm", "load"},
         broken' \in BOOLEAN, promised' \subseteq promised,
         undone \subseteq undone', undone' \subseteq 1 .. next - 1,
         Ordered(mem'), \A i \in 1 .. Len(mem') : mem'[i] < next /\ mem'[i] \notin Gone,
         \A r \in promised' : \E i \in 1 .. Len(mem') : mem'[i] = r,
         caller' = "confirm" /\ ~ broken' => Even(Content)
  PROVE  Inv'
<1> USE DEF Inv
<1>1. /\ tmp' = << >> /\ pc' = "tmpwrite" /\ todo' = Bytes(mem')
      /\ UNCHANGED <<file, synced, old, next, dropped>> /\ Gone' \subseteq Gone
  BY DEF OpenTmp, Gone
<1>2. Bounds'
  BY <1>1 DEF Bounds
<1>3. DiskInv'
  BY <1>1, DiskUntouched DEF Bounds
<1>4. MemInv'
  BY <1>1 DEF MemInv, Ordered
<1>5. TailInv'
  BY <1>1 DEF TailInv, Content, Exists, Even
<1>6. AppendInv'
  BY <1>1 DEF AppendInv, Appending
<1>7. RewriteInv'
  <2>1. Bytes(mem') \in Seq(Record)
    BY CopyFacts
  <2>2. << >> \o Bytes(mem') = Bytes(mem')
    BY <2>1, ConcatEmptySeq
  <2>3. << >> \in Seq(Record)
    OBVIOUS
  <2> QED
    BY <1>1, <2>1, <2>2, <2>3 DEF RewriteInv, Bytes
<1> QED
  BY <1>2, <1>3, <1>4, <1>5, <1>6, <1>7

\* confirm keeps the order of what is left in memory.
LEMMA ConfirmOpenSafe ==
  ASSUME Inv, ConfirmOpen
  PROVE  Inv'
<1> USE DEF Inv
<1>1. PICK k \in 1 .. Len(mem) : mem' = SubSeq(mem, k + 1, Len(mem))
  BY DEF ConfirmOpen
<1>2. /\ pc = "idle" /\ OpenTmp(mem') /\ caller' = "confirm"
      /\ promised' = promised \cap Range(mem') /\ broken' = broken
  BY DEF ConfirmOpen
<1>3. mem \in Seq(Record) /\ Len(mem) \in Nat
  BY <1>2 DEF MemInv, Ordered
<1>4. /\ mem' \in Seq(Record) /\ Len(mem') = Len(mem) - k
      /\ \A i \in 1 .. Len(mem) - k : mem'[i] = mem[i + k]
  BY <1>1, <1>3
<1>5. \A i \in 1 .. Len(mem') : i + k \in 1 .. Len(mem) /\ mem'[i] = mem[i + k]
  BY <1>3, <1>4
<1>6. Ordered(mem')
  BY <1>2, <1>4, <1>5 DEF Ordered, MemInv
<1>7. \A i \in 1 .. Len(mem') : mem'[i] < next /\ mem'[i] \notin Gone
  BY <1>2, <1>5 DEF MemInv
<1>8. \A r \in promised' : \E i \in 1 .. Len(mem') : mem'[i] = r
  BY <1>2, <1>4 DEF Range
<1>9. broken' \in BOOLEAN /\ promised' \subseteq promised
  BY <1>2 DEF Bounds
<1>10. ~ broken' => Even(Content)
  BY <1>2 DEF TailInv
<1>11. undone \subseteq undone' /\ undone' \subseteq 1 .. next - 1
  <2>1. undone' = undone \cup (Range(mem) \ Range(mem'))
    BY DEF ConfirmOpen
  <2>2. \A i \in 1 .. Len(mem) : mem[i] \in 1 .. next - 1
    <3>1. \A i \in 1 .. Len(mem) : mem[i] \in Record /\ mem[i] < next
      BY <1>2, <1>3 DEF MemInv
    <3>2. next \in Int
      BY DEF Bounds
    <3> QED
      BY <3>1, <3>2 DEF Record
  <2>3. Range(mem) \subseteq 1 .. next - 1
    BY <1>3, <2>2 DEF Range
  <2> QED
    BY <2>1, <2>3 DEF Bounds
<1> QED
  BY <1>2, <1>6, <1>7, <1>8, <1>9, <1>10, <1>11, OpenTmpSafe

\* The repeated confirm touches neither the memory nor the disk, and what it
\* says is dropped was removed by a rewrite that failed.
LEMMA ConfirmAgainSafe ==
  ASSUME Inv, ConfirmAgain
  PROVE  Inv'
<1> USE DEF Inv
<1>1. /\ pc = "idle" /\ dropped' = dropped \cup (undone \ Range(mem))
      /\ UNCHANGED <<file, synced, old, tmp, tmpSynced, pc, caller, todo, mem,
                     broken, next, promised, undone>>
  BY DEF ConfirmAgain, diskVars, callVars
<1>2. Gone' = Gone
  BY <1>1 DEF Gone
<1>3. Bounds'
  BY <1>1 DEF Bounds
<1>4. DiskInv'
  BY <1>1, <1>2, DiskUntouched DEF Bounds
<1>5. MemInv'
  BY <1>1, <1>2 DEF MemInv, Ordered
<1>6. TailInv'
  BY <1>1 DEF TailInv, Content, Exists, Even
<1>7. AppendInv' /\ RewriteInv'
  BY <1>1 DEF AppendInv, Appending, RewriteInv
<1> QED
  BY <1>3, <1>4, <1>5, <1>6, <1>7

\* load finds every promised record and nothing that was dropped.
LEMMA LoadSafe ==
  ASSUME Inv, Load
  PROVE  Inv'
<1> USE DEF Inv
<1>1. /\ pc = "down" /\ mem' = Records(Content) /\ ~ broken'
      /\ broken' = FALSE /\ caller' = "load" /\ UNCHANGED <<promised, undone>>
  BY DEF Load
<1>2. /\ Content \in Seq(Record) /\ Good(Content)
      /\ \A i \in 1 .. Len(Content) : Content[i] < next /\ Content[i] \notin Gone
      /\ promised \subseteq Whole(Content)
  <2>1. CASE Exists
    BY <2>1 DEF DiskInv, Clean, Content, Exists, Keeps
  <2>2. CASE ~ Exists
    BY <2>2 DEF DiskInv, Keeps, Content, Exists, Good
  <2> QED
    BY <2>1, <2>2
<1>3. /\ Ordered(mem') /\ Len(mem') = Len(Content) \div 2
      /\ \A k \in 1 .. Len(Content) \div 2 : mem'[k] = Content[2 * k]
  BY <1>1, <1>2, LoadFacts
<1>4. \A k \in 1 .. Len(Content) \div 2 : 2 * k \in 1 .. Len(Content)
  BY <1>2
<1>5. \A i \in 1 .. Len(mem') : mem'[i] < next /\ mem'[i] \notin Gone
  BY <1>2, <1>3, <1>4
<1>6. \A r \in promised' : \E i \in 1 .. Len(mem') : mem'[i] = r
  BY <1>1, <1>2, <1>3 DEF Whole
<1>7. CASE Len(Content) % 2 = 1
  <2>1. OpenTmp(mem')
    BY <1>7 DEF Load
  <2> QED
    BY <1>1, <1>3, <1>5, <1>6, <2>1, OpenTmpSafe DEF Bounds
<1>8. CASE Len(Content) % 2 # 1
  <2>1. /\ pc' = "idle" /\ UNCHANGED <<file, synced, old, next, dropped>>
        /\ Gone' = Gone
    BY <1>1, <1>8 DEF Load, diskVars, Gone
  <2>2. Even(Content)
    BY <1>2, <1>8 DEF Even
  <2>3. Bounds'
    BY <1>1, <2>1 DEF Bounds
  <2>4. DiskInv'
    BY <1>1, <2>1, DiskUntouched DEF Bounds
  <2>5. MemInv'
    BY <1>3, <1>5, <1>6, <2>1 DEF MemInv, Ordered
  <2>6. TailInv'
    BY <2>1, <2>2 DEF TailInv, Even, Content, Exists
  <2> QED
    BY <2>1, <2>3, <2>4, <2>5, <2>6 DEF AppendInv, Appending, RewriteInv
<1> QED
  BY <1>7, <1>8

-----------------------------------------------------------------------------
(* The system calls of appendDurably. *)

\* A half of the new record is written.
LEMMA WriteSafe ==
  ASSUME Inv, Write
  PROVE  Inv'
<1> USE DEF Inv
<1> DEFINE e == next - 1
<1>1. /\ pc = "write" /\ file' = Append(file, Head(todo)) /\ todo' = Tail(todo)
      /\ pc' = IF Len(todo) = 1 THEN "fsync" ELSE "write"
      /\ UNCHANGED <<synced, old, caller, mem, broken, next, promised, dropped, undone>>
      /\ Gone' = Gone
  BY DEF Write, walVars, Gone
<1>2. /\ Appending /\ Exists /\ ~ broken /\ e \in Record /\ e \notin Gone
      /\ \A i \in 1 .. Len(mem) : mem[i] < e
  BY <1>1 DEF AppendInv, Appending
<1>3. /\ file \in Seq(Record) /\ Good(file) /\ synced \in 0 .. Len(file)
      /\ \A i \in 1 .. Len(file) : file[i] < next /\ file[i] \notin Gone
      /\ promised \subseteq Whole(file)
      /\ Keeps(SubSeq(file, 1, synced))
  BY <1>2 DEF DiskInv, Clean, Exists, Keeps
<1>4. /\ \/ todo = <<e, e>> /\ Even(file) /\ \A i \in 1 .. Len(file) : file[i] < e
         \/ todo = <<e>> /\ ~ Even(file) /\ file[Len(file)] = e
      /\ Head(todo) = e
  BY <1>1 DEF AppendInv
<1>5. /\ file' \in Seq(Record) /\ Len(file') = Len(file) + 1
      /\ \A i \in 1 .. Len(file) : file'[i] = file[i]
      /\ file'[Len(file) + 1] = e
      /\ Good(file')
      /\ Even(file') <=> ~ Even(file)
      /\ Whole(file) \subseteq Whole(file')
      /\ \A n \in 0 .. Len(file) : SubSeq(file', 1, n) = SubSeq(file, 1, n)
  BY <1>1, <1>2, <1>3, <1>4, OneMoreHalf
<1>6. Exists'
  BY <1>5, NotNoFile DEF Exists
<1>7. Bounds'
  BY <1>1 DEF Bounds
<1>8. DiskInv'
  <2>1. Clean(file)'
    <3>1. e < next
      BY DEF Bounds
    <3>2. \A i \in 1 .. Len(file') : file'[i] < next /\ file'[i] \notin Gone
      BY <1>2, <1>3, <1>5, <3>1
    <3> QED
      BY <1>1, <1>5, <3>2 DEF Clean
  <2>2. Keeps(file)'
    BY <1>1, <1>3, <1>5, <1>6 DEF Keeps, Exists
  <2>3. \A b \in old' : (b # NoFile => Clean(b)') /\ Keeps(b)'
    BY <1>1 DEF DiskInv, Clean, Keeps
  <2>4. synced' \in 0 .. Len(file') /\ SubSeq(file', 1, synced') = SubSeq(file, 1, synced)
    BY <1>1, <1>3, <1>5
  <2>5. Keeps(SubSeq(file, 1, synced))'
    BY <1>1, <1>3, <2>4 DEF Keeps
  <2>6. \A b \in {file'} : (b # NoFile => Clean(b)') /\ Keeps(b)'
    BY <2>1, <2>2 DEF Clean, Keeps
  <2> QED
    BY <2>3, <2>4, <2>5, <2>6 DEF DiskInv
<1>9. MemInv'
  BY <1>1, <1>2 DEF MemInv, Ordered
<1>10. AppendInv'
  <2>1. CASE todo = <<e, e>> /\ Even(file)
    <3>1. Len(todo) = 2 /\ Tail(todo) = <<e>> /\ pc' = "write"
      BY <1>1, <2>1
    <3> QED
      BY <1>1, <1>2, <1>5, <1>6, <2>1, <3>1 DEF AppendInv, Appending
  <2>2. CASE todo = <<e>> /\ ~ Even(file)
    <3>1. pc' = "fsync" /\ Len(file') > 0
      BY <1>1, <1>3, <1>5, <2>2
    <3> QED
      BY <1>1, <1>2, <1>5, <1>6, <2>2, <3>1 DEF AppendInv, Appending
  <2> QED
    BY <1>4, <2>1, <2>2
<1>11. TailInv' /\ RewriteInv'
  BY <1>1 DEF TailInv, RewriteInv
<1> QED
  BY <1>7, <1>8, <1>9, <1>10, <1>11

\* All that was written is on disk, if the name is.
LEMMA FsyncSafe ==
  ASSUME Inv, Fsync
  PROVE  Inv'
<1> USE DEF Inv
<1>1. /\ pc = "fsync" /\ synced' = Len(file) /\ pc' = "dirsync"
      /\ UNCHANGED <<file, old, caller, mem, broken, next, promised, dropped, undone>>
      /\ Gone' = Gone
  BY DEF Fsync, walVars, Gone
<1>2. caller = "append" /\ Appending /\ Exists
  BY <1>1 DEF AppendInv, Appending
<1>3. file \in Seq(Record) /\ Keeps(file) /\ SubSeq(file, 1, Len(file)) = file
  BY <1>2, SubSeqFull DEF DiskInv, Clean, Exists
<1>4. Bounds'
  BY <1>1 DEF Bounds
<1>5. DiskInv'
  <2>1. \A b \in old' \cup {file'} : (b # NoFile => Clean(b)') /\ Keeps(b)'
    BY <1>1 DEF DiskInv, Clean, Keeps
  <2>2. synced' \in 0 .. Len(file') /\ SubSeq(file', 1, synced') = file
    BY <1>1, <1>3
  <2>3. Keeps(SubSeq(file, 1, synced))'
    BY <1>1, <1>3, <2>2 DEF Keeps
  <2> QED
    BY <2>1, <2>2, <2>3 DEF DiskInv
<1>6. MemInv'
  BY <1>1 DEF MemInv, Ordered
<1>7. AppendInv'
  BY <1>1, <1>2 DEF AppendInv, Appending, Exists, Even
<1>8. TailInv' /\ RewriteInv'
  BY <1>1, <1>2 DEF TailInv, RewriteInv
<1> QED
  BY <1>4, <1>5, <1>6, <1>7, <1>8

-----------------------------------------------------------------------------
(* The system calls of writeAtomically. *)

\* Steps on the temporary file only.
LEMMA TmpSafe ==
  ASSUME Inv, pc = "tmpwrite", pc' \in {"tmpwrite", "rename"}, RewriteInv',
         UNCHANGED <<file, synced, old, caller, mem, broken, next, promised,
                     dropped, undone>>
  PROVE  Inv'
<1> USE DEF Inv
<1>5. Gone' = Gone
  BY DEF Gone
<1>1. Bounds'
  BY DEF Bounds
<1>2. DiskInv'
  BY <1>5, DiskUntouched DEF Bounds
<1>3. MemInv' /\ TailInv'
  BY <1>5 DEF MemInv, Ordered, TailInv, Even, Content, Exists
<1>4. AppendInv'
  BY DEF AppendInv, Appending
<1> QED
  BY <1>1, <1>2, <1>3, <1>4

\* One more half of the copy.
LEMMA TmpWriteSafe ==
  ASSUME Inv, TmpWrite
  PROVE  Inv'
<1> USE DEF Inv
<1>1. /\ pc = "tmpwrite" /\ pc' = pc /\ todo # << >>
      /\ tmp' = Append(tmp, Head(todo)) /\ todo' = Tail(todo)
      /\ UNCHANGED <<file, synced, old, caller, mem, broken, next, promised, dropped, undone>>
      /\ Gone' = Gone
  BY DEF TmpWrite, walVars, Gone
<1>2. /\ tmp \in Seq(Record) /\ todo \in Seq(Record) /\ tmp \o todo = Bytes(mem)
      /\ caller \in {"confirm", "load"}
  BY <1>1 DEF RewriteInv
<1>3. tmp' \in Seq(Record) /\ todo' \in Seq(Record) /\ tmp' \o todo' = tmp \o todo
  <2>1. Head(todo) \in Record /\ Tail(todo) \in Seq(Record)
        /\ todo = <<Head(todo)>> \o Tail(todo)
    BY <1>1, <1>2, HeadTailProperties
  <2>2. tmp' = tmp \o <<Head(todo)>> /\ <<Head(todo)>> \in Seq(Record)
    BY <1>1, <1>2, <2>1, AppendIsConcat
  <2>3. (tmp \o <<Head(todo)>>) \o Tail(todo) = tmp \o (<<Head(todo)>> \o Tail(todo))
    BY <1>2, <2>1, <2>2, ConcatAssociative
  <2> QED
    BY <1>1, <1>2, <2>1, <2>2, <2>3
<1>4. RewriteInv'
  BY <1>1, <1>2, <1>3 DEF RewriteInv, Bytes
<1> QED
  BY <1>1, <1>4, TmpSafe

\* The copy is complete and on disk.
LEMMA TmpSyncSafe ==
  ASSUME Inv, TmpSync
  PROVE  Inv'
<1> USE DEF Inv
<1>1. /\ pc = "tmpwrite" /\ pc' = "rename" /\ todo = << >> /\ tmpSynced' = Len(tmp)
      /\ UNCHANGED <<file, synced, old, tmp, caller, mem, broken, next, promised,
                     dropped, undone>>
  BY DEF TmpSync, walVars
<1>2. /\ tmp \in Seq(Record) /\ tmp \o << >> = Bytes(mem)
      /\ caller \in {"confirm", "load"}
  BY <1>1 DEF RewriteInv
<1>3. tmp = Bytes(mem)
  BY <1>2, ConcatEmptySeq
<1>4. RewriteInv'
  BY <1>1, <1>2, <1>3 DEF RewriteInv, Bytes
<1> QED
  BY <1>1, <1>4, TmpSafe

\* A copy of the memory is as good as what it replaces.
LEMMA CopyClean ==
  ASSUME Inv, pc # "down"
  PROVE  Clean(Bytes(mem)) /\ Keeps(Bytes(mem)) /\ Bytes(mem) # NoFile
<1> USE DEF Inv
<1>1. Ordered(mem)
  BY DEF MemInv
<1>2. /\ Bytes(mem) \in Seq(Record) /\ Good(Bytes(mem))
      /\ Whole(Bytes(mem)) = {mem[i] : i \in 1 .. Len(mem)}
      /\ \A k \in 1 .. Len(Bytes(mem)) :
            Half(k) \in 1 .. Len(mem) /\ Bytes(mem)[k] = mem[Half(k)]
  BY <1>1, CopyFacts
<1>3. Clean(Bytes(mem))
  BY <1>2 DEF Clean, MemInv
<1>4. promised \subseteq Whole(Bytes(mem))
  BY <1>2 DEF MemInv
<1> QED
  BY <1>2, <1>3, <1>4, NotNoFile DEF Keeps

\* What the directory may name is either the old content or the copy.
LEMMA RenameSafe ==
  ASSUME Inv, Rename
  PROVE  Inv'
<1> USE DEF Inv
<1>1. /\ pc = "rename" /\ pc' = "dirsync" /\ file' = tmp /\ synced' = tmpSynced
      /\ old' = Entry
      /\ UNCHANGED <<caller, mem, broken, next, promised, dropped, undone>>
      /\ Gone' = Gone
  BY DEF Rename, walVars, Gone
<1>2. caller \in {"confirm", "load"} /\ file' = Bytes(mem) /\ synced' = Len(file')
  BY <1>1 DEF RewriteInv
<1>3. Clean(Bytes(mem)) /\ Keeps(Bytes(mem)) /\ Bytes(mem) # NoFile
  BY <1>1, CopyClean
<1>4. file' \in Seq(Record) /\ SubSeq(file', 1, Len(file')) = file' /\ Exists'
  BY <1>2, <1>3, SubSeqFull DEF Clean, Exists
<1>5. Bounds'
  BY <1>1 DEF Bounds
<1>6. DiskInv'
  <2>1. \A b \in Entry \cup {Bytes(mem)} : (b # NoFile => Clean(b)) /\ Keeps(b)
    BY <1>3, DiskFacts
  <2>2. \A b \in old' \cup {file'} : (b # NoFile => Clean(b)') /\ Keeps(b)'
    BY <1>1, <1>2, <2>1 DEF Clean, Keeps
  <2>3. synced' \in 0 .. Len(file') /\ SubSeq(file', 1, synced') = file'
    BY <1>2, <1>4
  <2>4. Keeps(SubSeq(file, 1, synced))'
    BY <1>1, <1>2, <1>3, <2>3 DEF Keeps
  <2> QED
    BY <2>2, <2>3, <2>4 DEF DiskInv
<1>7. MemInv'
  BY <1>1 DEF MemInv, Ordered
<1>8. AppendInv' /\ TailInv'
  BY <1>1, <1>2 DEF AppendInv, Appending, TailInv
<1>9. RewriteInv'
  BY <1>1, <1>2 DEF RewriteInv, Bytes
<1> QED
  BY <1>5, <1>6, <1>7, <1>8, <1>9

-----------------------------------------------------------------------------
(* syncParentDirectory, and the return to the caller. *)

\* When only the file of now can be on disk, all depends on that one.
LEMMA OnlyFile ==
  ASSUME old' = {}, file' \in Seq(Record), synced' = Len(file'),
         Clean(file)', promised' \subseteq Whole(file')
  PROVE  DiskInv'
<1>1. SubSeq(file', 1, synced') = file' /\ synced' \in 0 .. Len(file')
  BY SubSeqFull
<1>2. \A b \in {file'} : Clean(b)' /\ Keeps(b)'
  BY NotNoFile DEF Clean, Keeps
<1>3. Keeps(SubSeq(file, 1, synced))'
  BY <1>1, NotNoFile DEF Keeps
<1> QED
  BY <1>1, <1>2, <1>3 DEF DiskInv

\* The append returns: its record is promised from now on.
LEMMA AppendReturns ==
  ASSUME Inv, DirSync, caller = "append"
  PROVE  Inv'
<1> USE DEF Inv
<1> DEFINE e == next - 1
<1>1. /\ pc = "dirsync" /\ pc' = "idle" /\ old' = {}
      /\ mem' = Append(mem, e) /\ promised' = promised \cup {e}
      /\ UNCHANGED <<file, synced, caller, broken, next, dropped, undone>>
      /\ Gone' = Gone
  BY DEF DirSync, Return, Gone
<1>2. /\ Exists /\ ~ broken /\ e \in Record /\ e \notin Gone
      /\ \A i \in 1 .. Len(mem) : mem[i] < e
      /\ Even(file) /\ Len(file) > 0 /\ file[Len(file)] = e
      /\ synced = Len(file)
  BY <1>1 DEF AppendInv, Appending
<1>3. Clean(file) /\ file \in Seq(Record) /\ promised \subseteq Whole(file)
  BY <1>2 DEF DiskInv, Clean, Exists, Keeps
<1>4. e \in Whole(file)
  BY <1>2, <1>3, LastIsWhole
<1>5. Bounds'
  BY <1>1, <1>2 DEF Bounds
<1>6. DiskInv'
  <2>1. Clean(file)'
    BY <1>1, <1>3 DEF Clean
  <2> QED
    BY <1>1, <1>2, <1>3, <1>4, <2>1, OnlyFile
<1>7. MemInv'
  <2>1. mem \in Seq(Record)
    BY <1>1 DEF MemInv, Ordered
  <2>2. /\ mem' \in Seq(Record) /\ Len(mem') = Len(mem) + 1 /\ Len(mem) \in Nat
        /\ mem'[Len(mem) + 1] = e /\ \A i \in 1 .. Len(mem) : mem'[i] = mem[i]
    BY <1>1, <1>2, <2>1
  <2>3. Ordered(mem')
    BY <1>1, <1>2, <2>2 DEF Ordered, MemInv
  <2>4. e < next
    BY DEF Bounds
  <2>5. \A i \in 1 .. Len(mem') : mem'[i] < next /\ mem'[i] \notin Gone
    BY <1>1, <1>2, <2>2, <2>4 DEF MemInv
  <2>6. \A r \in promised' : \E i \in 1 .. Len(mem') : mem'[i] = r
    <3> SUFFICES ASSUME NEW r \in promised'
                 PROVE  \E i \in 1 .. Len(mem') : mem'[i] = r
      OBVIOUS
    <3>1. CASE r = e
      BY <2>2, <3>1
    <3>2. CASE r \in promised
      <4>1. PICK i \in 1 .. Len(mem) : mem[i] = r
        BY <1>1, <3>2 DEF MemInv
      <4>2. i \in 1 .. Len(mem') /\ mem'[i] = r
        BY <2>2, <4>1
      <4> QED
        BY <4>2
    <3> QED
      BY <1>1, <3>1, <3>2
  <2> QED
    BY <1>1, <2>3, <2>5, <2>6 DEF MemInv, Ordered
<1>8. TailInv'
  BY <1>1, <1>2 DEF TailInv, Content, Exists, Even
<1>9. AppendInv' /\ RewriteInv'
  BY <1>1 DEF AppendInv, Appending, RewriteInv
<1> QED
  BY <1>5, <1>6, <1>7, <1>8, <1>9

\* The rewrite returns: the file is what the memory is, and nothing else can
\* come back.
LEMMA RewriteReturns ==
  ASSUME Inv, DirSync, caller # "append"
  PROVE  Inv'
<1> USE DEF Inv
<1>1. /\ pc = "dirsync" /\ pc' = "idle" /\ old' = {}
      /\ \/ /\ dropped' = dropped \cup ((1 .. next - 1) \ Range(mem))
            /\ undone' = undone \cap Range(mem)
         \/ UNCHANGED <<dropped, undone>>
      /\ UNCHANGED <<file, synced, caller, broken, next, mem, promised>>
  BY DEF DirSync, Return
<1>2. file = Bytes(mem) /\ synced = Len(file)
  BY <1>1 DEF RewriteInv
<1>3. Ordered(mem) /\ DOMAIN mem = 1 .. Len(mem)
  BY <1>1 DEF MemInv, Ordered
<1>4. \A i \in 1 .. Len(mem) : mem[i] < next /\ mem[i] \notin Gone'
  BY <1>1, <1>3 DEF MemInv, Range, Gone
<1>5. /\ file \in Seq(Record) /\ Good(file) /\ Even(file)
      /\ Whole(file) = {mem[i] : i \in 1 .. Len(mem)}
      /\ \A k \in 1 .. Len(file) : Half(k) \in 1 .. Len(mem) /\ file[k] = mem[Half(k)]
  BY <1>2, <1>3, CopyFacts
<1>6. promised \subseteq Whole(file)
  BY <1>1, <1>5 DEF MemInv
<1>7. Bounds'
  BY <1>1 DEF Bounds
<1>8. Clean(file)'
  BY <1>1, <1>4, <1>5 DEF Clean
<1>9. DiskInv'
  BY <1>1, <1>2, <1>5, <1>6, <1>8, OnlyFile
<1>10. MemInv'
  BY <1>1, <1>4 DEF MemInv, Ordered
<1>11. TailInv'
  BY <1>1, <1>5, NotNoFile DEF TailInv, Content, Exists, Even
<1>12. AppendInv' /\ RewriteInv'
  BY <1>1 DEF AppendInv, Appending, RewriteInv
<1> QED
  BY <1>7, <1>9, <1>10, <1>11, <1>12

-----------------------------------------------------------------------------
(* Faults. *)

\* A call fails: an append leaves a torn file only to a producer that stops.
LEMMA CallFailsSafe ==
  ASSUME Inv, CallFails
  PROVE  Inv'
<1> USE DEF Inv
<1>1. /\ pc \notin {"down", "idle"}
      /\ pc' = IF caller = "load" THEN "down" ELSE "idle"
      /\ broken' = (broken \/ caller = "append")
      /\ mem' = IF caller = "load" THEN << >> ELSE mem
      /\ UNCHANGED <<file, synced, old, caller, next, promised, dropped, undone>>
      /\ Gone' = Gone
  BY DEF CallFails, Throw, Gone
<1>2. broken' \in BOOLEAN
  BY <1>1
<1>3. CASE caller = "load"
  BY <1>1, <1>2, <1>3, DownSafe
<1>4. CASE caller # "load"
  <2>1. pc' = "idle" /\ mem' = mem
    BY <1>1, <1>4
  <2>2. Bounds'
    BY <1>1, <1>2, <2>1 DEF Bounds
  <2>3. DiskInv'
    BY <1>1, DiskUntouched DEF Bounds
  <2>4. MemInv'
    BY <1>1, <2>1 DEF MemInv, Ordered
  <2>5. TailInv'
    <3>1. SUFFICES ASSUME ~ broken, caller = "confirm"
                   PROVE  Even(Content)
      BY <1>1, <1>4, <2>1 DEF TailInv, Content, Exists, Even, Bounds
    <3>2. CASE pc \in {"tmpwrite", "rename"}
      BY <3>1, <3>2 DEF TailInv
    <3>3. CASE pc = "dirsync"
      <4>1. file = Bytes(mem) /\ Ordered(mem)
        BY <3>1, <3>3 DEF RewriteInv, MemInv
      <4>2. Even(file) /\ file \in Seq(Record)
        BY <4>1, CopyFacts
      <4> QED
        BY <4>2, NotNoFile DEF Content, Exists
    <3> QED
      BY <1>1, <3>1, <3>2, <3>3 DEF Bounds, AppendInv
  <2> QED
    BY <2>1, <2>2, <2>3, <2>4, <2>5 DEF AppendInv, Appending, RewriteInv
<1> QED
  BY <1>3, <1>4

\* The disk comes back with one of the contents it may have.
LEMMA PowerSafe ==
  ASSUME Inv, PowerFailure
  PROVE  Inv'
<1> USE DEF Inv
<1>1. /\ old' = {} /\ pc' = "down"
      /\ UNCHANGED <<caller, broken, next, dropped, undone>> /\ Gone' = Gone
      /\ promised' \subseteq promised
  BY DEF PowerFailure, Gone
<1>2. Bounds'
  BY <1>1 DEF Bounds
<1>3. CASE file' = NoFile /\ promised' = {}
  BY <1>1, <1>2, <1>3
     DEF DiskInv, Keeps, Exists, MemInv, TailInv, AppendInv, Appending, RewriteInv
<1>4. ASSUME NEW b \in Entry, file' = b, promised' = promised,
             synced' = IF b = NoFile THEN 0 ELSE Len(b)
      PROVE  Inv'
  <2>1. (b # NoFile => Clean(b)) /\ Keeps(b)
    BY DiskFacts
  <2>2. CASE b = NoFile
    BY <1>3, <1>4, <2>1, <2>2 DEF Keeps
  <2>3. CASE b # NoFile
    <3>1. b \in Seq(Record) /\ promised' \subseteq Whole(file')
      BY <1>4, <2>1, <2>3 DEF Clean, Keeps
    <3>2. Clean(file)'
      BY <1>1, <1>4, <2>1, <2>3 DEF Clean
    <3>3. DiskInv'
      BY <1>1, <1>4, <2>3, <3>1, <3>2, OnlyFile
    <3> QED
      BY <1>1, <1>2, <3>3 DEF MemInv, TailInv, AppendInv, Appending, RewriteInv
  <2> QED
    BY <2>2, <2>3
<1> QED
  BY <1>3, <1>4 DEF PowerFailure

-----------------------------------------------------------------------------
\* There is no file yet.
LEMMA InitInv == Init => Inv
<1> SUFFICES ASSUME Init
             PROVE  Inv
  OBVIOUS
<1>1. Bounds
  <2>1. /\ next = 1 /\ promised = {} /\ dropped = {} /\ undone = {} /\ pc = "down"
        /\ caller = "load" /\ broken = FALSE
    BY DEF Init
  <2>2. 1 \in 1 .. MaxRecord + 1
    BY PersistenceAssumption
  <2> QED
    BY <2>1, <2>2 DEF Bounds
<1>2. DiskInv
  <2>1. file = NoFile /\ old = {} /\ promised = {}
    BY DEF Init
  <2> QED
    BY <2>1 DEF DiskInv, Keeps, Exists
<1>3. pc = "down" /\ caller = "load"
  BY DEF Init
<1> QED
  BY <1>1, <1>2, <1>3
     DEF Inv, MemInv, TailInv, AppendInv, Appending, RewriteInv

\* Every step keeps the invariant.
LEMMA StepInv == Inv /\ [Next]_vars => Inv'
<1> SUFFICES ASSUME Inv, [Next]_vars
             PROVE  Inv'
  OBVIOUS
<1>1. CASE AppendOpen \/ ConfirmOpen \/ ConfirmAgain \/ Load
  BY <1>1, AppendOpenSafe, ConfirmOpenSafe, ConfirmAgainSafe, LoadSafe
<1>2. CASE Stop \/ Kill
  <2>1. /\ UNCHANGED <<file, synced, old, caller, next, promised, dropped, undone,
                       broken>>
        /\ pc' = "down"
    BY <1>2 DEF Stop, Kill, diskVars
  <2> QED
    BY <2>1, DownSafe DEF Inv, Bounds
<1>3. CASE Call
  BY <1>3, WriteSafe, FsyncSafe, TmpWriteSafe, TmpSyncSafe, RenameSafe,
     AppendReturns, RewriteReturns DEF Call
<1>4. CASE CallFails \/ PowerFailure
  BY <1>4, CallFailsSafe, PowerSafe
<1>5. CASE UNCHANGED vars
  <2>1. UNCHANGED <<file, synced, old, tmp, tmpSynced, pc, caller, todo, mem,
                    broken, next, promised, dropped, undone>> /\ Gone' = Gone
    BY <1>5 DEF vars, diskVars, callVars, walVars, Gone
  <2>2. Bounds' /\ MemInv' /\ TailInv' /\ AppendInv'
    BY <2>1 DEF Inv, Bounds, MemInv, Ordered, TailInv, Content, Exists, Even,
                AppendInv, Appending
  <2>3. DiskInv'
    BY <2>1, DiskUntouched DEF Inv, Bounds
  <2>4. RewriteInv'
    BY <2>1 DEF Inv, RewriteInv, Bytes
  <2> QED
    BY <2>2, <2>3, <2>4 DEF Inv
<1> QED
  BY <1>1, <1>2, <1>3, <1>4, <1>5 DEF Next

\* The inductive invariant.
LEMMA InvAlways == Spec => []Inv
BY InitInv, StepInv, PTL DEF Spec

\* A record whose append returned survives every kill, failing call and power
\* failure until a confirm removes it: appendDurably syncs the file and its
\* directory before it returns, and writeAtomically renames a synced copy.
\* Only a data directory that ensureParentDirectory has created can be gone
\* as a whole.
THEOREM PromisedSurvivesAlways == Spec => []PromisedSurvives
<1>1. Inv => PromisedSurvives
  BY InvImplies
<1> QED
  BY <1>1, InvAlways, PTL

\* A record that a confirm has removed, and returned, does not come back, for
\* the directory is synced behind the rename in writeAtomically; except the
\* records of a confirm whose rewrite failed and which was then repeated.
THEOREM DroppedStaysDroppedAlways == Spec => []DroppedStaysDropped
<1>1. Inv => DroppedStaysDropped
  BY InvImplies
<1> QED
  BY <1>1, InvAlways, PTL

\* Every load accepts what it finds: complete records in order and at most one
\* torn record behind them, since appends stop after one has thrown and load
\* rewrites a torn file before the next.
THEOREM EveryLoadSucceeds == Spec => []AlwaysLoadable
<1>1. Inv => AlwaysLoadable
  BY InvImplies
<1> QED
  BY <1>1, InvAlways, PTL

=============================================================================
