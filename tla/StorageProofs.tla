----------------------------- MODULE StorageProofs -----------------------------
(***************************************************************************)
(* Proofs about the stored form of the vesting contract: locks are read    *)
(* back as they were written, an emptied entry stays empty, and what one   *)
(* reads in storage behaves as VestContract.                               *)
(***************************************************************************)
EXTENDS VestStorage, DataLemmas

-----------------------------------------------------------------------------
\* Entries of 40 bytes, one behind the other

\* The n sequences have 40 bytes each.
Parts(seqs, Values, n) ==
  seqs \in Seq(Seq(Values \X Nat)) /\ Len(seqs) = n /\ \A i \in 1..n : Len(seqs[i]) = 40

\* The bytes of the first i parts.
FirstParts(seqs, i) ==
  [k \in 1..(40 * i) |-> seqs[((k - 1) \div 40) + 1][((k - 1) % 40) + 1]]

\* g is the recursive function in the definition of FlattenSeq.
FlattenStep(seqs, g) ==
  g = [i \in 1..Len(seqs) |-> IF i = 1 THEN seqs[i] ELSE g[i - 1] \o seqs[i]]

\* The parts with their bytes.
LEMMA PartsBytes ==
  ASSUME NEW Values, NEW seqs, NEW n \in Nat, Parts(seqs, Values, n), NEW i \in 1..n
  PROVE  /\ seqs[i] \in Seq(Values \X Nat) /\ Len(seqs[i]) = 40
         /\ \A j \in 1..40 : seqs[i][j] \in Values \X Nat
<1> DEFINE Bytes == Values \X Nat
           b == seqs[i]
<1>1. b \in Seq(Bytes) /\ Len(b) = 40
  BY DEF Parts
<1> HIDE DEF Bytes, b
<1>2. \A j \in 1..40 : b[j] \in Bytes
  BY <1>1, ElementOfSeq
<1> QED BY <1>1, <1>2 DEF Bytes, b

\* The first i parts have 40 * i bytes, of which byte j of a part is where the parts
\* before it end.
LEMMA FirstPartsBytes ==
  ASSUME NEW Values, NEW seqs, NEW n \in Nat, Parts(seqs, Values, n), NEW i \in Nat, i <= n
  PROVE  /\ Entry(FirstParts(seqs, i), Values, 40 * i)
         /\ \A m \in 1..i : Follow(FirstParts(seqs, i), 40 * (m - 1), seqs[m])
<1> DEFINE Bytes == Values \X Nat
           size == 40 * i
           place(k) == ((k - 1) \div 40) + 1
           rest(k) == ((k - 1) % 40) + 1
<1>1. \A k \in 1..size : place(k) \in 1..i /\ rest(k) \in 1..40
  OBVIOUS
<1>2. \A k \in 1..size : place(k) \in 1..n
  BY <1>1
<1>3. \A m \in 1..n : \A j \in 1..40 : seqs[m][j] \in Bytes
  BY PartsBytes
<1>4. size \in Nat
  OBVIOUS
<1>5. FirstParts(seqs, i) = [k \in 1..size |-> seqs[place(k)][rest(k)]]
  BY DEF FirstParts
<1>6. \A m \in 1..i : \A j \in 1..40 :
        LET k == 40 * (m - 1) + j
        IN  k \in 1..size /\ place(k) = m /\ rest(k) = j
  OBVIOUS
<1> HIDE DEF Bytes, size, place, rest
<1>7. \A k \in 1..size : seqs[place(k)][rest(k)] \in Bytes
  BY <1>1, <1>2, <1>3
<1>8. FirstParts(seqs, i) \in Seq(Bytes) /\ Len(FirstParts(seqs, i)) = size
  BY <1>4, <1>5, <1>7
<1>9. \A m \in 1..i : \A j \in 1..40 :
        FirstParts(seqs, i)[40 * (m - 1) + j] = seqs[m][j]
  BY <1>5, <1>6
<1>10. \A m \in 1..i : Len(seqs[m]) = 40
  <2> SUFFICES ASSUME NEW m \in 1..i PROVE Len(seqs[m]) = 40
    OBVIOUS
  <2>1. m \in 1..n
    OBVIOUS
  <2> QED BY <2>1 DEF Parts
<1>11. \A m \in 1..i : Follow(FirstParts(seqs, i), 40 * (m - 1), seqs[m])
  <2> SUFFICES ASSUME NEW m \in 1..i
               PROVE  Follow(FirstParts(seqs, i), 40 * (m - 1), seqs[m])
    OBVIOUS
  <2>1. \A j \in 1..40 : FirstParts(seqs, i)[40 * (m - 1) + j] = seqs[m][j]
    BY <1>9
  <2> QED BY <1>10, <2>1 DEF Follow
<1> QED BY <1>8, <1>11 DEF Entry, Bytes, size

\* One part more.
LEMMA OnePartMore ==
  ASSUME NEW Values, NEW seqs, NEW n \in Nat, Parts(seqs, Values, n), NEW i \in 1..n
  PROVE  FirstParts(seqs, i) = FirstParts(seqs, i - 1) \o seqs[i]
<1> DEFINE Bytes == Values \X Nat
           p == 40 * (i - 1)
           a == FirstParts(seqs, i - 1)
           c == FirstParts(seqs, i)
<1>1. i \in Nat /\ i <= n /\ i - 1 \in Nat /\ i - 1 <= n /\ p \in Nat /\ 40 * i = p + 40
  OBVIOUS
<1>2. a \in Seq(Bytes) /\ Len(a) = p
  <2>1. Entry(a, Values, p)
    BY <1>1, FirstPartsBytes
  <2> QED BY <2>1 DEF Entry
<1>3. c \in Seq(Bytes) /\ Len(c) = p + 40
  <2>1. Entry(c, Values, 40 * i)
    BY <1>1, FirstPartsBytes
  <2> QED BY <1>1, <2>1 DEF Entry
<1>4. seqs[i] \in Seq(Bytes) /\ Len(seqs[i]) = 40
  BY PartsBytes
<1>5. Follow(c, p, seqs[i])
  <2>1. \A m \in 1..i : Follow(c, 40 * (m - 1), seqs[m])
    BY <1>1, FirstPartsBytes
  <2>2. i \in 1..i
    OBVIOUS
  <2> HIDE DEF c
  <2> QED BY <2>1, <2>2
<1>6. \A k \in 1..p : c[k] = a[k]
  <2> SUFFICES ASSUME NEW k \in 1..p PROVE FirstParts(seqs, i)[k] = FirstParts(seqs, i - 1)[k]
    OBVIOUS
  <2>1. k \in 1..(40 * i) /\ k \in 1..(40 * (i - 1))
    OBVIOUS
  <2> QED BY <2>1 DEF FirstParts
<1> DEFINE b == seqs[i]
<1>7. b \in Seq(Bytes) /\ Len(b) = 40 /\ Follow(c, p, b)
  BY <1>4, <1>5
<1> HIDE DEF Bytes, a, b, c, p
<1>8. Joined(c, a, b, Bytes)
  BY <1>1, <1>2, <1>3, <1>6, <1>7 DEF Joined
<1>9. c = a \o b
  BY <1>2, <1>7, <1>8, PutTogether
<1> QED BY <1>9 DEF a, b, c

\* FlattenSeq puts the parts one behind the other: its recursion has a solution, and no
\* other, which the smallest place where two differ would contradict.
LEMMA Flattened ==
  ASSUME NEW Values, NEW seqs, NEW n \in Nat, Parts(seqs, Values, n)
  PROVE  FlattenSeq(seqs) = FirstParts(seqs, n)
<1>0. Len(seqs) = n
  BY DEF Parts
<1>1. CASE n = 0
  <2>1. FlattenSeq(seqs) = seqs
    BY <1>0, <1>1 DEF FlattenSeq
  <2>2. seqs = << >>
    BY <1>0, <1>1 DEF Parts
  <2>3. FirstParts(seqs, n) \in Seq(Values \X Nat) /\ Len(FirstParts(seqs, n)) = 0
    <3>1. Entry(FirstParts(seqs, n), Values, 40 * n)
      BY FirstPartsBytes
    <3> QED BY <1>1, <3>1 DEF Entry
  <2>4. FirstParts(seqs, n) = << >>
    BY <2>3
  <2> QED BY <2>1, <2>2, <2>4
<1>2. CASE n # 0
  <2> DEFINE Part(i) == FirstParts(seqs, i)
             G == [i \in 1..n |-> Part(i)]
             flatten == CHOOSE g : FlattenStep(seqs, g)
  <2>1. Part(1) = seqs[1] /\ \A i \in 1..n : Part(i) = Part(i - 1) \o seqs[i]
    <3>1. \A i \in 1..n : Part(i) = Part(i - 1) \o seqs[i]
      BY OnePartMore
    <3>2. Part(0) = << >>
      <4>1. Entry(Part(0), Values, 40 * 0)
        BY FirstPartsBytes
      <4> HIDE DEF Part
      <4>2. Part(0) \in Seq(Values \X Nat) /\ Len(Part(0)) = 0
        BY <4>1 DEF Entry
      <4> QED BY <4>2
    <3>3. 1 \in 1..n
      BY <1>2
    <3>4. seqs[1] \in Seq(Values \X Nat)
      BY <3>3, PartsBytes
    <3> HIDE DEF Part
    <3>5. ASSUME NEW i \in 1..n, i = 1 PROVE Part(i) = seqs[i]
      <4>1. Part(i) = Part(i - 1) \o seqs[i]
        BY <3>1
      <4>2. i - 1 = 0
        BY <3>5
      <4>3. Part(i) = << >> \o seqs[1]
        BY <3>2, <3>5, <4>1, <4>2, Zenon
      <4>4. << >> \o seqs[1] = seqs[1]
        BY <3>4, ConcatEmptySeq
      <4> QED BY <3>5, <4>3, <4>4, Zenon
    <3>6. Part(1) = seqs[1]
      BY <3>3, <3>5
    <3> QED BY <3>1, <3>6
  <2> HIDE DEF Part
  <2>2. FlattenStep(seqs, G)
    <3>1. \A i \in 1..n : i # 1 => i - 1 \in 1..n /\ G[i - 1] = Part(i - 1)
      OBVIOUS
    <3>2. \A i \in 1..n : Part(i) = IF i = 1 THEN seqs[i] ELSE G[i - 1] \o seqs[i]
      BY <2>1, <3>1
    <3>3. G = [i \in 1..n |-> IF i = 1 THEN seqs[i] ELSE G[i - 1] \o seqs[i]]
      BY <3>2
    <3> QED BY <1>0, <3>3 DEF FlattenStep
  <2> HIDE DEF G
  <2>3. FlattenStep(seqs, flatten)
    BY <2>2
  <2>4. FlattenSeq(seqs) = flatten[n]
    BY <1>0, <1>2 DEF FlattenSeq, FlattenStep
  <2> HIDE DEF flatten
  <2>5. \A i \in 1..n : flatten[i] = IF i = 1 THEN seqs[i] ELSE flatten[i - 1] \o seqs[i]
    BY <1>0, <2>3 DEF FlattenStep
  <2> DEFINE Wrong == {i \in 1..n : flatten[i] # Part(i)}
  <2>6. ASSUME Wrong # {} PROVE FALSE
    <3>1. PICK i \in Wrong : \A j \in Wrong : i <= j
      <4>1. Wrong \subseteq Nat
        OBVIOUS
      <4> HIDE DEF Wrong
      <4> QED BY <2>6, <4>1, LeastNatural
    <3>2. i \in 1..n /\ flatten[i] # Part(i)
      BY <3>1
    <3>3. CASE i = 1
      BY <2>1, <2>5, <3>2, <3>3
    <3>4. CASE i # 1
      <4>1. i - 1 \in 1..n /\ ~(i <= i - 1)
        BY <3>2, <3>4
      <4>2. flatten[i - 1] = Part(i - 1)
        BY <3>1, <4>1
      <4>3. flatten[i] = flatten[i - 1] \o seqs[i] /\ Part(i) = Part(i - 1) \o seqs[i]
        BY <2>1, <2>5, <3>2, <3>4
      <4> QED BY <3>2, <4>2, <4>3
    <3> QED BY <3>3, <3>4
  <2>7. n \in 1..n
    BY <1>2
  <2>8. flatten[n] = Part(n)
    BY <2>6, <2>7
  <2> QED BY <2>4, <2>8 DEF Part
<1> QED BY <1>1, <1>2

\* What FlattenSeq puts together can be taken apart again.
LEMMA FlattenedParts ==
  ASSUME NEW Values, NEW seqs, NEW n \in Nat, Parts(seqs, Values, n)
  PROVE  /\ Entry(FlattenSeq(seqs), Values, 40 * n)
         /\ \A i \in 1..n : Slice(FlattenSeq(seqs), (i - 1) * 40, i * 40) = seqs[i]
<1> DEFINE c == FirstParts(seqs, n)
           Bytes == Values \X Nat
<1>1. Entry(c, Values, 40 * n)
      /\ \A i \in 1..n : Follow(c, 40 * (i - 1), seqs[i])
  <2>1. n <= n
    OBVIOUS
  <2> QED BY <2>1, FirstPartsBytes
<1> HIDE DEF c
<1>2. ASSUME NEW i \in 1..n PROVE Slice(c, (i - 1) * 40, i * 40) = seqs[i]
  <2> DEFINE p == 40 * (i - 1)
             b == seqs[i]
  <2>1. p \in Nat /\ (i - 1) * 40 = p /\ i * 40 = p + 40 /\ p + 40 <= 40 * n
    OBVIOUS
  <2>2. b \in Seq(Bytes) /\ Len(b) = 40
    BY PartsBytes
  <2>3. c \in Seq(Bytes) /\ Len(c) = 40 * n /\ Follow(c, p, b)
    BY <1>1 DEF Entry
  <2> HIDE DEF p, b, Bytes
  <2>4. p + Len(b) <= Len(c)
    BY <2>1, <2>2, <2>3
  <2>5. Slice(c, p, p + Len(b)) = b
    BY <2>1, <2>2, <2>3, <2>4, TakenOut
  <2> QED BY <2>1, <2>2, <2>5 DEF b
<1>3. FlattenSeq(seqs) = c
  BY Flattened DEF c
<1> QED BY <1>1, <1>2, <1>3

-----------------------------------------------------------------------------
\* Locks and their bytes

\* A schedule is 40 bytes, which are read back as that schedule.
LEMMA ScheduleReadsBack ==
  ASSUME NEW Values, Nat \subseteq Values, NEW s \in Vest!LockSchedule
  PROVE  /\ Entry(pack_schedule(s), Values, 40)
         /\ unpack_schedule(pack_schedule(s)) = s
<1> DEFINE first == to_le(s.release, 8)
           src == first \o to_le(s.amount, 32)
<1>1. s.release \in Values /\ s.amount \in Values
      /\ s = [release |-> s.release, amount |-> s.amount]
  BY DEF Vest!LockSchedule
<1>2. Entry(first, Values, 8) /\ Holds(first, 0, s.release, 8)
  BY <1>1, FieldFirst
<1> HIDE DEF first
<1>3. Entry(src, Values, 40) /\ Holds(src, 0, s.release, 8) /\ Holds(src, 8, s.amount, 32)
  <2>1. Extends(src, first, Values, 8, s.amount, 32)
    BY <1>1, <1>2, FieldAppended
  <2> HIDE DEF src
  <2> QED BY <1>2, <2>1 DEF Extends
<1>4. pack_schedule(s) = src
  BY DEF pack_schedule, first
<1> HIDE DEF src
<1>5. Reads(src, 0, 8, s.release) /\ Reads(src, 8, 40, s.amount)
  BY <1>3, FieldRead
<1>6. unpack_schedule(src) = s
  BY <1>1, <1>5 DEF Reads, unpack_schedule
<1> QED BY <1>3, <1>4, <1>6

\* The schedules of a lock lie in their entries one behind the other, in order.
LEMMA SchedulesReadBack ==
  ASSUME NEW Values, Nat \subseteq Values, NEW schedules \in Seq(Vest!LockSchedule)
  PROVE  LET body == FlattenSeq([i \in 1..Len(schedules) |-> pack_schedule(schedules[i])])
         IN  /\ Entry(body, Values, 40 * Len(schedules))
             /\ unpack_all_schedules(body) = schedules
<1> DEFINE n == Len(schedules)
           parts == [i \in 1..n |-> pack_schedule(schedules[i])]
           body == FlattenSeq(parts)
<1>1. n \in Nat /\ \A i \in 1..n : schedules[i] \in Vest!LockSchedule
  BY ElementOfSeq
<1>2. \A i \in 1..n : /\ Entry(pack_schedule(schedules[i]), Values, 40)
                      /\ unpack_schedule(pack_schedule(schedules[i])) = schedules[i]
  BY <1>1, ScheduleReadsBack
<1>3. schedules = [i \in 1..n |-> schedules[i]]
  OBVIOUS
<1> HIDE DEF n
<1>4. Parts(parts, Values, n)
  <2>1. \A i \in 1..n : /\ pack_schedule(schedules[i]) \in Seq(Values \X Nat)
                        /\ Len(pack_schedule(schedules[i])) = 40
    BY <1>2 DEF Entry
  <2> DEFINE Bytes == Values \X Nat
  <2>2. parts \in Seq(Seq(Bytes)) /\ Len(parts) = n
    <3> HIDE DEF Bytes
    <3> SUFFICES \A i \in 1..n : pack_schedule(schedules[i]) \in Seq(Bytes)
      BY <1>1
    <3> QED BY <2>1 DEF Bytes
  <2> QED BY <2>1, <2>2 DEF Parts
<1>5. /\ Entry(body, Values, 40 * n)
      /\ \A i \in 1..n : Slice(body, (i - 1) * 40, i * 40) = parts[i]
  <2> HIDE DEF parts
  <2> QED BY <1>1, <1>4, FlattenedParts
<1>6. \A i \in 1..n : unpack_schedule(Slice(body, (i - 1) * 40, i * 40)) = schedules[i]
  BY <1>2, <1>5
<1> HIDE DEF body
<1>7. Len(body) \div 40 = n
  <2>1. Len(body) = 40 * n
    BY <1>5 DEF Entry
  <2> QED BY <1>1, <2>1
<1>8. unpack_all_schedules(body) = schedules
  BY <1>3, <1>6, <1>7 DEF unpack_all_schedules
<1> QED BY <1>5, <1>8 DEF body, n

\* unpack reads what pack wrote, for every lock.
LEMMA LockReadsBack ==
  ASSUME NEW info \in Vest!VestInfo
  PROVE  /\ pack(info) # clear_entry
         /\ CanUnpack(pack(info))
         /\ unpack_recipient(pack(info)) = info.recipient
         /\ unpack(pack(info)) = info
<1> DEFINE Values == {info.id, info.lock_time, info.recipient, info.token_hash} \cup Nat
           n == Len(info.schedules)
           s1 == to_le(info.id, 8)
           s2 == s1 \o to_le(info.lock_time, 8)
           s3 == s2 \o to_le(info.recipient, 32)
           s4 == s3 \o to_le(info.token_hash, 32)
           body == FlattenSeq([i \in 1..n |-> pack_schedule(info.schedules[i])])
           src == s4 \o body
<1>0. /\ info.id \in Values /\ info.lock_time \in Values /\ info.recipient \in Values
      /\ info.token_hash \in Values /\ Nat \subseteq Values
  OBVIOUS
<1>a. /\ info.schedules \in Seq(Vest!LockSchedule)
      /\ info = [id |-> info.id, lock_time |-> info.lock_time, recipient |-> info.recipient,
                 token_hash |-> info.token_hash, schedules |-> info.schedules]
  BY DEF Vest!VestInfo
<1>b. n \in Nat
  BY <1>a
<1> HIDE DEF Values
<1>1. Entry(s1, Values, 8) /\ Holds(s1, 0, info.id, 8)
  BY <1>0, FieldFirst
<1> HIDE DEF s1
<1>2. /\ Entry(s2, Values, 16)
      /\ Holds(s2, 0, info.id, 8) /\ Holds(s2, 8, info.lock_time, 8)
  <2>1. Extends(s2, s1, Values, 8, info.lock_time, 8)
    BY <1>0, <1>1, FieldAppended
  <2> HIDE DEF s2
  <2> QED BY <1>1, <2>1 DEF Extends
<1> HIDE DEF s2
<1>3. /\ Entry(s3, Values, 48)
      /\ Holds(s3, 0, info.id, 8) /\ Holds(s3, 8, info.lock_time, 8)
      /\ Holds(s3, 16, info.recipient, 32)
  <2>1. Extends(s3, s2, Values, 16, info.recipient, 32)
    BY <1>0, <1>2, FieldAppended
  <2> HIDE DEF s3
  <2> QED BY <1>2, <2>1 DEF Extends
<1> HIDE DEF s3
<1>4. /\ Entry(s4, Values, 80)
      /\ Holds(s4, 0, info.id, 8) /\ Holds(s4, 8, info.lock_time, 8)
      /\ Holds(s4, 16, info.recipient, 32) /\ Holds(s4, 48, info.token_hash, 32)
  <2>1. Extends(s4, s3, Values, 48, info.token_hash, 32)
    BY <1>0, <1>3, FieldAppended
  <2> HIDE DEF s4
  <2> QED BY <1>3, <2>1 DEF Extends
<1>5. Entry(body, Values, 40 * n) /\ unpack_all_schedules(body) = info.schedules
  BY <1>0, <1>a, SchedulesReadBack
<1>6. pack(info) = src
  BY DEF pack, s1, s2, s3, s4
<1> HIDE DEF s4, body, n
<1>7. /\ Entry(src, Values, 80 + 40 * n)
      /\ Slice(src, 80, 80 + 40 * n) = body
      /\ \A from, w \in Nat : \A v :
           from + w <= 80 /\ Holds(s4, from, v, w) => Holds(src, from, v, w)
  <2>1. 40 * n \in Nat
    BY <1>b
  <2> DEFINE q == 40 * n
  <2>2. Entry(body, Values, q) /\ q \in Nat
    BY <1>5, <2>1
  <2> HIDE DEF q
  <2>3. /\ Entry(s4 \o body, Values, 80 + q)
        /\ Slice(s4 \o body, 80, 80 + q) = body
        /\ \A from, w \in Nat : \A v :
             from + w <= 80 /\ Holds(s4, from, v, w) => Holds(s4 \o body, from, v, w)
    BY <1>4, <2>2, EntriesJoined
  <2> QED BY <2>3 DEF q
<1> HIDE DEF src
<1>8. /\ Holds(src, 0, info.id, 8) /\ Holds(src, 8, info.lock_time, 8)
      /\ Holds(src, 16, info.recipient, 32) /\ Holds(src, 48, info.token_hash, 32)
  BY <1>4, <1>7
<1>9. Len(src) = 80 + 40 * n
  BY <1>7 DEF Entry
<1>10. src # clear_entry /\ CanUnpack(src)
  BY <1>b, <1>9 DEF clear_entry, CanUnpack
<1>11. /\ Reads(src, 0, 8, info.id) /\ Reads(src, 8, 16, info.lock_time)
       /\ Reads(src, 16, 48, info.recipient) /\ Reads(src, 48, 80, info.token_hash)
  <2> DEFINE size == 80 + 40 * n
  <2>1. size \in Nat /\ 80 <= size /\ Entry(src, Values, size)
    BY <1>7, <1>b
  <2> HIDE DEF size
  <2>2. Reads(src, 0, 8, info.id) /\ Reads(src, 8, 16, info.lock_time)
    BY <1>8, <2>1, FieldRead
  <2>3. Reads(src, 16, 48, info.recipient) /\ Reads(src, 48, 80, info.token_hash)
    BY <1>8, <2>1, FieldRead
  <2> QED BY <2>2, <2>3
<1>12. /\ from_le(Slice(src, 0, 8), 8) = info.id
       /\ from_le(Slice(src, 8, 16), 8) = info.lock_time
       /\ from_le(Slice(src, 16, 48), 32) = info.recipient
       /\ from_le(Slice(src, 48, 80), 32) = info.token_hash
  BY <1>11 DEF Reads
<1>13. unpack_all_schedules(Slice(src, 80, Len(src))) = info.schedules
  BY <1>5, <1>7, <1>9
<1>14. unpack_recipient(src) = info.recipient
  BY <1>12 DEF unpack_recipient
<1>15. unpack(src) = info
  BY <1>a, <1>12, <1>13, Zenon DEF unpack
<1> QED BY <1>6, <1>10, <1>14, <1>15

-----------------------------------------------------------------------------
\* Item keys

\* Entries are numbered from 0 by the counter, under the contract's own hash; before
\* init has made the dictionary there are none.
EntriesNumbered ==
  /\ has_key("dic_locker_infos") => /\ has_key("self_contract_hash")
                                    /\ has_key("index") /\ keys["index"] \in Nat
  /\ \A k \in DOMAIN dict :
       /\ has_key("dic_locker_infos")
       /\ \E id \in Nat : id < keys["index"] /\ k = make_lock_key_id(id)

\* The names that EntriesNumbered is about stand for what they did.
SameNames(before, after) ==
  \A name \in {"dic_locker_infos", "self_contract_hash", "index"} :
    /\ name \in DOMAIN after <=> name \in DOMAIN before
    /\ name \in DOMAIN before => after[name] = before[name]

\* Storing under another name leaves them alone.
LEMMA OtherNameStored ==
  ASSUME NEW f, NEW value, NEW name \in Accounts \cup {"admin-account", "paused"}
  PROVE  SameNames(f, Put(f, name, value))
<1>1. name \notin {"dic_locker_infos", "self_contract_hash", "index"}
  BY NamesAssumption DEF Names
<1> QED BY <1>1 DEF SameNames, Put

\* An id that joins or leaves the list of an account leaves them alone.
LEMMA IdListStored ==
  ASSUME NEW f, NEW a \in Accounts, NEW id
  PROVE  SameNames(f, PushId(f, a, id)) /\ SameNames(f, RemoveId(f, a, id))
BY OtherNameStored DEF PushId, RemoveId

\* One change after the other.
LEMMA SameNamesTwice ==
  ASSUME NEW f, NEW g, NEW h, SameNames(f, g), SameNames(g, h)
  PROVE  SameNames(f, h)
BY DEF SameNames

-----------------------------------------------------------------------------
\* What a step does to the dictionary

\* A new entry gets a number of its own, one that is there keeps it, and the
\* counter goes up with each new entry.
NewEntry ==
  /\ has_key("dic_locker_infos")
  /\ \E value : dict' = Put(dict, make_lock_key_id(keys["index"]), value)
  /\ \E ks : SameNames(keys, ks) /\ keys' = Put(ks, "index", keys["index"] + 1)

OldEntry ==
  /\ \E id : /\ make_lock_key_id(id) \in DOMAIN dict
             /\ entry(id) # clear_entry
             /\ \E value : dict' = Put(dict, make_lock_key_id(id), value)
  /\ SameNames(keys, keys')

NoEntry == UNCHANGED dict /\ SameNames(keys, keys')

\* There are no other steps but init.
LEMMA EntrySteps ==
  ASSUME [Next]_storageVars
  PROVE  NewEntry \/ OldEntry \/ NoEntry \/ \E h \in PackageHashes : init(h)
<1>1. ASSUME NEW c \in Accounts, NEW t, NEW a, NEW d, NEW g, NEW n, lock(c, t, a, d, g, n)
      PROVE  NewEntry
  BY <1>1, IdListStored DEF lock, NewEntry
<1>2. ASSUME NEW c, NEW id, NEW i, NEW r, extend_lock(c, id, i, r)
      PROVE  OldEntry
  <2>1. SameNames(keys, keys')
    BY <1>2 DEF extend_lock, SameNames
  <2> QED BY <1>2, <2>1 DEF extend_lock, get_lock, is_valid_entry, clear_entry, OldEntry
<1>3. ASSUME NEW c \in Accounts, NEW d \in Accounts, NEW id, transfer_lock(c, id, d)
      PROVE  OldEntry
  <2> DEFINE lock_id == unpack(entry(id)).id
             removed == RemoveId(keys, c, lock_id)
  <2>1. keys' = PushId(removed, d, lock_id)
    BY <1>3 DEF transfer_lock
  <2>2. SameNames(keys, removed) /\ SameNames(removed, PushId(removed, d, lock_id))
    BY IdListStored
  <2> HIDE DEF removed, lock_id
  <2>3. SameNames(keys, keys')
    BY <2>1, <2>2, SameNamesTwice
  <2> QED BY <1>3, <2>3 DEF transfer_lock, get_lock, is_valid_entry, clear_entry, OldEntry
<1>4. ASSUME NEW c \in Accounts, NEW id, claim(c, id)
      PROVE  OldEntry
  <2>1. SameNames(keys, keys')
    <3>1. keys' = keys \/ keys' = RemoveId(keys, c, id)
      BY <1>4 DEF claim
    <3>2. SameNames(keys, keys) /\ SameNames(keys, RemoveId(keys, c, id))
      BY IdListStored DEF SameNames
    <3> QED BY <3>1, <3>2
  <2>2. get_lock(c, id) /\ \E value : dict' = Put(dict, make_lock_key_id(id), value)
    BY <1>4 DEF claim
  <2> QED BY <2>1, <2>2 DEF get_lock, is_valid_entry, clear_entry, OldEntry
<1>5. ASSUME NEW c, NEW a, set_admin(c, a) PROVE NoEntry
  BY <1>5, OtherNameStored DEF set_admin, NoEntry
<1>6. ASSUME NEW c, set_pause_contract(c) PROVE NoEntry
  BY <1>6, OtherNameStored DEF set_pause_contract, NoEntry
<1>7. CASE Tick \/ UNCHANGED storageVars
  BY <1>7 DEF Tick, storageVars, NoEntry, SameNames
<1> QED BY <1>1, <1>2, <1>3, <1>4, <1>5, <1>6, <1>7 DEF Next

\* Steps keep the entries numbered: only lock makes one, and it takes the next number.
LEMMA EntriesNumberedStep ==
  ASSUME EntriesNumbered, [Next]_storageVars
  PROVE  EntriesNumbered'
<1>1. CASE NewEntry
  <2>1. PICK ks : SameNames(keys, ks) /\ keys' = Put(ks, "index", keys["index"] + 1)
    BY <1>1 DEF NewEntry
  <2>2. /\ has_key("dic_locker_infos") /\ has_key("self_contract_hash") /\ has_key("index")
        /\ keys["index"] \in Nat
    BY <1>1 DEF NewEntry, EntriesNumbered
  <2>3. /\ has_key("dic_locker_infos")' /\ has_key("self_contract_hash")' /\ has_key("index")'
        /\ keys'["index"] = keys["index"] + 1
        /\ keys'["self_contract_hash"] = keys["self_contract_hash"]
    BY <2>1, <2>2 DEF SameNames, Put, has_key
  <2>4. \A id : make_lock_key_id(id)' = make_lock_key_id(id)
    BY <2>3 DEF make_lock_key_id
  <2>5. DOMAIN dict' = DOMAIN dict \cup {make_lock_key_id(keys["index"])}
    BY <1>1 DEF NewEntry, Put
  <2>6. ASSUME NEW k \in DOMAIN dict'
        PROVE  \E id \in Nat : id < keys'["index"] /\ k = make_lock_key_id(id)'
    <3>1. CASE k \in DOMAIN dict
      <4>1. PICK id \in Nat : id < keys["index"] /\ k = make_lock_key_id(id)
        BY <3>1 DEF EntriesNumbered
      <4> QED BY <2>2, <2>3, <2>4, <4>1
    <3>2. CASE k = make_lock_key_id(keys["index"])
      BY <2>2, <2>3, <2>4, <3>2
    <3> QED BY <2>5, <3>1, <3>2
  <2> QED BY <2>2, <2>3, <2>6 DEF EntriesNumbered
<1>2. CASE OldEntry \/ NoEntry
  <2>1. SameNames(keys, keys') /\ DOMAIN dict' = DOMAIN dict
    BY <1>2 DEF OldEntry, NoEntry, Put
  <2>2. /\ has_key("dic_locker_infos")' <=> has_key("dic_locker_infos")
        /\ has_key("dic_locker_infos") =>
             /\ has_key("self_contract_hash")' /\ has_key("index")'
             /\ keys'["index"] = keys["index"]
             /\ keys'["self_contract_hash"] = keys["self_contract_hash"]
    BY <2>1 DEF SameNames, has_key, EntriesNumbered
  <2>3. has_key("dic_locker_infos") => \A id : make_lock_key_id(id)' = make_lock_key_id(id)
    BY <2>2 DEF make_lock_key_id
  <2> QED BY <2>1, <2>2, <2>3 DEF EntriesNumbered
<1>3. ASSUME NEW h \in PackageHashes, init(h) PROVE EntriesNumbered'
  <2>1. DOMAIN dict' = {}
    BY <1>3 DEF init, EntriesNumbered
  <2>2. has_key("self_contract_hash")' /\ has_key("index")' /\ keys'["index"] = 0
    BY <1>3 DEF init, Put, has_key
  <2> QED BY <2>1, <2>2 DEF EntriesNumbered
<1> QED BY <1>1, <1>2, <1>3, EntrySteps

\* Under one hash, an entry has one number.
LEMMA NewIsUnused ==
  ASSUME EntriesNumbered
  PROVE  make_lock_key_id(keys["index"]) \notin DOMAIN dict
<1> SUFFICES ASSUME make_lock_key_id(keys["index"]) \in DOMAIN dict PROVE FALSE
  OBVIOUS
<1>1. PICK id \in Nat : /\ id < keys["index"]
                        /\ make_lock_key_id(keys["index"]) = make_lock_key_id(id)
  BY DEF EntriesNumbered
<1>2. id = keys["index"]
  BY <1>1 DEF make_lock_key_id
<1> QED BY <1>1, <1>2

EmptyStaysEmpty == \A k \in DOMAIN dict : dict[k] = clear_entry => dict'[k] = clear_entry

\* An entry that a step writes is new, or was not empty.
LEMMA FinishedStep ==
  ASSUME EntriesNumbered, [Next]_storageVars
  PROVE  EmptyStaysEmpty
<1> SUFFICES ASSUME NEW k \in DOMAIN dict, dict[k] = clear_entry PROVE dict'[k] = dict[k]
  BY DEF EmptyStaysEmpty
<1>1. CASE NewEntry
  <2>1. k # make_lock_key_id(keys["index"])
    BY NewIsUnused
  <2> QED BY <1>1, <2>1 DEF NewEntry, Put
<1>2. CASE OldEntry
  <2>1. PICK id : /\ entry(id) # clear_entry
                  /\ \E value : dict' = Put(dict, make_lock_key_id(id), value)
    BY <1>2 DEF OldEntry
  <2>2. k # make_lock_key_id(id)
    BY <2>1 DEF entry
  <2> QED BY <2>1, <2>2 DEF Put
<1>3. CASE NoEntry
  BY <1>3 DEF NoEntry
<1>4. ASSUME NEW h \in PackageHashes, init(h) PROVE dict'[k] = dict[k]
  BY <1>4 DEF init
<1> QED BY <1>1, <1>2, <1>3, <1>4, EntrySteps

\* FinishedForGood: a lock that was paid out never comes back. Its empty entry is no
\* lock to claim, postpone or hand over, and no later lock is stored under its number,
\* whatever hash the contract was initialised with.
THEOREM FinishedStaysFinished == Spec => FinishedForGood
<1>1. Init => EntriesNumbered
  BY DEF Init, EntriesNumbered, has_key
<1>2. EntriesNumbered /\ [Next]_storageVars => EntriesNumbered'
  BY EntriesNumberedStep
<1>3. EntriesNumbered /\ [Next]_storageVars => EmptyStaysEmpty
  BY FinishedStep
<1>4. FinishedForGood <=> [][EmptyStaysEmpty]_storageVars
  BY DEF FinishedForGood, EmptyStaysEmpty
<1> QED BY <1>1, <1>2, <1>3, <1>4, PTL DEF Spec

-----------------------------------------------------------------------------
\* Schedules stay schedules

\* The schedules that lock makes are schedules, for every number of releases.
LEMMA NewSchedulesType ==
  ASSUME NEW f \in Nat, NEW g \in Nat, NEW n \in Nat \ {0}, NEW c \in Nat
  PROVE  Vest!NewSchedules(f, g, n, c) \in Seq(Vest!LockSchedule)
<1> DEFINE s == Vest!NewSchedules(f, g, n, c)
<1>1. \A i \in 1..n : (f + g * (i - 1)) % U64 \in Nat
  <2> SUFFICES ASSUME NEW i \in 1..n PROVE (f + g * (i - 1)) % U64 \in Nat
    OBVIOUS
  <2> DEFINE x == f + g * (i - 1)
  <2>1. x \in Nat
    OBVIOUS
  <2>2. U64 \in Nat \ {0}
    BY NumberAssumption
  <2> HIDE DEF x
  <2>3. x % U64 \in Nat
    BY <2>1, <2>2
  <2> QED BY <2>3 DEF x
<1>2. c \div n \in Nat
  OBVIOUS
<1>3. \A i \in 1..n : s[i] \in Vest!LockSchedule
  BY <1>1, <1>2 DEF Vest!NewSchedules, Vest!LockSchedule
<1>4. s = [i \in 1..n |-> s[i]]
  BY DEF Vest!NewSchedules
<1> HIDE DEF s
<1>5. s \in Seq(Vest!LockSchedule)
  BY <1>3, <1>4
<1> QED BY <1>5 DEF s

\* So is what a claim leaves of a list of schedules,
LEMMA ClaimedType ==
  ASSUME NEW s \in Seq(Vest!LockSchedule)
  PROVE  Vest!Claimed(s) \in Seq(Vest!LockSchedule)
<1> DEFINE n == Len(s)
           r == Vest!Claimed(s)
<1>1. \A i \in 1..n : s[i] \in Vest!LockSchedule
  OBVIOUS
<1>2. \A i \in 1..n : r[i] \in Vest!LockSchedule
  BY <1>1 DEF Vest!Claimed, Vest!LockSchedule
<1>3. r = [i \in 1..n |-> r[i]] /\ n \in Nat
  BY DEF Vest!Claimed
<1> HIDE DEF n, r
<1>4. r \in Seq(Vest!LockSchedule)
  BY <1>2, <1>3
<1> QED BY <1>4 DEF r

\* and a list with one release time changed.
LEMMA PostponedType ==
  ASSUME NEW s \in Seq(Vest!LockSchedule), NEW i \in 1..Len(s), NEW r \in Nat
  PROVE  [s EXCEPT ![i].release = r] \in Seq(Vest!LockSchedule)
<1> DEFINE e == [s[i] EXCEPT !.release = r]
<1>1. e \in Vest!LockSchedule
  <2>1. s[i] \in Vest!LockSchedule
    OBVIOUS
  <2> QED BY <2>1 DEF Vest!LockSchedule
<1>2. [s EXCEPT ![i].release = r] = [s EXCEPT ![i] = e]
  OBVIOUS
<1> HIDE DEF e
<1> QED BY <1>1, <1>2

-----------------------------------------------------------------------------
\* Entries and the locks they stand for

\* LockInfos, of any dictionary whose items are named with the hash h.
LocksIn(d, h) ==
  [id \in {k[2] : k \in {k \in DOMAIN d : d[k] # clear_entry}} |-> unpack(d[<<h, id>>])]

\* All items are named with h and a number.
Numbered(d, h) == \A k \in DOMAIN d : \E id \in Nat : k = <<h, id>>

\* The numbers of the items that are not empty.
Open(d, h) == {id \in Nat : <<h, id>> \in DOMAIN d /\ d[<<h, id>>] # clear_entry}

\* They are the ids of the locks.
LEMMA LocksAreOpen ==
  ASSUME NEW d, NEW h, Numbered(d, h)
  PROVE  LocksIn(d, h) = [id \in Open(d, h) |-> unpack(d[<<h, id>>])]
<1> DEFINE ids == {k[2] : k \in {k \in DOMAIN d : d[k] # clear_entry}}
<1>1. ASSUME NEW id \in ids PROVE id \in Open(d, h)
  <2>1. PICK k \in DOMAIN d : d[k] # clear_entry /\ id = k[2]
    OBVIOUS
  <2>2. PICK i \in Nat : k = <<h, i>>
    BY DEF Numbered
  <2> QED BY <2>1, <2>2 DEF Open
<1>2. ASSUME NEW id \in Open(d, h) PROVE id \in ids
  <2>1. <<h, id>> \in DOMAIN d /\ d[<<h, id>>] # clear_entry /\ <<h, id>>[2] = id
    BY DEF Open
  <2> QED BY <2>1
<1>3. ids = Open(d, h)
  BY <1>1, <1>2
<1> QED BY <1>3 DEF LocksIn

\* A lock that is stored is read back, and no other lock is touched.
LEMMA LockStored ==
  ASSUME NEW d, NEW h, Numbered(d, h), NEW id \in Nat, NEW info \in Vest!VestInfo
  PROVE  LET e == Put(d, <<h, id>>, pack(info))
         IN  /\ Numbered(e, h)
             /\ LocksIn(e, h) = [i \in DOMAIN LocksIn(d, h) \cup {id} |->
                                   IF i = id THEN info ELSE LocksIn(d, h)[i]]
<1> DEFINE e == Put(d, <<h, id>>, pack(info))
           L == LocksIn(d, h)
           M == LocksIn(e, h)
<1>1. \A i : <<h, i>> = <<h, id>> <=> i = id
  OBVIOUS
<1>2. DOMAIN e = DOMAIN d \cup {<<h, id>>} /\ e[<<h, id>>] = pack(info)
      /\ \A k \in DOMAIN d : k # <<h, id>> => e[k] = d[k]
  BY DEF Put
<1> HIDE DEF e
<1>3. Numbered(e, h)
  BY <1>2 DEF Numbered
<1>4. L = [i \in Open(d, h) |-> unpack(d[<<h, i>>])]
  BY LocksAreOpen
<1>5. M = [i \in Open(e, h) |-> unpack(e[<<h, i>>])]
  BY <1>3, LocksAreOpen
<1>6. pack(info) # clear_entry /\ unpack(pack(info)) = info
  BY LockReadsBack
<1>7. Open(e, h) = Open(d, h) \cup {id}
  BY <1>1, <1>2, <1>6 DEF Open
<1>8. \A i \in Open(d, h) : i # id => e[<<h, i>>] = d[<<h, i>>]
  BY <1>1, <1>2 DEF Open
<1> HIDE DEF L, M
<1>9. DOMAIN L = Open(d, h) /\ \A i \in Open(d, h) : L[i] = unpack(d[<<h, i>>])
  BY <1>4
<1>10. M = [i \in Open(d, h) \cup {id} |-> IF i = id THEN info ELSE L[i]]
  BY <1>2, <1>5, <1>6, <1>7, <1>8, <1>9
<1>11. M = [i \in DOMAIN L \cup {id} |-> IF i = id THEN info ELSE L[i]]
  BY <1>9, <1>10
<1> QED BY <1>3, <1>11 DEF L, M, e

\* An emptied entry is no lock, and no other lock is touched.
LEMMA LockCleared ==
  ASSUME NEW d, NEW h, Numbered(d, h), NEW id \in Nat
  PROVE  LET e == Put(d, <<h, id>>, clear_entry)
         IN  /\ Numbered(e, h)
             /\ LocksIn(e, h) = [i \in DOMAIN LocksIn(d, h) \ {id} |-> LocksIn(d, h)[i]]
<1> DEFINE e == Put(d, <<h, id>>, clear_entry)
           L == LocksIn(d, h)
           M == LocksIn(e, h)
<1>1. \A i : <<h, i>> = <<h, id>> <=> i = id
  OBVIOUS
<1>2. DOMAIN e = DOMAIN d \cup {<<h, id>>} /\ e[<<h, id>>] = clear_entry
      /\ \A k \in DOMAIN d : k # <<h, id>> => e[k] = d[k]
  BY DEF Put
<1> HIDE DEF e
<1>3. Numbered(e, h)
  BY <1>2 DEF Numbered
<1>4. L = [i \in Open(d, h) |-> unpack(d[<<h, i>>])]
  BY LocksAreOpen
<1>5. M = [i \in Open(e, h) |-> unpack(e[<<h, i>>])]
  BY <1>3, LocksAreOpen
<1>7. Open(e, h) = Open(d, h) \ {id}
  BY <1>1, <1>2 DEF Open
<1>8. \A i \in Open(d, h) : i # id => e[<<h, i>>] = d[<<h, i>>]
  BY <1>1, <1>2 DEF Open
<1> HIDE DEF L, M
<1>9. DOMAIN L = Open(d, h) /\ \A i \in Open(d, h) : L[i] = unpack(d[<<h, i>>])
  BY <1>4
<1>10. M = [i \in DOMAIN L \ {id} |-> L[i]]
  BY <1>5, <1>7, <1>8, <1>9
<1> QED BY <1>3, <1>10 DEF L, M, e

-----------------------------------------------------------------------------
\* The id lists

\* IdLists, in any map of named keys.
ListsIn(ks) == [a \in Accounts |-> IF a \in DOMAIN ks THEN ks[a] ELSE << >>]

\* The contract's own names are no accounts, and writing them changes no list.
LEMMA ListsUntouched ==
  ASSUME NEW ks, NEW name \in Names, NEW value
  PROVE  ListsIn(Put(ks, name, value)) = ListsIn(ks)
<1>1. name \notin Accounts
  BY NamesAssumption
<1> QED BY <1>1 DEF ListsIn, Put

\* An id joins one list, which is there afterwards if it was not before.
LEMMA IdPushed ==
  ASSUME NEW ks, NEW a \in Accounts, NEW id
  PROVE  ListsIn(PushId(ks, a, id)) = [ListsIn(ks) EXCEPT ![a] = Append(@, id)]
BY DEF ListsIn, PushId, Put

\* An id leaves a list that is there.
LEMMA IdRemoved ==
  ASSUME NEW ks, NEW a \in Accounts, NEW id, a \in DOMAIN ks
  PROVE  ListsIn(RemoveId(ks, a, id))
           = [ListsIn(ks) EXCEPT ![a] = Vest!SwapRemove(@, Vest!Position(@, id))]
BY DEF ListsIn, RemoveId, Put

\* The contract's own names stand for what they did.
OwnKept(before, after) ==
  \A name \in Names :
    /\ name \in DOMAIN after <=> name \in DOMAIN before
    /\ name \in DOMAIN before => after[name] = before[name]

\* Changes of the lists leave them alone.
LEMMA OwnKeysKept ==
  ASSUME NEW ks, NEW a \in Accounts, NEW id
  PROVE  OwnKept(ks, PushId(ks, a, id)) /\ OwnKept(ks, RemoveId(ks, a, id))
<1>1. a \notin Names
  BY NamesAssumption
<1> QED BY <1>1 DEF OwnKept, PushId, RemoveId, Put

-----------------------------------------------------------------------------
\* What VestContract sees of storage

\* The bytes of a lock, or none.
Stored(value) == value = clear_entry \/ \E info \in Vest!VestInfo : value = pack(info)

\* What storage looks like between deploys: the names that exist, with the dictionary
\* made when `initialized` is set, numbered items, and in each item the bytes of a lock
\* or none.
StorageInv ==
  /\ EntriesNumbered
  /\ now \in Nat
  /\ {"admin-account", "initialized", "paused"} \subseteq DOMAIN keys
  /\ keys["initialized"] = has_key("dic_locker_infos")
  /\ \A k \in DOMAIN dict : Stored(dict[k])

\* The hash under which the contract stores its entries.
Hash == keys["self_contract_hash"]

\* After init, what VestContract sees of storage.
LEMMA StorageSeen ==
  ASSUME StorageInv, has_key("dic_locker_infos")
  PROVE  /\ keys["initialized"] = TRUE
         /\ StoredHash = Hash
         /\ StoredIndex = keys["index"] /\ StoredIndex \in Nat
         /\ LockInfos = LocksIn(dict, Hash)
         /\ IdLists = ListsIn(keys)
         /\ Numbered(dict, Hash)
<1>1. has_key("self_contract_hash") /\ has_key("index") /\ keys["index"] \in Nat
  BY DEF StorageInv, EntriesNumbered
<1>2. LockInfos = LocksIn(dict, Hash)
  BY DEF LockInfos, LocksIn, entry, make_lock_key_id, Hash
<1>3. IdLists = ListsIn(keys)
  BY DEF IdLists, ListsIn, has_key
<1>4. Numbered(dict, Hash)
  BY DEF StorageInv, EntriesNumbered, Numbered, make_lock_key_id, Hash
<1> QED BY <1>1, <1>2, <1>3, <1>4 DEF StorageInv, StoredHash, StoredIndex, Hash

\* The same in the state after a step that leaves the dictionary's name alone.
LEMMA StorageSeenNext ==
  ASSUME has_key("self_contract_hash")', has_key("index")'
  PROVE  /\ StoredHash' = Hash'
         /\ StoredIndex' = keys'["index"]
         /\ LockInfos' = LocksIn(dict', Hash')
         /\ IdLists' = ListsIn(keys')
<1>1. LockInfos' = LocksIn(dict', Hash')
  BY DEF LockInfos, LocksIn, entry, make_lock_key_id, Hash
<1>2. IdLists' = ListsIn(keys')
  BY DEF IdLists, ListsIn, has_key
<1> QED BY <1>1, <1>2 DEF StoredHash, StoredIndex, Hash

\* What get_lock finds is a lock of the caller in VestContract.
LEMMA LockFound ==
  ASSUME StorageInv, NEW c, NEW id \in Nat, get_lock(c, id)
  PROVE  /\ has_key("dic_locker_infos")
         /\ unpack(entry(id)) \in Vest!VestInfo
         /\ id \in DOMAIN LockInfos /\ LockInfos[id] = unpack(entry(id))
         /\ Vest!GetLock(c, id)
<1>1. /\ has_key("dic_locker_infos") /\ <<Hash, id>> \in DOMAIN dict
      /\ entry(id) = dict[<<Hash, id>>] /\ entry(id) # clear_entry
      /\ unpack_recipient(entry(id)) = c /\ id <= keys["index"]
  BY DEF get_lock, is_id_valid, is_valid_entry, clear_entry, make_lock_key_id, entry, Hash
<1>2. PICK info \in Vest!VestInfo : entry(id) = pack(info)
  BY <1>1 DEF StorageInv, Stored
<1>3. unpack(entry(id)) = info /\ info.recipient = c
  BY <1>1, <1>2, LockReadsBack
<1>4. /\ StoredIndex = keys["index"] /\ LockInfos = LocksIn(dict, Hash)
      /\ Numbered(dict, Hash)
  BY <1>1, StorageSeen
<1>5. LocksIn(dict, Hash) = [i \in Open(dict, Hash) |-> unpack(dict[<<Hash, i>>])]
  BY <1>4, LocksAreOpen
<1>6. id \in Open(dict, Hash)
  BY <1>1 DEF Open
<1>7. id \in DOMAIN LockInfos /\ LockInfos[id] = info
  BY <1>1, <1>3, <1>4, <1>5, <1>6
<1> QED BY <1>1, <1>3, <1>4, <1>7 DEF Vest!GetLock

-----------------------------------------------------------------------------
\* Steps

\* What VestContract sees of the contract's own names stays as it is.
OwnSeenSame ==
  UNCHANGED <<keys["initialized"], keys["paused"], keys["admin-account"], StoredHash, StoredIndex>>

\* An operation on a lock that get_lock finds, which leaves the contract's own names alone.
LEMMA OldLockSeen ==
  ASSUME StorageInv, NEW c, NEW id \in Nat, get_lock(c, id), OwnKept(keys, keys')
  PROVE  /\ keys["initialized"] = TRUE
         /\ OwnSeenSame
         /\ Numbered(dict, Hash)
         /\ make_lock_key_id(id) = <<Hash, id>>
         /\ LockInfos = LocksIn(dict, Hash) /\ LockInfos' = LocksIn(dict', Hash)
         /\ IdLists = ListsIn(keys) /\ IdLists' = ListsIn(keys')
<1>1. has_key("dic_locker_infos")
  BY LockFound
<1>2. has_key("self_contract_hash") /\ has_key("index")
  BY <1>1 DEF StorageInv, EntriesNumbered
<1>3. /\ has_key("self_contract_hash")' /\ has_key("index")'
      /\ \A name \in {"admin-account", "initialized", "paused", "self_contract_hash", "index"} :
           keys'[name] = keys[name]
  BY <1>2 DEF StorageInv, OwnKept, Names, has_key
<1>4. /\ keys["initialized"] = TRUE
      /\ StoredHash = Hash /\ StoredIndex = keys["index"]
      /\ LockInfos = LocksIn(dict, Hash) /\ IdLists = ListsIn(keys) /\ Numbered(dict, Hash)
  BY <1>1, StorageSeen
<1>5. /\ StoredHash' = Hash' /\ StoredIndex' = keys'["index"]
      /\ LockInfos' = LocksIn(dict', Hash') /\ IdLists' = ListsIn(keys')
  BY <1>3, StorageSeenNext
<1>6. Hash' = Hash
  BY <1>3 DEF Hash
<1>7. OwnSeenSame
  BY <1>3, <1>4, <1>5, <1>6 DEF OwnSeenSame
<1>8. LockInfos' = LocksIn(dict', Hash)
  BY <1>5, <1>6
<1> QED BY <1>4, <1>5, <1>7, <1>8 DEF make_lock_key_id, Hash

\* A step that rewrites or empties an entry and keeps the contract's own names keeps
\* StorageInv.
LEMMA OldLockKept ==
  ASSUME StorageInv, [Next]_storageVars, now' = now,
         NEW id, NEW value, Stored(value),
         dict' = Put(dict, make_lock_key_id(id), value), OwnKept(keys, keys')
  PROVE  StorageInv'
<1>1. EntriesNumbered'
  BY EntriesNumberedStep DEF StorageInv
<1>2. /\ {"admin-account", "initialized", "paused"} \subseteq DOMAIN keys'
      /\ keys'["initialized"] = has_key("dic_locker_infos")'
  BY DEF StorageInv, OwnKept, Names, has_key
<1>3. \A k \in DOMAIN dict' : Stored(dict'[k])
  BY DEF StorageInv, Put
<1> QED BY <1>1, <1>2, <1>3 DEF StorageInv

\* Both modules mean the same token contracts.
LEMMA SameLedger ==
  ASSUME NEW b, NEW t, NEW p, NEW r, NEW n
  PROVE  /\ Vest!CanPay(b, t, p, n) <=> CanPay(b, t, p, n)
         /\ Vest!TransferFrom(b, t, p, r, n) = TransferFrom(b, t, p, r, n)
         /\ Vest!Transfer(b, t, p, r, n) = Transfer(b, t, p, r, n)
BY DEF Vest!CanPay, CanPay, Vest!TransferFrom, TransferFrom, Vest!Transfer, Transfer

\* A lock that is found and stored again.
LEMMA LockRewritten ==
  ASSUME StorageInv, NEW c, NEW id \in Nat, get_lock(c, id), OwnKept(keys, keys'),
         NEW info \in Vest!VestInfo, dict' = Put(dict, make_lock_key_id(id), pack(info))
  PROVE  LockInfos' = [LockInfos EXCEPT ![id] = info]
<1>1. /\ Numbered(dict, Hash) /\ make_lock_key_id(id) = <<Hash, id>>
      /\ LockInfos = LocksIn(dict, Hash) /\ LockInfos' = LocksIn(dict', Hash)
  BY OldLockSeen
<1>2. dict' = Put(dict, <<Hash, id>>, pack(info))
  BY <1>1
<1>3. LocksIn(Put(dict, <<Hash, id>>, pack(info)), Hash)
        = [k \in DOMAIN LocksIn(dict, Hash) \cup {id} |->
             IF k = id THEN info ELSE LocksIn(dict, Hash)[k]]
  BY <1>1, LockStored
<1>4. LockInfos' = [k \in DOMAIN LockInfos \cup {id} |-> IF k = id THEN info ELSE LockInfos[k]]
  BY <1>1, <1>2, <1>3
<1>5. DOMAIN LockInfos \cup {id} = DOMAIN LockInfos
  BY LockFound
<1>6. LockInfos = [k \in DOMAIN LockInfos |-> LockInfos[k]]
  BY DEF LockInfos
<1>7. [LockInfos EXCEPT ![id] = info]
        = [k \in DOMAIN LockInfos |-> IF k = id THEN info ELSE LockInfos[k]]
  BY <1>6
<1> QED BY <1>4, <1>5, <1>7

\* The lock is stored again with one release postponed.
LEMMA ExtendStep ==
  ASSUME StorageInv, NEW c \in Accounts, NEW id \in Nat, NEW i, NEW r \in NewReleases,
         extend_lock(c, id, i, r), [Next]_storageVars
  PROVE  StorageInv' /\ Vest!Next
<1> DEFINE info == unpack(entry(id))
           more == [info EXCEPT !.schedules[i].release = r]
<1>1. /\ ~keys["paused"] /\ get_lock(c, id)
      /\ i \in 1..Len(info.schedules) /\ info.schedules[i].release <= r
      /\ dict' = Put(dict, make_lock_key_id(id), pack(more))
      /\ UNCHANGED <<now, keys, bal>>
  BY DEF extend_lock
<1>2. OwnKept(keys, keys')
  BY <1>1 DEF OwnKept
<1>3. /\ info \in Vest!VestInfo /\ id \in DOMAIN LockInfos /\ LockInfos[id] = info
      /\ Vest!GetLock(c, id)
  BY <1>1, LockFound
<1> HIDE DEF info
<1>4. more \in Vest!VestInfo
  <2>1. [info.schedules EXCEPT ![i].release = r] \in Seq(Vest!LockSchedule)
    <3>1. info.schedules \in Seq(Vest!LockSchedule) /\ r \in Nat
      BY <1>3, NumberAssumption DEF Vest!VestInfo
    <3> QED BY <1>1, <3>1, PostponedType
  <2> DEFINE rest == [info.schedules EXCEPT ![i].release = r]
  <2>2. more = [info EXCEPT !.schedules = rest]
    BY <1>3 DEF Vest!VestInfo
  <2> HIDE DEF rest, more
  <2>3. rest \in Seq(Vest!LockSchedule)
    BY <2>1 DEF rest
  <2> QED BY <1>3, <2>2, <2>3 DEF Vest!VestInfo
<1>5. StorageInv'
  <2>1. Stored(pack(more))
    BY <1>4 DEF Stored
  <2> QED BY <1>1, <1>2, <2>1, OldLockKept
<1>6. /\ keys["initialized"] = TRUE /\ OwnSeenSame
      /\ IdLists = ListsIn(keys) /\ IdLists' = ListsIn(keys')
  BY <1>1, <1>2, OldLockSeen
<1>7. LockInfos' = [LockInfos EXCEPT ![id] = more]
  <2> HIDE DEF more
  <2> QED BY <1>1, <1>2, <1>4, LockRewritten
<1>8. LockInfos' = [LockInfos EXCEPT ![id].schedules[i].release = r]
  <2>1. [LockInfos EXCEPT ![id].schedules[i].release = r] = [LockInfos EXCEPT ![id] = more]
    BY <1>3
  <2> QED BY <1>7, <2>1
<1>9. IdLists' = IdLists
  BY <1>1, <1>6
<1>10. Vest!ExtendLock(c, id, i, r)
  BY <1>1, <1>3, <1>6, <1>8, <1>9 DEF Vest!ExtendLock, OwnSeenSame
<1>11. i \in 1..Len(LockInfos[id].schedules)
  BY <1>1, <1>3
<1> QED BY <1>3, <1>5, <1>10, <1>11 DEF Vest!Next

\* The id moves from one list to the other, the old owner's first, and the lock gets its
\* new owner.
LEMMA TransferStep ==
  ASSUME StorageInv, NEW c \in Accounts, NEW id \in Nat, NEW d \in Accounts,
         transfer_lock(c, id, d), [Next]_storageVars
  PROVE  StorageInv' /\ Vest!Next
<1> DEFINE info == unpack(entry(id))
           more == [info EXCEPT !.recipient = d]
           removed == RemoveId(keys, c, info.id)
<1>1. /\ ~keys["paused"] /\ get_lock(c, id) /\ CanRemoveId(c, info.id)
      /\ keys' = PushId(removed, d, info.id)
      /\ dict' = Put(dict, make_lock_key_id(id), pack(more))
      /\ UNCHANGED <<now, bal>>
  BY DEF transfer_lock
<1>2. OwnKept(keys, keys')
  <2>1. OwnKept(keys, removed) /\ OwnKept(removed, PushId(removed, d, info.id))
    BY OwnKeysKept
  <2> HIDE DEF removed, info
  <2> QED BY <1>1, <2>1 DEF OwnKept
<1>3. /\ info \in Vest!VestInfo /\ id \in DOMAIN LockInfos /\ LockInfos[id] = info
      /\ Vest!GetLock(c, id)
  BY <1>1, LockFound
<1> HIDE DEF info
<1>4. more \in Vest!VestInfo /\ more.id = info.id
  BY <1>3 DEF Vest!VestInfo
<1>5. StorageInv'
  <2>1. Stored(pack(more))
    BY <1>4 DEF Stored
  <2> QED BY <1>1, <1>2, <2>1, OldLockKept
<1>6. /\ keys["initialized"] = TRUE /\ OwnSeenSame
      /\ IdLists = ListsIn(keys) /\ IdLists' = ListsIn(keys')
  BY <1>1, <1>2, OldLockSeen
<1>7. LockInfos' = [LockInfos EXCEPT ![id] = more]
  <2> HIDE DEF more
  <2> QED BY <1>1, <1>2, <1>4, LockRewritten
<1>8. /\ Vest!Listed(IdLists[c], info.id)
      /\ IdLists' = LET without == [IdLists EXCEPT ![c] =
                                      Vest!SwapRemove(@, Vest!Position(@, info.id))]
                    IN  [without EXCEPT ![d] = Append(@, info.id)]
  <2>1. c \in DOMAIN keys /\ Vest!Listed(keys[c], info.id)
    BY <1>1 DEF CanRemoveId, has_key
  <2>2. Vest!Listed(IdLists[c], info.id)
    BY <1>6, <2>1 DEF ListsIn
  <2>3. ListsIn(removed) = [IdLists EXCEPT ![c] = Vest!SwapRemove(@, Vest!Position(@, info.id))]
    BY <1>6, <2>1, IdRemoved
  <2>4. ListsIn(PushId(removed, d, info.id)) = [ListsIn(removed) EXCEPT ![d] = Append(@, info.id)]
    BY IdPushed
  <2> HIDE DEF removed
  <2> QED BY <1>1, <1>6, <2>2, <2>3, <2>4
<1> HIDE DEF removed
<1>9. Vest!UpdateStorageTransferLock(c, d, id, more)
  <2> HIDE DEF more
  <2> QED BY <1>4, <1>7, <1>8 DEF Vest!UpdateStorageTransferLock
<1>10. Vest!TransferLock(c, id, d)
  BY <1>1, <1>3, <1>6, <1>9 DEF Vest!TransferLock, OwnSeenSame
<1> QED BY <1>3, <1>5, <1>10 DEF Vest!Next

\* A claim stores what is left of the lock, or empties its entry when nothing is.
LEMMA ClaimStep ==
  ASSUME StorageInv, NEW c \in Accounts, NEW id \in Nat, claim(c, id), [Next]_storageVars
  PROVE  StorageInv' /\ Vest!Next
<1> DEFINE info == unpack(entry(id))
           amount == Vest!AmountToTransfer(info.schedules)
           rest == Vest!Claimed(info.schedules)
           more == [info EXCEPT !.schedules = rest]
<1>1. /\ ~keys["paused"] /\ get_lock(c, id)
      /\ amount # 0 /\ CanPay(bal, info.token_hash, Self, amount)
      /\ bal' = Transfer(bal, info.token_hash, Self, c, amount)
      /\ UNCHANGED now
  BY DEF claim
<1>2. \/ /\ ~Vest!AllClaimed(rest)
         /\ dict' = Put(dict, make_lock_key_id(id), pack(more))
         /\ UNCHANGED keys
      \/ /\ Vest!AllClaimed(rest)
         /\ CanRemoveId(c, id)
         /\ dict' = Put(dict, make_lock_key_id(id), clear_entry)
         /\ keys' = RemoveId(keys, c, id)
  BY DEF claim
<1>3. /\ info \in Vest!VestInfo /\ id \in DOMAIN LockInfos /\ LockInfos[id] = info
      /\ Vest!GetLock(c, id)
  BY <1>1, LockFound
<1> HIDE DEF info
<1>4. more \in Vest!VestInfo
  <2>1. rest \in Seq(Vest!LockSchedule)
    BY <1>3, ClaimedType DEF Vest!VestInfo
  <2> HIDE DEF rest
  <2> QED BY <1>3, <2>1 DEF Vest!VestInfo
<1> HIDE DEF rest, amount, more
<1>5. OwnKept(keys, keys')
  <2>1. OwnKept(keys, RemoveId(keys, c, id))
    BY OwnKeysKept
  <2>2. OwnKept(keys, keys)
    BY DEF OwnKept
  <2> QED BY <1>2, <2>1, <2>2
<1>6. StorageInv'
  <2>1. Stored(pack(more)) /\ Stored(clear_entry)
    BY <1>4 DEF Stored
  <2>2. \E value : Stored(value) /\ dict' = Put(dict, make_lock_key_id(id), value)
    BY <1>2, <2>1
  <2> QED BY <1>1, <1>5, <2>2, OldLockKept
<1>7. /\ keys["initialized"] = TRUE /\ OwnSeenSame
      /\ IdLists = ListsIn(keys) /\ IdLists' = ListsIn(keys')
      /\ Numbered(dict, Hash) /\ make_lock_key_id(id) = <<Hash, id>>
      /\ LockInfos = LocksIn(dict, Hash) /\ LockInfos' = LocksIn(dict', Hash)
  BY <1>1, <1>5, OldLockSeen
<1>8. \/ /\ ~Vest!AllClaimed(rest)
         /\ LockInfos' = [LockInfos EXCEPT ![id].schedules = rest]
         /\ UNCHANGED IdLists
      \/ /\ Vest!AllClaimed(rest)
         /\ Vest!Listed(IdLists[c], id)
         /\ LockInfos' = [k \in DOMAIN LockInfos \ {id} |-> LockInfos[k]]
         /\ IdLists' = [IdLists EXCEPT ![c] = Vest!SwapRemove(@, Vest!Position(@, id))]
  <2>1. CASE ~Vest!AllClaimed(rest)
    <3>1. dict' = Put(dict, make_lock_key_id(id), pack(more)) /\ keys' = keys
      BY <1>2, <2>1
    <3>2. LockInfos' = [LockInfos EXCEPT ![id] = more]
      BY <1>1, <1>4, <1>5, <3>1, LockRewritten
    <3>3. LockInfos' = [LockInfos EXCEPT ![id].schedules = rest]
      BY <1>3, <3>2 DEF more
    <3>4. IdLists' = IdLists
      BY <1>7, <3>1
    <3> QED BY <2>1, <3>3, <3>4
  <2>2. CASE Vest!AllClaimed(rest)
    <3>1. /\ CanRemoveId(c, id) /\ dict' = Put(dict, <<Hash, id>>, clear_entry)
          /\ keys' = RemoveId(keys, c, id)
      BY <1>2, <1>7, <2>2
    <3>2. LocksIn(Put(dict, <<Hash, id>>, clear_entry), Hash)
            = [k \in DOMAIN LocksIn(dict, Hash) \ {id} |-> LocksIn(dict, Hash)[k]]
      BY <1>7, LockCleared
    <3>3. LockInfos' = [k \in DOMAIN LockInfos \ {id} |-> LockInfos[k]]
      BY <1>7, <3>1, <3>2
    <3>4. c \in DOMAIN keys /\ Vest!Listed(keys[c], id)
      BY <3>1 DEF CanRemoveId, has_key
    <3>5. Vest!Listed(IdLists[c], id)
      BY <1>7, <3>4 DEF ListsIn
    <3>6. IdLists' = [IdLists EXCEPT ![c] = Vest!SwapRemove(@, Vest!Position(@, id))]
      BY <1>7, <3>1, <3>4, IdRemoved
    <3> QED BY <2>2, <3>3, <3>5, <3>6
  <2> QED BY <2>1, <2>2
<1>9. Vest!Claim(c, id)
  <2>1. /\ LockInfos[id].token_hash = info.token_hash
        /\ Vest!AmountToTransfer(LockInfos[id].schedules) = amount
        /\ Vest!Claimed(LockInfos[id].schedules) = rest
    BY <1>3 DEF amount, rest
  <2>2. /\ Vest!CanPay(bal, info.token_hash, Self, amount)
        /\ bal' = Vest!Transfer(bal, info.token_hash, Self, c, amount)
    BY <1>1, SameLedger
  <2> QED BY <1>1, <1>3, <1>7, <1>8, <2>1, <2>2 DEF Vest!Claim, Vest!CanClaim, OwnSeenSame
<1> QED BY <1>3, <1>6, <1>9 DEF Vest!Next

\* A new lock gets the next number, an entry that is not there yet, and a place in its
\* owner's list.
LEMMA LockStep ==
  ASSUME StorageInv, NEW c \in Accounts, NEW t \in Tokens, NEW a \in CliffAmounts,
         NEW d \in Durations, NEW g \in Gaps, NEW n \in Counts,
         lock(c, t, a, d, g, n), [Next]_storageVars
  PROVE  StorageInv' /\ Vest!Next
<1> DEFINE id == keys["index"]
           schedules == Vest!NewSchedules(now + d, g, n, a)
           info == [id |-> id, lock_time |-> now, recipient |-> c, token_hash |-> t,
                    schedules |-> schedules]
           pushed == PushId(keys, c, id)
<1>1. /\ ~keys["paused"] /\ has_key("dic_locker_infos") /\ id < MaxLocks
      /\ now + d < U64 /\ n # 0 /\ g * (n - 1) < U64
      /\ CanPay(bal, t, c, a)
      /\ bal' = TransferFrom(bal, t, c, Hash, a)
      /\ dict' = Put(dict, <<Hash, id>>, pack(info))
      /\ keys' = Put(pushed, "index", id + 1)
      /\ UNCHANGED now
  BY DEF lock, make_lock_key_id, Hash
<1>2. /\ keys["initialized"] = TRUE
      /\ StoredHash = Hash /\ StoredIndex = id /\ id \in Nat
      /\ LockInfos = LocksIn(dict, Hash) /\ IdLists = ListsIn(keys) /\ Numbered(dict, Hash)
  BY <1>1, StorageSeen
<1>3. has_key("self_contract_hash") /\ has_key("index")
  BY <1>1 DEF StorageInv, EntriesNumbered
<1>4. OwnKept(keys, pushed)
  BY OwnKeysKept
<1> HIDE DEF id
<1>5. info \in Vest!VestInfo
  <2>1. a \in Nat /\ d \in Nat /\ g \in Nat /\ n \in Nat \ {0} /\ now \in Nat
    BY <1>1, NumberAssumption DEF StorageInv
  <2>2. now + d \in Nat
    BY <2>1
  <2> DEFINE f == now + d
  <2>3. f \in Nat
    BY <2>2
  <2> HIDE DEF f
  <2>4. Vest!NewSchedules(f, g, n, a) \in Seq(Vest!LockSchedule)
    BY <2>1, <2>3, NewSchedulesType
  <2>5. schedules \in Seq(Vest!LockSchedule)
    BY <2>4 DEF f
  <2> HIDE DEF schedules
  <2> QED BY <1>2, <2>1, <2>5 DEF Vest!VestInfo
<1> HIDE DEF pushed, info
<1>6. /\ \A name \in Names \ {"index"} : /\ name \in DOMAIN keys' <=> name \in DOMAIN keys
                                         /\ name \in DOMAIN keys => keys'[name] = keys[name]
      /\ has_key("index")' /\ keys'["index"] = id + 1
  BY <1>1, <1>4 DEF OwnKept, Put, has_key
<1>7. StorageInv'
  <2>1. EntriesNumbered'
    BY EntriesNumberedStep DEF StorageInv
  <2>2. /\ {"admin-account", "initialized", "paused"} \subseteq DOMAIN keys'
        /\ keys'["initialized"] = has_key("dic_locker_infos")'
    BY <1>6 DEF StorageInv, Names, has_key
  <2>3. \A k \in DOMAIN dict' : Stored(dict'[k])
    <3>1. Stored(pack(info))
      BY <1>5 DEF Stored
    <3> QED BY <1>1, <3>1 DEF StorageInv, Put
  <2>4. (now \in Nat)'
    BY <1>1 DEF StorageInv
  <2> QED BY <2>1, <2>2, <2>3, <2>4 DEF StorageInv
<1>8. /\ has_key("self_contract_hash")' /\ Hash' = Hash
      /\ keys'["initialized"] = keys["initialized"] /\ keys'["paused"] = keys["paused"]
      /\ keys'["admin-account"] = keys["admin-account"]
  BY <1>3, <1>6 DEF StorageInv, Names, has_key, Hash
<1>9. /\ StoredHash' = StoredHash /\ StoredIndex' = StoredIndex + 1
      /\ LockInfos' = LocksIn(dict', Hash) /\ IdLists' = ListsIn(keys')
  <2>1. /\ StoredHash' = Hash' /\ StoredIndex' = keys'["index"]
        /\ LockInfos' = LocksIn(dict', Hash') /\ IdLists' = ListsIn(keys')
    BY <1>6, <1>8, StorageSeenNext
  <2> QED BY <1>2, <1>6, <1>8, <2>1
<1>10. LockInfos' = [k \in DOMAIN LockInfos \cup {id} |-> IF k = id THEN info ELSE LockInfos[k]]
  <2>1. LocksIn(Put(dict, <<Hash, id>>, pack(info)), Hash)
          = [k \in DOMAIN LocksIn(dict, Hash) \cup {id} |->
               IF k = id THEN info ELSE LocksIn(dict, Hash)[k]]
    BY <1>2, <1>5, LockStored
  <2> QED BY <1>1, <1>2, <1>9, <2>1
<1>11. IdLists' = [IdLists EXCEPT ![c] = Append(@, id)]
  <2>1. ListsIn(pushed) = [ListsIn(keys) EXCEPT ![c] = Append(@, id)]
    BY IdPushed DEF pushed
  <2>2. ListsIn(Put(pushed, "index", id + 1)) = ListsIn(pushed)
    BY ListsUntouched DEF Names
  <2> QED BY <1>1, <1>2, <1>9, <2>1, <2>2
<1>12. Vest!UpdateStorage(c, info)
  <2>1. info.id = id
    BY DEF info
  <2> QED BY <1>10, <1>11, <2>1 DEF Vest!UpdateStorage
<1>13. Vest!Lock(c, t, a, d, g, n)
  <2>1. /\ Vest!CanPay(bal, t, c, a)
        /\ bal' = Vest!TransferFrom(bal, t, c, StoredHash, a)
    BY <1>1, <1>2, SameLedger
  <2>2. Vest!UpdateStorage(c, [id |-> StoredIndex, lock_time |-> now, recipient |-> c,
                               token_hash |-> t,
                               schedules |-> Vest!NewSchedules(now + d, g, n, a)])
    BY <1>2, <1>12 DEF info
  <2> QED BY <1>1, <1>2, <1>8, <1>9, <2>1, <2>2 DEF Vest!Lock
<1> QED BY <1>7, <1>13 DEF Vest!Next

\* init makes the names; there is no entry yet.
LEMMA InitStep ==
  ASSUME StorageInv, NEW h \in PackageHashes, init(h), [Next]_storageVars
  PROVE  StorageInv' /\ Vest!Next
<1>1. /\ ~keys["initialized"] /\ ~has_key("dic_locker_infos")
      /\ keys' = Put(Put(Put(Put(keys, "dic_locker_infos", "uref"), "self_contract_hash", h),
                         "index", 0), "initialized", TRUE)
      /\ UNCHANGED <<now, dict, bal>>
  BY DEF init
<1>2. /\ {"admin-account", "initialized", "paused"} \subseteq DOMAIN keys'
      /\ has_key("dic_locker_infos")' /\ has_key("self_contract_hash")' /\ has_key("index")'
      /\ keys'["initialized"] = TRUE /\ keys'["self_contract_hash"] = h /\ keys'["index"] = 0
      /\ keys'["paused"] = keys["paused"] /\ keys'["admin-account"] = keys["admin-account"]
  BY <1>1 DEF StorageInv, Put, has_key
<1>3. StorageInv'
  <2>1. EntriesNumbered'
    BY EntriesNumberedStep DEF StorageInv
  <2> QED BY <1>1, <1>2, <2>1 DEF StorageInv
<1>4. DOMAIN dict = {} /\ DOMAIN dict' = {}
  BY <1>1 DEF StorageInv, EntriesNumbered
<1>5. LockInfos' = LockInfos
  BY <1>4 DEF LockInfos
<1>6. IdLists' = IdLists
  <2> DEFINE ks1 == Put(keys, "dic_locker_infos", "uref")
             ks2 == Put(ks1, "self_contract_hash", h)
             ks3 == Put(ks2, "index", 0)
             ks4 == Put(ks3, "initialized", TRUE)
  <2>1. /\ ListsIn(ks1) = ListsIn(keys) /\ ListsIn(ks2) = ListsIn(ks1)
        /\ ListsIn(ks3) = ListsIn(ks2) /\ ListsIn(ks4) = ListsIn(ks3)
    <3> HIDE DEF ks1, ks2, ks3
    <3>1. \A ks, name, value : name \in Names => ListsIn(Put(ks, name, value)) = ListsIn(ks)
      BY ListsUntouched
    <3>2. {"dic_locker_infos", "self_contract_hash", "index", "initialized"} \subseteq Names
      BY DEF Names
    <3> QED BY <3>1, <3>2 DEF ks1, ks2, ks3
  <2>2. keys' = ks4
    BY <1>1
  <2> HIDE DEF ks1, ks2, ks3, ks4
  <2>3. ListsIn(keys') = ListsIn(keys)
    BY <2>1, <2>2
  <2> QED BY <2>3 DEF IdLists, ListsIn, has_key
<1>7. StoredHash' = h /\ StoredIndex' = 0
  BY <1>2 DEF StoredHash, StoredIndex
<1>8. Vest!Initialize(h)
  BY <1>1, <1>2, <1>5, <1>6, <1>7 DEF Vest!Initialize
<1> QED BY <1>3, <1>8 DEF Vest!Next

\* set_admin and set_pause_contract write one of the contract's own names; the rest of
\* storage is as it was.
LEMMA NameStep ==
  ASSUME StorageInv, [Next]_storageVars, NEW name \in {"admin-account", "paused"}, NEW value,
         keys' = Put(keys, name, value), UNCHANGED <<now, dict, bal>>
  PROVE  /\ StorageInv'
         /\ UNCHANGED <<keys["initialized"], StoredHash, StoredIndex, LockInfos, IdLists>>
         /\ keys'[name] = value
         /\ \A other \in {"admin-account", "paused"} \ {name} : keys'[other] = keys[other]
<1>1. /\ \A other \in Names \ {name} : /\ other \in DOMAIN keys' <=> other \in DOMAIN keys
                                       /\ other \in DOMAIN keys => keys'[other] = keys[other]
      /\ name \in DOMAIN keys' /\ keys'[name] = value
  BY DEF Put
<1>2. /\ {"admin-account", "initialized", "paused"} \subseteq DOMAIN keys'
      /\ \A other \in {"dic_locker_infos", "self_contract_hash", "index", "initialized"} :
           /\ other \in DOMAIN keys' <=> other \in DOMAIN keys
           /\ other \in DOMAIN keys => keys'[other] = keys[other]
      /\ \A other \in {"admin-account", "paused"} \ {name} : keys'[other] = keys[other]
  BY <1>1 DEF StorageInv, Names
<1>3. StorageInv'
  <2>1. EntriesNumbered'
    BY EntriesNumberedStep DEF StorageInv
  <2> QED BY <1>2, <2>1 DEF StorageInv, has_key
<1>4. UNCHANGED <<keys["initialized"], StoredHash, StoredIndex>>
  BY <1>2 DEF StorageInv, StoredHash, StoredIndex, has_key
<1>5. UNCHANGED IdLists
  <2>1. ListsIn(keys') = ListsIn(keys)
    BY ListsUntouched DEF Names
  <2> QED BY <2>1 DEF IdLists, ListsIn, has_key
<1>6. UNCHANGED LockInfos
  <2>1. CASE DOMAIN dict = {}
    BY <2>1 DEF LockInfos
  <2>2. CASE DOMAIN dict # {}
    <3>1. has_key("self_contract_hash")
      BY <2>2 DEF StorageInv, EntriesNumbered
    <3>2. keys'["self_contract_hash"] = keys["self_contract_hash"]
      BY <1>2, <3>1 DEF has_key
    <3> QED BY <3>2 DEF LockInfos, entry, make_lock_key_id
  <2> QED BY <2>1, <2>2
<1> QED BY <1>1, <1>2, <1>3, <1>4, <1>5, <1>6

\* Every step of storage is a step of VestContract or changes nothing that it sees.
LEMMA StorageStep ==
  ASSUME StorageInv, [Next]_storageVars
  PROVE  StorageInv' /\ [Vest!Next]_(Vest!vars)
<1>1. ASSUME NEW h \in PackageHashes, init(h) PROVE StorageInv' /\ Vest!Next
  BY <1>1, InitStep
<1>2. ASSUME NEW c \in Accounts, NEW t \in Tokens, NEW a \in CliffAmounts, NEW d \in Durations,
             NEW g \in Gaps, NEW n \in Counts, lock(c, t, a, d, g, n)
      PROVE  StorageInv' /\ Vest!Next
  BY <1>2, LockStep
<1>0. 0..MaxLocks \subseteq Nat
  BY NumberAssumption
<1>3. ASSUME NEW c \in Accounts, NEW id \in 0..MaxLocks, NEW i, NEW r \in NewReleases,
             extend_lock(c, id, i, r)
      PROVE  StorageInv' /\ Vest!Next
  BY <1>0, <1>3, ExtendStep
<1>4. ASSUME NEW c \in Accounts, NEW d \in Accounts, NEW id \in 0..MaxLocks,
             transfer_lock(c, id, d)
      PROVE  StorageInv' /\ Vest!Next
  BY <1>0, <1>4, TransferStep
<1>5. ASSUME NEW c \in Accounts, NEW id \in 0..MaxLocks, claim(c, id)
      PROVE  StorageInv' /\ Vest!Next
  BY <1>0, <1>5, ClaimStep
<1>6. ASSUME NEW c \in Accounts, NEW d \in Accounts, set_admin(c, d)
      PROVE  StorageInv' /\ Vest!Next
  <2>1. /\ c = keys["admin-account"] /\ keys' = Put(keys, "admin-account", d)
        /\ UNCHANGED <<now, dict, bal>>
    BY <1>6 DEF set_admin
  <2>2. /\ StorageInv' /\ keys'["admin-account"] = d /\ keys'["paused"] = keys["paused"]
        /\ UNCHANGED <<keys["initialized"], StoredHash, StoredIndex, LockInfos, IdLists>>
    BY <2>1, NameStep
  <2>3. Vest!SetAdmin(c, d)
    BY <2>1, <2>2 DEF Vest!SetAdmin
  <2> QED BY <2>2, <2>3 DEF Vest!Next
<1>7. ASSUME NEW c \in Accounts, set_pause_contract(c)
      PROVE  StorageInv' /\ Vest!Next
  <2>1. /\ c = keys["admin-account"] /\ keys' = Put(keys, "paused", ~keys["paused"])
        /\ UNCHANGED <<now, dict, bal>>
    BY <1>7 DEF set_pause_contract
  <2>2. /\ StorageInv' /\ keys'["paused"] = ~keys["paused"]
        /\ keys'["admin-account"] = keys["admin-account"]
        /\ UNCHANGED <<keys["initialized"], StoredHash, StoredIndex, LockInfos, IdLists>>
    BY <2>1, NameStep
  <2>3. Vest!SetPauseContract(c)
    BY <2>1, <2>2 DEF Vest!SetPauseContract
  <2> QED BY <2>2, <2>3 DEF Vest!Next
<1>8. ASSUME UNCHANGED <<keys, dict>>
      PROVE  /\ UNCHANGED <<keys["initialized"], keys["paused"], keys["admin-account"],
                            StoredHash, StoredIndex, LockInfos, IdLists>>
             /\ (now \in Nat)' => StorageInv'
  <2>1. UNCHANGED <<StoredHash, StoredIndex, LockInfos, IdLists>>
    BY <1>8 DEF StoredHash, StoredIndex, LockInfos, IdLists, entry, make_lock_key_id, has_key
  <2>2. EntriesNumbered'
    BY EntriesNumberedStep DEF StorageInv
  <2> QED BY <1>8, <2>1, <2>2 DEF StorageInv, has_key
<1>9. CASE Tick
  <2>1. /\ now < MaxTime /\ now' = now + 1 /\ (now \in Nat)' /\ UNCHANGED <<keys, dict, bal>>
    BY <1>9 DEF Tick, StorageInv
  <2>2. Vest!Tick
    BY <1>8, <2>1 DEF Vest!Tick
  <2> QED BY <1>8, <2>1, <2>2 DEF Vest!Next
<1>10. CASE UNCHANGED storageVars
  <2>1. UNCHANGED <<now, keys, dict, bal>> /\ (now \in Nat)'
    BY <1>10 DEF storageVars, StorageInv
  <2>2. UNCHANGED Vest!vars
    BY <1>8, <2>1 DEF Vest!vars
  <2> QED BY <1>8, <2>1, <2>2
<1> QED BY <1>1, <1>2, <1>3, <1>4, <1>5, <1>6, <1>7, <1>9, <1>10 DEF Next

\* A deployed contract has neither lists nor entries, nor the names that init makes.
LEMMA StorageBegins ==
  ASSUME Init
  PROVE  StorageInv /\ Vest!Init
<1>1. PICK a \in Accounts :
        keys = [k \in {"admin-account", "initialized", "paused"} |->
                  IF k = "admin-account" THEN a ELSE FALSE]
  BY DEF Init
<1>2. /\ DOMAIN keys = {"admin-account", "initialized", "paused"}
      /\ keys["admin-account"] = a /\ keys["initialized"] = FALSE /\ keys["paused"] = FALSE
      /\ DOMAIN dict = {} /\ now = 0
  BY <1>1 DEF Init
<1>3. StorageInv
  <2>1. has_key("dic_locker_infos") = FALSE
    BY <1>2 DEF has_key
  <2>2. EntriesNumbered
    BY <1>2, <2>1 DEF EntriesNumbered
  <2> QED BY <1>2, <2>1, <2>2 DEF StorageInv
<1>4. StoredHash = NoHash /\ StoredIndex = 0
  BY <1>2 DEF StoredHash, StoredIndex, has_key
<1>5. LockInfos = [id \in {} |-> {}]
  BY <1>2 DEF LockInfos
<1>6. IdLists = [b \in Accounts |-> << >>]
  BY <1>2, NamesAssumption DEF IdLists, has_key, Names
<1>7. bal = [t \in Tokens |-> [h \in Vest!Holders |-> IF h \in Accounts THEN Supply ELSE 0]]
  BY DEF Init, Vest!Holders
<1> QED BY <1>2, <1>3, <1>4, <1>5, <1>6, <1>7 DEF Vest!Init

\* StorageKept: on named keys and bytes the contract does what VestContract does on
\* records and lists. What an operation packs, the next one unpacks, an emptied entry is
\* no lock, no two locks share an entry and no list is lost under another name, whatever
\* is called in whatever order and whatever hash init was given.
THEOREM StorageImplemented == Spec => StorageKept
<1>1. Init => StorageInv /\ Vest!Init
  BY StorageBegins
<1>2. StorageInv /\ [Next]_storageVars => StorageInv' /\ [Vest!Next]_(Vest!vars)
  BY StorageStep
<1> QED BY <1>1, <1>2, PTL DEF Spec, StorageKept, Vest!Spec
=============================================================================
