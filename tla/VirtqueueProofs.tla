--------------------------- MODULE VirtqueueProofs ---------------------------
(***************************************************************************)
(* Proofs about Virtqueue, for rings of any size that divides the wrap of  *)
(* the indices.  A ring is a queue of heads between two indices: what is   *)
(* put in at one end comes out at the other, and since the heads in flight *)
(* differ and are fewer than the slots, nothing is overwritten.            *)
(***************************************************************************)
EXTENDS Virtqueue, DescriptorChainsProofs

(* Division with remainder.                                                *)
IsDivision(a, n, q, r) == q \in Int /\ r \in 0 .. n - 1 /\ a = n * q + r

(* Every integer has a quotient and a remainder, which is the one of %.    *)
LEMMA DivMod ==
  ASSUME NEW a \in Int, NEW n \in Nat \ {0}
  PROVE  \E q, r : IsDivision(a, n, q, r) /\ r = a % n
<1>1. a % n \in 0 .. n - 1 /\ a \div n \in Int
  OBVIOUS
<1>2. PICK q \in Int : q = a \div n
  BY <1>1
<1>3. PICK r \in Int : r = a % n
  BY <1>1
<1>4. n * q + r = a
  BY <1>2, <1>3, SMTT(60)
<1>5. IsDivision(a, n, q, r)
  BY <1>1, <1>3, <1>4 DEF IsDivision
<1> QED
  BY <1>3, <1>5

(* Multiples of n are n apart.                                             *)
LEMMA Multiples ==
  ASSUME NEW a \in Int, NEW b \in Int, NEW n \in Nat, a > b
  PROVE  n * a >= n * b + n
<1>1. a - b - 1 \in Nat
  OBVIOUS
<1>2. n * (a - b - 1) \in Nat
  BY <1>1
<1>3. n * (a - b - 1) = n * a - n * b - n
  OBVIOUS
<1>4. n * a \in Int /\ n * b \in Int
  OBVIOUS
<1> QED
  BY <1>2, <1>3, <1>4

(* The remainder is determined.                                            *)
LEMMA Remainder ==
  ASSUME NEW n \in Nat \ {0}, NEW q \in Int, NEW p \in Int,
         NEW r \in 0 .. n - 1, NEW s \in 0 .. n - 1, n * q + r = n * p + s
  PROVE  r = s
<1>0. n * q \in Int /\ n * p \in Int /\ n \in Nat
  OBVIOUS
<1>1. CASE q > p
  <2>1. n * q >= n * p + n
    BY <1>0, <1>1, Multiples
  <2> QED
    BY <1>0, <2>1
<1>2. CASE p > q
  <2>1. n * p >= n * q + n
    BY <1>0, <1>2, Multiples
  <2> QED
    BY <1>0, <2>1
<1>3. CASE q = p
  BY <1>0, <1>3
<1> QED
  BY <1>1, <1>2, <1>3

(* A ring has a slot for every index, the same one after a wrap: the ring  *)
(* size divides 2^16.                                                      *)
LEMMA SlotWraps ==
  ASSUME NEW x \in Int
  PROVE  Slot(x) \in Desc /\ Slot(x + IndexWrap) = Slot(x)
<1> DEFINE N == NumEntries
<1>1. N \in Nat \ {0} /\ IndexWrap \in Int /\ x + IndexWrap \in Int
  BY NumEntriesAssumption, IndexWrapAssumption
<1>2. PICK w, z : IsDivision(IndexWrap, N, w, z) /\ z = IndexWrap % N
  BY <1>1, DivMod, Zenon
<1>3. PICK q, r : IsDivision(x, N, q, r) /\ r = x % N
  BY <1>1, DivMod, Zenon
<1>4. PICK p, s : IsDivision(x + IndexWrap, N, p, s) /\ s = (x + IndexWrap) % N
  BY <1>1, DivMod, Zenon
<1>5. /\ w \in Int /\ q \in Int /\ p \in Int
      /\ r \in 0 .. N - 1 /\ s \in 0 .. N - 1
  BY ONLY <1>2, <1>3, <1>4 DEF IsDivision
<1>6. x = N * q + r /\ x + IndexWrap = N * p + s
  BY ONLY <1>3, <1>4 DEF IsDivision
<1>7. IndexWrap = N * w
  <2>1. PICK m \in Int : m = N * w
    BY <1>1, <1>5
  <2>2. z = 0
    BY <1>2, IndexWrapAssumption
  <2>3. IndexWrap = m + z
    BY ONLY <1>2, <2>1 DEF IsDivision
  <2> QED
    BY ONLY <2>1, <2>2, <2>3
<1>8. N * (q + w) + r = N * p + s
  <2>1. N * (q + w) = N * q + N * w
    BY ONLY <1>1, <1>5
  <2>2. PICK a \in Int : a = N * q
    BY ONLY <1>1, <1>5
  <2>3. x = a + r /\ N * (q + w) = a + IndexWrap
    BY ONLY <1>6, <1>7, <2>1, <2>2
  <2>4. N * (q + w) + r = x + IndexWrap
    BY ONLY <1>1, <1>5, <2>2, <2>3
  <2> QED
    BY ONLY <1>6, <2>4
<1>9. q + w \in Int
  BY <1>5
<1>10. r = s
  BY ONLY <1>1, <1>5, <1>8, <1>9, Remainder
<1> QED
  BY <1>3, <1>4, <1>5, <1>10, Zenon DEF Slot, Desc

(* Indices less than a ring size apart have different slots.               *)
LEMMA SlotsDiffer ==
  ASSUME NEW x \in Int, NEW y \in Int, x <= y, y < x + NumEntries, Slot(x) = Slot(y)
  PROVE  x = y
<1> DEFINE N == NumEntries
<1>1. N \in Nat \ {0} /\ N \in Nat
  BY NumEntriesAssumption
<1>2. PICK q, r : IsDivision(x, N, q, r) /\ r = x % N
  BY <1>1, DivMod
<1>3. PICK p, s : IsDivision(y, N, p, s) /\ s = y % N
  BY <1>1, DivMod
<1>4. q \in Int /\ p \in Int /\ r \in 0 .. N - 1 /\ r = s
  BY <1>2, <1>3 DEF IsDivision, Slot
<1>5. PICK a \in Int, b \in Int : a = N * q /\ b = N * p
  BY <1>1, <1>4
<1>6. x = a + r /\ y = b + r
  BY ONLY <1>2, <1>3, <1>4, <1>5, Zenon DEF IsDivision
<1>7. CASE q > p
  <2>1. N * q >= N * p + N
    BY <1>1, <1>4, <1>7, Multiples
  <2> QED
    BY <1>1, <1>4, <1>5, <1>6, <2>1, SMTT(60)
<1>8. CASE p > q
  <2>1. N * p >= N * q + N
    BY <1>1, <1>4, <1>8, Multiples
  <2> QED
    BY <1>1, <1>4, <1>5, <1>6, <2>1
<1>9. CASE p = q
  BY <1>5, <1>6, <1>9
<1> QED
  BY <1>4, <1>7, <1>8, <1>9

(* Ring indices without the remainder.                                     *)
LEMMA IndexFacts ==
  ASSUME NEW i \in Index, NEW j \in Index
  PROVE  /\ Plus(i, 1) = IF i = IndexWrap - 1 THEN 0 ELSE i + 1
         /\ Distance(i, j) = IF i <= j THEN j - i ELSE j - i + IndexWrap
         /\ Plus(i, 1) \in Index /\ Distance(i, j) \in 0 .. IndexWrap - 1
<1>1. IndexWrap \in Nat /\ IndexWrap > 0
  BY IndexWrapAssumption, NumEntriesAssumption
<1>2. Plus(i, 1) = IF i = IndexWrap - 1 THEN 0 ELSE i + 1
  BY <1>1 DEF Plus, Index
<1>3. Distance(i, j) = IF i <= j THEN j - i ELSE j - i + IndexWrap
  BY <1>1 DEF Distance, Index
<1> QED
  BY <1>1, <1>2, <1>3 DEF Index

-----------------------------------------------------------------------------
(* Rings as queues *)

(* Between the indices from and to the ring holds the heads S, each once.  *)
Queue(ring, from, to, S) ==
  LET w == Window(ring, from, to) IN ~Repeats(w) /\ Elements(w) = S

(* The entries one by one.                                                 *)
LEMMA QueueEntries ==
  ASSUME NEW ring, NEW from, NEW to, NEW n, n = Distance(from, to), NEW S
  PROVE  Queue(ring, from, to, S) <=>
           /\ \A i, j \in 1 .. n : ring[Slot(from + i - 1)] = ring[Slot(from + j - 1)] => i = j
           /\ S = {ring[Slot(from + i - 1)] : i \in 1 .. n}
<1> DEFINE w == Window(ring, from, to)
<1>1. DOMAIN w = 1 .. n /\ \A i \in 1 .. n : w[i] = ring[Slot(from + i - 1)]
  BY DEF Window
<1> HIDE DEF w
<1>2. ~Repeats(w) <=>
        \A i, j \in 1 .. n : ring[Slot(from + i - 1)] = ring[Slot(from + j - 1)] => i = j
  BY <1>1 DEF Repeats
<1>3. Elements(w) = {ring[Slot(from + i - 1)] : i \in 1 .. n}
  BY <1>1 DEF Elements
<1> QED
  BY <1>2, <1>3 DEF Queue, w

(* While a descriptor is missing from a queue, the ring has a free slot.   *)
LEMMA FreeSlot ==
  ASSUME NEW ring, NEW from \in Index, NEW to \in Index, NEW S,
         Queue(ring, from, to, S), S \subseteq Desc, NEW x \in Desc \ S
  PROVE  Distance(from, to) < NumEntries
<1> DEFINE w == Window(ring, from, to)
<1>1. PICK n \in Nat : n = Distance(from, to)
  BY IndexFacts
<1>2. DOMAIN w = 1 .. n /\ w \in [1 .. n -> S]
  <2>1. DOMAIN w = 1 .. n /\ w = [i \in 1 .. n |-> ring[Slot(from + i - 1)]]
    BY <1>1 DEF Window
  <2>2. Elements(w) = S
    BY DEF Queue
  <2> HIDE DEF w
  <2> QED
    BY <2>1, <2>2, Zenon DEF Elements
<1>3. (\A i, j \in 1 .. n : w[i] = w[j] => i = j) /\ \A t \in S : \E i \in 1 .. n : w[i] = t
  <2>1. ~Repeats(w) /\ Elements(w) = S
    BY DEF Queue
  <2> HIDE DEF w
  <2> QED
    BY <1>2, <2>1 DEF Repeats, Elements
<1> HIDE DEF w
<1>4. ExistsBijection(1 .. n, S)
  <2>1. w \in Bijection(1 .. n, S)
    BY <1>2, <1>3, Fun_IsBij
  <2> QED
    BY <2>1 DEF ExistsBijection
<1>5. IsFiniteSet(1 .. n) /\ Cardinality(1 .. n) = n
  <2>1. 1 \in Int /\ n \in Int /\ (IF 1 > n THEN 0 ELSE n - 1 + 1) = n
    BY SMTT(60)
  <2> QED
    BY <2>1, FS_Interval
<1>6. Cardinality(S) = n
  BY <1>4, <1>5, FS_Bijection
<1>7. IsFiniteSet(Desc) /\ Cardinality(Desc) = NumEntries
  <2>1. 0 \in Int /\ NumEntries - 1 \in Int
        /\ (IF 0 > NumEntries - 1 THEN 0 ELSE NumEntries - 1 - 0 + 1) = NumEntries
    BY NumEntriesAssumption
  <2>2. /\ IsFiniteSet(0 .. NumEntries - 1)
        /\ Cardinality(0 .. NumEntries - 1)
             = IF 0 > NumEntries - 1 THEN 0 ELSE NumEntries - 1 - 0 + 1
    BY ONLY <2>1, FS_Interval
  <2> QED
    BY <2>1, <2>2 DEF Desc
<1>8. IsFiniteSet(Desc \ {x}) /\ Cardinality(Desc \ {x}) = NumEntries - 1
  BY <1>7, FS_RemoveElement
<1>9. S \subseteq Desc \ {x}
  OBVIOUS
<1>10. Cardinality(S) <= NumEntries - 1
  BY <1>8, <1>9, FS_Subset
<1> QED
  BY <1>1, <1>6, <1>10, NumEntriesAssumption

(* An entry is added behind the others, in a slot that none of them uses.  *)
LEMMA Enqueue ==
  ASSUME NEW ring, DOMAIN ring = Desc, NEW from \in Index, NEW to \in Index, NEW S,
         Queue(ring, from, to, S), S \subseteq Desc, NEW x \in Desc \ S,
         NEW then, then = [ring EXCEPT ![Slot(to)] = x],
         NEW T, T = S \cup {x}
  PROVE  /\ Queue(then, from, Plus(to, 1), T)
         /\ Distance(from, Plus(to, 1)) = Distance(from, to) + 1
<1>1. PICK n \in Nat : n = Distance(from, to)
  BY IndexFacts
<1>2. n < NumEntries
  BY <1>1, FreeSlot
<1>3. from \in Int /\ to \in Int /\ IndexWrap \in Int /\ NumEntries \in Nat
  BY IndexWrapAssumption, NumEntriesAssumption DEF Index
<1>4. Distance(from, Plus(to, 1)) = n + 1
  <2>1. Plus(to, 1) \in Index
    BY IndexFacts
  <2>2. /\ Plus(to, 1) = IF to = IndexWrap - 1 THEN 0 ELSE to + 1
        /\ Distance(from, Plus(to, 1))
             = IF from <= Plus(to, 1) THEN Plus(to, 1) - from ELSE Plus(to, 1) - from + IndexWrap
        /\ n = IF from <= to THEN to - from ELSE to - from + IndexWrap
    BY <1>1, <2>1, IndexFacts
  <2> QED
    BY <1>2, <1>3, <2>2, IndexWrapAssumption DEF Index
<1>5. Slot(from + n) = Slot(to) /\ Slot(to) \in Desc
  <2>0. n = IF from <= to THEN to - from ELSE to - from + IndexWrap
    BY <1>1, IndexFacts
  <2>1. from + n = to \/ from + n = to + IndexWrap
    BY <1>3, <2>0
  <2> QED
    BY <1>3, <2>1, SlotWraps
<1>6. ASSUME NEW i \in 1 .. n PROVE Slot(from + i - 1) # Slot(to)
  <2>1. from + i - 1 \in Int /\ from + n \in Int /\ from + i - 1 <= from + n
        /\ from + n < (from + i - 1) + NumEntries /\ from + i - 1 # from + n
    BY <1>2, <1>3
  <2> QED
    BY <1>5, <2>1, SlotsDiffer
<1>7. \A i \in 1 .. n : then[Slot(from + i - 1)] = ring[Slot(from + i - 1)]
  BY <1>6
<1>8. then[Slot(from + (n + 1) - 1)] = x
  <2>1. from + (n + 1) - 1 = from + n
    BY <1>3
  <2> QED
    BY <1>5, <2>1
<1>9. /\ \A i, j \in 1 .. n : ring[Slot(from + i - 1)] = ring[Slot(from + j - 1)] => i = j
      /\ S = {ring[Slot(from + i - 1)] : i \in 1 .. n}
  BY ONLY <1>1, Queue(ring, from, to, S), QueueEntries, SMTT(60)
<1>10. \A i \in 1 .. n + 1 : i \in 1 .. n \/ i = n + 1
  OBVIOUS
<1>11. \A i, j \in 1 .. n + 1 : then[Slot(from + i - 1)] = then[Slot(from + j - 1)] => i = j
  <2> DEFINE e(i) == then[Slot(from + i - 1)]
  <2>1. \A i, j \in 1 .. n : e(i) = e(j) => i = j
    BY <1>7, <1>9
  <2>2. \A i \in 1 .. n : e(i) # x
    BY <1>7, <1>9
  <2>3. e(n + 1) = x
    BY <1>8
  <2> HIDE DEF e
  <2>4. \A i, j \in 1 .. n + 1 : e(i) = e(j) => i = j
    BY <1>10, <2>1, <2>2, <2>3, SMTT(60)
  <2> QED
    BY <2>4 DEF e
<1>12. T = {then[Slot(from + i - 1)] : i \in 1 .. n + 1}
  <2> DEFINE e(i) == then[Slot(from + i - 1)]
  <2>1. S = {e(i) : i \in 1 .. n}
    BY <1>7, <1>9, SMTT(60)
  <2>2. e(n + 1) = x
    BY <1>8
  <2> HIDE DEF e
  <2>3. T = {e(i) : i \in 1 .. n + 1}
    BY <1>10, <2>1, <2>2, SMTT(60)
  <2> QED
    BY <2>3 DEF e
<1>13. Queue(then, from, Plus(to, 1), T)
  <2>1. n + 1 = Distance(from, Plus(to, 1))
    BY <1>4
  <2> QED
    BY ONLY <1>11, <1>12, <2>1, QueueEntries, SMTT(60)
<1> QED
  BY <1>1, <1>4, <1>13

(* A step towards an index.                                                *)
LEMMA Advance ==
  ASSUME NEW from \in Index, NEW to \in Index, from # to
  PROVE  Distance(from, to) = Distance(Plus(from, 1), to) + 1
<1>1. Plus(from, 1) \in Index
  BY IndexFacts
<1>2. from \in Int /\ to \in Int /\ IndexWrap \in Int
  BY IndexWrapAssumption DEF Index
<1>3. Plus(from, 1) = IF from = IndexWrap - 1 THEN 0 ELSE from + 1
  BY IndexFacts
<1>4. /\ Distance(Plus(from, 1), to)
           = IF Plus(from, 1) <= to THEN to - Plus(from, 1) ELSE to - Plus(from, 1) + IndexWrap
      /\ Distance(from, to) = IF from <= to THEN to - from ELSE to - from + IndexWrap
  BY <1>1, IndexFacts, Zenon
<1> QED
  BY <1>2, <1>3, <1>4, SMTT(60) DEF Index

(* The oldest entry is taken.                                              *)
LEMMA Dequeue ==
  ASSUME NEW ring, NEW from \in Index, NEW to \in Index, NEW S, Queue(ring, from, to, S),
         from # to, NEW x, x = ring[Slot(from)], NEW T, T = S \ {x}
  PROVE  /\ x \in S
         /\ Queue(ring, Plus(from, 1), to, T)
<1>0. Plus(from, 1) \in Index
  BY IndexFacts
<1>1. PICK n \in Nat : n = Distance(Plus(from, 1), to)
  BY <1>0, IndexFacts, SMTT(60)
<1>2. from \in Int /\ IndexWrap \in Int
  BY IndexWrapAssumption DEF Index
<1>3. Plus(from, 1) = IF from = IndexWrap - 1 THEN 0 ELSE from + 1
  BY IndexFacts
<1>4. Distance(from, to) = n + 1
  BY <1>1, Advance
<1>5. ASSUME NEW i \in 1 .. n PROVE Slot(Plus(from, 1) + i - 1) = Slot(from + (i + 1) - 1)
  <2>1. PICK y \in Int : y = Plus(from, 1) + i - 1
    BY <1>2, <1>3
  <2>2. from + (i + 1) - 1 = y \/ from + (i + 1) - 1 = y + IndexWrap
    BY <1>2, <1>3, <2>1
  <2> QED
    BY <2>1, <2>2, SlotWraps
<1> DEFINE e(i) == ring[Slot(from + i - 1)]
<1>6. \A i \in 1 .. n : ring[Slot(Plus(from, 1) + i - 1)] = e(i + 1)
  BY <1>5
<1>7. x = e(1)
  <2>1. from + 1 - 1 = from
    BY <1>2
  <2> QED
    BY <2>1
<1>8. (\A i, j \in 1 .. n + 1 : e(i) = e(j) => i = j) /\ S = {e(i) : i \in 1 .. n + 1}
  <2>1. PICK m \in Nat : m = Distance(from, to)
    BY <1>4
  <2>2. /\ \A i, j \in 1 .. m : ring[Slot(from + i - 1)] = ring[Slot(from + j - 1)] => i = j
        /\ S = {ring[Slot(from + i - 1)] : i \in 1 .. m}
    BY ONLY Queue(ring, from, to, S), <2>1, QueueEntries, SMTT(60)
  <2>3. m = n + 1
    BY <1>4, <2>1
  <2> QED
    BY <2>2, <2>3, SMTT(60)
<1> HIDE DEF e
<1>9. 1 \in 1 .. n + 1 /\ \A i \in 1 .. n : i + 1 \in 1 .. n + 1
  OBVIOUS
<1>10. x \in S
  BY <1>7, <1>8, <1>9, SMTT(60)
<1>11. \A i, j \in 1 .. n :
         ring[Slot(Plus(from, 1) + i - 1)] = ring[Slot(Plus(from, 1) + j - 1)] => i = j
  <2> SUFFICES ASSUME NEW i \in 1 .. n, NEW j \in 1 .. n, e(i + 1) = e(j + 1) PROVE i = j
    BY <1>6
  <2>1. i + 1 = j + 1
    BY <1>8, <1>9
  <2> QED
    BY <2>1
<1>12. T = {ring[Slot(Plus(from, 1) + i - 1)] : i \in 1 .. n}
  <2>1. {ring[Slot(Plus(from, 1) + i - 1)] : i \in 1 .. n} = {e(i + 1) : i \in 1 .. n}
    BY <1>6
  <2>2. ASSUME NEW i \in 1 .. n PROVE e(i + 1) \in T
    <3>1. e(i + 1) \in S /\ i + 1 # 1
      BY <1>8, <1>9
    <3> QED
      BY <1>7, <1>8, <1>9, <3>1, SMTT(60)
  <2>3. ASSUME NEW t \in T PROVE \E i \in 1 .. n : t = e(i + 1)
    <3>1. PICK k \in 1 .. n + 1 : t = e(k)
      BY <1>8
    <3>2. k # 1
      BY <1>7, <3>1
    <3>3. k - 1 \in 1 .. n /\ (k - 1) + 1 = k
      BY <3>2
    <3> QED
      BY <3>1, <3>3
  <2>4. T = {e(i + 1) : i \in 1 .. n}
    BY <2>2, <2>3
  <2> QED
    BY <2>1, <2>4
<1>13. Queue(ring, Plus(from, 1), to, T)
  BY ONLY <1>1, <1>11, <1>12, QueueEntries
<1> QED
  BY <1>10, <1>13

-----------------------------------------------------------------------------
(* The inductive invariant *)

RingTypes ==
  /\ DOMAIN available_ring = Desc /\ DOMAIN used_ring = Desc
  /\ available_head \in Index /\ device_next \in Index
  /\ used_head \in Index /\ used_ring_last_head_index \in Index
  /\ nextUsedRingIndex \in Index /\ currentUsedRingHeadIndex \in Index

InLoop == loop \in {"elements", "callback"}

(* The head index that the loop works towards is not ahead of the ring's:  *)
(* the device may have moved on since it was read, but never back.         *)
CursorBehind ==
  InLoop => Distance(nextUsedRingIndex, currentUsedRingHeadIndex)
              <= Distance(nextUsedRingIndex, used_head)

RInv == IInv /\ RingTypes /\ RingsHoldInFlight /\ CursorBehind

(* The chains O wait in the available ring, F in the used ring.            *)
PlacedIn(O, F) ==
  /\ Queue(available_ring, device_next, available_head, O)
  /\ Queue(used_ring, UsedCursor, used_head, F)
  /\ O \cap F = {} /\ (O \cup F) \cap device_held = {}
  /\ O \cup F \cup device_held = in_flight

(* The invariant in terms of the two queues.                               *)
LEMMA Places ==
  ASSUME RInv
  PROVE  /\ \E O, F : PlacedIn(O, F)
         /\ UsedCursor \in Index /\ in_flight \subseteq Desc
<1>1. PlacedIn(Elements(Offered), Elements(Finished))
  BY DEF RInv, RingsHoldInFlight, PlacedIn, Queue, Offered, Finished
<1>2. UsedCursor \in Index
  BY DEF RInv, RingTypes, UsedCursor
<1>3. in_flight \subseteq Desc
  BY SharedFacts DEF RInv, IInv
<1> QED
  BY <1>1, <1>2, <1>3

(* Chains placed in two queues after a step re-establish the invariant.    *)
LEMMA PlacesKept ==
  ASSUME NEW O, NEW F, PlacedIn(O, F)', IInv', RingTypes', CursorBehind'
  PROVE  RInv'
<1>1. RingsHoldInFlight'
  BY DEF RingsHoldInFlight, PlacedIn, Queue, Offered, Finished
<1> QED
  BY <1>1 DEF RInv

(* Empty rings, as allocated, hold the empty set of chains in flight.      *)
LEMMA RingInitEstablishes == RingInit => RInv
<1> SUFFICES ASSUME RingInit PROVE RInv
  OBVIOUS
<1>1. IInv /\ in_flight = {}
  BY InitEstablishes DEF RingInit, Init
<1>2. RingTypes
  BY IndexWrapAssumption, NumEntriesAssumption DEF RingInit, RingTypes, Index, Desc
<1>3. 0 \in Index /\ Distance(0, 0) = 0
  <2>1. 0 \in Index
    BY IndexWrapAssumption, NumEntriesAssumption DEF Index
  <2> QED
    BY <2>1, IndexFacts
<1>4. CursorBehind
  BY <1>3 DEF RingInit, CursorBehind
<1>5. Offered = <<>> /\ Finished = <<>>
  <2>1. UsedCursor = 0
    BY DEF RingInit, UsedCursor
  <2>2. Distance(device_next, available_head) = 0 /\ Distance(UsedCursor, used_head) = 0
    BY <1>3, <2>1 DEF RingInit
  <2> QED
    BY <2>2 DEF Offered, Finished, Window
<1>6. RingsHoldInFlight
  <2>1. Elements(Offered) = {} /\ Elements(Finished) = {}
    BY <1>5 DEF Elements
  <2>2. ~Repeats(Offered) /\ ~Repeats(Finished)
    BY <1>5 DEF Repeats
  <2> QED
    BY <1>1, <2>1, <2>2 DEF RingsHoldInFlight, RingInit
<1> QED
  BY <1>1, <1>2, <1>4, <1>6, SMTT(60) DEF RInv

-----------------------------------------------------------------------------
(* Steps *)

(* submitBuffersToVirtqueue: the new chain joins those in the available    *)
(* ring, in a slot of its own.                                             *)
LEMMA SubmitRings ==
  ASSUME RInv, CleanedUpCases, NEW r \in Requests, NEW shape \in RequestShapes,
         Submit(r, shape)
  PROVE  RInv'
<1>1. IInv /\ RingTypes /\ CursorBehind
  BY DEF RInv
<1>2. PICK O, F : PlacedIn(O, F)
  BY Places
<1>3. IInv' /\ (Refused \/ Accepted(r, shape))
  BY <1>1, SubmitDirectStep, SubmitIndirectStep, SMTT(60) DEF Submit
<1>4. UNCHANGED <<usedVars, used_ring_last_head_index, deviceVars, loopVars>>
  BY DEF Submit
<1>5. CursorBehind' /\ UsedCursor' = UsedCursor
  BY <1>1, <1>4 DEF usedVars, loopVars, CursorBehind, InLoop, UsedCursor
<1>6. CASE Refused
  <2>1. result' # "Success"
    BY <1>6, Zenon DEF Refused
  <2>2. UNCHANGED availVars
    BY <2>1, Zenon DEF Submit
  <2>3. in_flight' = in_flight
    BY <1>6 DEF Refused, GivesBack
  <2>4. RingTypes'
    BY <1>1, <1>4, <2>2 DEF RingTypes, availVars, usedVars, deviceVars, loopVars
  <2>5. PlacedIn(O, F)'
    BY <1>2, <1>4, <1>5, <2>2, <2>3, SMTT(60) DEF PlacedIn, availVars, usedVars, deviceVars
  <2> QED
    BY <1>3, <1>5, <2>4, <2>5, PlacesKept
<1>7. CASE Accepted(r, shape)
  <2>1. PICK x : x = first_unused_descriptor_index
    OBVIOUS
  <2>2. x \in Desc \ in_flight /\ in_flight' = in_flight \cup {x}
    BY <1>7, <2>1 DEF Accepted
  <2>3. result' = "Success"
    BY <1>7, Zenon DEF Accepted
  <2>4. /\ available_ring' = [available_ring EXCEPT ![Slot(available_head)] = x]
        /\ available_head' = Plus(available_head, 1)
    BY <2>1, <2>3, Zenon DEF Submit, AddToRing
  <2>5. available_head' \in Index
    BY <1>1, <2>4, IndexFacts DEF RingTypes
  <2>6. RingTypes'
    BY <1>1, <1>4, <2>4, <2>5, SMTT(60) DEF RingTypes, usedVars, deviceVars, loopVars
  <2>7. /\ Queue(available_ring, device_next, available_head, O) /\ O \subseteq Desc
        /\ x \in Desc \ O
    BY <1>2, <2>2, Places DEF PlacedIn
  <2>8. PICK T : T = O \cup {x}
    BY Zenon
  <2>9. Queue(available_ring', device_next, available_head', T)
    <3>1. DOMAIN available_ring = Desc /\ device_next \in Index /\ available_head \in Index
      BY <1>1 DEF RingTypes
    <3>2. Queue(available_ring', device_next, Plus(available_head, 1), T)
      BY ONLY <2>4, <2>7, <2>8, <3>1, Enqueue, Zenon
    <3> QED
      BY <2>4, <3>2
  <2>10. Queue(used_ring, UsedCursor, used_head, F)'
    BY <1>2, <1>4, <1>5 DEF PlacedIn, usedVars
  <2>11. /\ T \cap F = {} /\ (T \cup F) \cap device_held' = {}
         /\ T \cup F \cup device_held' = in_flight'
    BY <1>2, <1>4, <2>2, <2>8 DEF PlacedIn, deviceVars
  <2>12. PlacedIn(T, F)'
    <3>1. device_next' = device_next
      BY <1>4 DEF deviceVars
    <3> QED
      BY <2>9, <2>10, <2>11, <3>1, SMTT(60) DEF PlacedIn
  <2> QED
    BY <1>3, <1>5, <2>6, <2>12, PlacesKept
<1> QED
  BY <1>3, <1>6, <1>7

(* The device takes the oldest chain from the available ring.              *)
LEMMA TakeRings ==
  ASSUME RInv, CleanedUpCases, DeviceTake
  PROVE  RInv'
<1>1. IInv /\ RingTypes /\ CursorBehind
  BY DEF RInv
<1>2. PICK O, F : PlacedIn(O, F)
  BY Places
<1>3. UNCHANGED <<vars, availVars, usedVars, used_ring_last_head_index, loopVars>>
  BY DEF DeviceTake
<1>4. IInv'
  BY <1>1, <1>3, StepPreserves
<1>5. CursorBehind' /\ UsedCursor' = UsedCursor /\ in_flight' = in_flight
  BY <1>1, <1>3 DEF usedVars, loopVars, vars, CursorBehind, InLoop, UsedCursor
<1>6. PICK x : x = available_ring[Slot(device_next)]
  OBVIOUS
<1>7. device_held' = device_held \cup {x} /\ device_next' = Plus(device_next, 1)
  BY <1>6 DEF DeviceTake
<1>8. RingTypes'
  <2>1. device_next' \in Index
    BY <1>1, <1>7, IndexFacts DEF RingTypes
  <2> QED
    BY <1>1, <1>3, <2>1 DEF RingTypes, availVars, usedVars, loopVars
<1>9. PICK T : T = O \ {x}
  BY Zenon
<1>10. x \in O /\ Queue(available_ring, device_next', available_head, T)
  <2>1. /\ Queue(available_ring, device_next, available_head, O)
        /\ device_next \in Index /\ available_head \in Index /\ device_next # available_head
    BY <1>1, <1>2 DEF PlacedIn, RingTypes, DeviceTake
  <2>2. x \in O /\ Queue(available_ring, Plus(device_next, 1), available_head, T)
    BY ONLY <1>6, <1>9, <2>1, Dequeue
  <2> QED
    BY <1>7, <2>2
<1>11. PlacedIn(T, F)'
  <2>1. Queue(available_ring, device_next, available_head, T)'
    BY <1>3, <1>10 DEF availVars
  <2>2. Queue(used_ring, UsedCursor, used_head, F)'
    BY <1>2, <1>3, <1>5 DEF PlacedIn, usedVars
  <2>3. /\ T \cap F = {} /\ (T \cup F) \cap device_held' = {}
        /\ T \cup F \cup device_held' = in_flight'
    BY <1>2, <1>5, <1>7, <1>9, <1>10, SMTT(60) DEF PlacedIn
  <2> QED
    BY <2>1, <2>2, <2>3 DEF PlacedIn
<1> QED
  BY <1>4, <1>5, <1>8, <1>11, PlacesKept

(* The device puts a chain that it holds into the used ring.               *)
LEMMA ReturnRings ==
  ASSUME RInv, CleanedUpCases, NEW h \in device_held, DeviceReturn(h)
  PROVE  RInv'
<1>1. IInv /\ RingTypes /\ CursorBehind
  BY DEF RInv
<1>2. PICK O, F : PlacedIn(O, F)
  BY Places
<1>3. UNCHANGED <<vars, availVars, used_ring_last_head_index, device_next, loopVars>>
  BY DEF DeviceReturn
<1>4. IInv'
  BY <1>1, <1>3, StepPreserves
<1>5. UsedCursor' = UsedCursor /\ in_flight' = in_flight /\ InLoop' = InLoop
  BY <1>3 DEF loopVars, vars, InLoop, UsedCursor
<1>6. /\ device_held' = device_held \ {h} /\ used_head' = Plus(used_head, 1)
      /\ used_ring' = [used_ring EXCEPT ![Slot(used_head)] = h]
  BY DEF DeviceReturn
<1>7. RingTypes'
  <2>1. used_head' \in Index
    BY <1>1, <1>6, IndexFacts DEF RingTypes
  <2> QED
    BY <1>1, <1>3, <1>6, <2>1 DEF RingTypes, availVars, loopVars
<1>8. PICK T : T = F \cup {h}
  BY Zenon
<1>9. PICK from \in Index : from = UsedCursor
  BY Places
<1>10. /\ Queue(used_ring', from, used_head', T)
       /\ Distance(from, used_head') = Distance(from, used_head) + 1
  <2>1. /\ Queue(used_ring, from, used_head, F) /\ F \subseteq Desc /\ h \in Desc \ F
        /\ DOMAIN used_ring = Desc /\ used_head \in Index
    BY <1>1, <1>2, <1>9, Places DEF PlacedIn, RingTypes
  <2>2. /\ Queue(used_ring', from, Plus(used_head, 1), T)
        /\ Distance(from, Plus(used_head, 1)) = Distance(from, used_head) + 1
    BY ONLY from \in Index, <1>6, <1>8, <2>1, Enqueue, ZenonT(60)
  <2> QED
    BY <1>6, <2>2, SMTT(60)
<1>11. CursorBehind'
  <2> SUFFICES ASSUME InLoop
               PROVE  Distance(nextUsedRingIndex, currentUsedRingHeadIndex)'
                        <= Distance(nextUsedRingIndex, used_head)'
    BY <1>5 DEF CursorBehind
  <2>1. from = nextUsedRingIndex
    BY <1>9 DEF InLoop, UsedCursor
  <2>2. UNCHANGED <<nextUsedRingIndex, currentUsedRingHeadIndex>>
    BY <1>3 DEF loopVars
  <2>3. PICK a \in Nat, b \in Nat : /\ a = Distance(from, currentUsedRingHeadIndex)
                                    /\ b = Distance(from, used_head)
    BY <1>1, IndexFacts DEF RingTypes
  <2>4. a <= b
    BY <1>1, <2>1, <2>3 DEF CursorBehind
  <2>5. Distance(from, used_head') = b + 1
    BY <1>10, <2>3
  <2>6. a <= b + 1
    BY <2>4
  <2> QED
    BY <2>1, <2>2, <2>3, <2>5, <2>6
<1>12. PlacedIn(O, T)'
  <2>1. Queue(available_ring, device_next, available_head, O)'
    BY <1>2, <1>3 DEF PlacedIn, availVars
  <2>2. Queue(used_ring, UsedCursor, used_head, T)'
    BY <1>5, <1>9, <1>10
  <2>3. /\ O \cap T = {} /\ (O \cup T) \cap device_held' = {}
        /\ O \cup T \cup device_held' = in_flight'
    BY <1>2, <1>5, <1>6, <1>8, SMTT(60) DEF PlacedIn
  <2> QED
    BY <2>1, <2>2, <2>3 DEF PlacedIn
<1> QED
  BY <1>4, <1>7, <1>11, <1>12, PlacesKept, SMTT(60)

(* The entry that the loop handles next is a chain in flight.              *)
LEMMA NextElementInFlight ==
  ASSUME RInv, loop = "elements", MoreElements,
         NEW O, NEW F, PlacedIn(O, F),
         NEW x, x = used_ring[Slot(nextUsedRingIndex)], NEW T, T = F \ {x}
  PROVE  /\ x \in F /\ x \in in_flight
         /\ Queue(used_ring, Plus(nextUsedRingIndex, 1), used_head, T)
         /\ Distance(Plus(nextUsedRingIndex, 1), currentUsedRingHeadIndex)
              <= Distance(Plus(nextUsedRingIndex, 1), used_head)
<1> DEFINE from == nextUsedRingIndex
           to == currentUsedRingHeadIndex
<1>1. InLoop /\ UsedCursor = from
  BY DEF InLoop, UsedCursor
<1>2. /\ from \in Index /\ to \in Index /\ used_head \in Index /\ from # to
      /\ Distance(from, to) <= Distance(from, used_head)
      /\ Queue(used_ring, from, used_head, F) /\ F \subseteq in_flight
  BY <1>1, SMTT(60) DEF RInv, RingTypes, CursorBehind, MoreElements, PlacedIn
<1>3. from # used_head
  <2>1. Distance(from, to) # 0 /\ Distance(from, to) \in Nat
    <3>1. IndexWrap \in Nat
      BY IndexWrapAssumption
    <3> HIDE DEF from, to
    <3>2. /\ Distance(from, to) = IF from <= to THEN to - from ELSE to - from + IndexWrap
          /\ Distance(from, to) \in 0 .. IndexWrap - 1
      BY ONLY <1>2, IndexFacts, Zenon
    <3> QED
      BY ONLY <1>2, <3>1, <3>2 DEF Index
  <2>2. from = used_head => Distance(from, used_head) = 0
    BY <1>2, IndexFacts DEF Index
  <2> QED
    BY <1>2, <2>1, <2>2
<1>4. x \in F /\ Queue(used_ring, Plus(from, 1), used_head, T)
  BY ONLY x = used_ring[Slot(nextUsedRingIndex)], T = F \ {x}, <1>2, <1>3, Dequeue, SMTT(60)
<1>5. Distance(Plus(from, 1), to) <= Distance(Plus(from, 1), used_head)
  <2>1. Plus(from, 1) \in Index
    BY <1>2, IndexFacts, SMTT(60)
  <2>2. PICK a \in Nat, b \in Nat : /\ a = Distance(Plus(from, 1), to)
                                    /\ b = Distance(Plus(from, 1), used_head)
    BY <1>2, <2>1, IndexFacts, SMTT(60)
  <2>3. Distance(from, to) = a + 1 /\ Distance(from, used_head) = b + 1
    BY <1>2, <1>3, <2>2, Advance, SMTT(60)
  <2> QED
    BY <1>2, <2>2, <2>3, SMTT(60)
<1> QED
  BY <1>2, <1>4, <1>5

(* One turn of the for loop over the used ring.                            *)
LEMMA HandleRings ==
  ASSUME RInv, HandleElement
  PROVE  RInv' /\ Next
<1>1. IInv /\ RingTypes
  BY DEF RInv
<1>2. PICK O, F : PlacedIn(O, F)
  BY Places
<1>3. PICK x : x = used_ring[Slot(nextUsedRingIndex)]
  OBVIOUS
<1>4. PICK T : T = F \ {x}
  BY Zenon
<1>5. /\ loop = "elements" /\ MoreElements /\ CompleteRequest(x) /\ loop' = "callback"
      /\ nextUsedRingIndex' = Plus(nextUsedRingIndex, 1)
      /\ UNCHANGED <<availVars, usedVars, used_ring_last_head_index, deviceVars,
                     currentUsedRingHeadIndex>>
  BY <1>3, SMTT(60) DEF HandleElement
<1>6. /\ x \in F /\ x \in in_flight
      /\ Queue(used_ring, Plus(nextUsedRingIndex, 1), used_head, T)
      /\ Distance(Plus(nextUsedRingIndex, 1), currentUsedRingHeadIndex)
           <= Distance(Plus(nextUsedRingIndex, 1), used_head)
  BY <1>2, <1>3, <1>4, <1>5, NextElementInFlight, SMTT(60)
<1>7. IInv' /\ Next
  BY <1>1, <1>5, <1>6, CompletePreserves, SMTT(60) DEF Next
<1>8. in_flight' = in_flight \ {x}
  BY <1>5, SMTT(60) DEF CompleteRequest
<1>9. RingTypes'
  <2>1. nextUsedRingIndex' \in Index
    BY <1>1, <1>5, IndexFacts, SMTT(60) DEF RingTypes
  <2> QED
    BY <1>1, <1>5, <2>1, SMTT(60) DEF RingTypes, availVars, usedVars, deviceVars
<1>10. CursorBehind'
  BY <1>5, <1>6 DEF CursorBehind, usedVars
<1>11. PlacedIn(O, T)'
  <2>1. Queue(available_ring, device_next, available_head, O)'
    BY <1>2, <1>5 DEF PlacedIn, availVars, deviceVars
  <2>2. UsedCursor' = Plus(nextUsedRingIndex, 1)
    BY <1>5 DEF UsedCursor
  <2>3. Queue(used_ring, UsedCursor, used_head, T)'
    BY <1>5, <1>6, <2>2, SMTT(60) DEF usedVars
  <2>4. /\ O \cap T = {} /\ (O \cup T) \cap device_held' = {}
        /\ O \cup T \cup device_held' = in_flight'
    BY <1>2, <1>4, <1>5, <1>6, <1>8, SMTT(60) DEF PlacedIn, deviceVars
  <2> QED
    BY <2>1, <2>3, <2>4, SMTT(60) DEF PlacedIn
<1> QED
  BY <1>7, <1>9, <1>10, <1>11, PlacesKept, SMTT(60)

(* The other steps of the loop move no chain, and the position from which  *)
(* the used ring is read stays the same.                                   *)
LEMMA LoopRings ==
  ASSUME RInv, CleanedUpCases,
         UNCHANGED <<vars, availVars, usedVars, deviceVars>>,
         RingTypes', CursorBehind', UsedCursor' = UsedCursor
  PROVE  RInv'
<1>1. PICK O, F : PlacedIn(O, F)
  BY Places
<1>2. IInv'
  BY StepPreserves DEF RInv
<1>3. PlacedIn(O, F)'
  BY <1>1 DEF PlacedIn, vars, availVars, usedVars, deviceVars
<1> QED
  BY <1>2, <1>3, PlacesKept

(* The entry of processCompletedRequestsInVirtqueue.                       *)
LEMMA StartRings ==
  ASSUME RInv, CleanedUpCases, NEW limit, StartProcessing(limit)
  PROVE  RInv' /\ UNCHANGED vars
<1>1. /\ UNCHANGED <<vars, availVars, usedVars, used_ring_last_head_index, deviceVars,
                     nextUsedRingIndex, currentUsedRingHeadIndex>>
      /\ loop = "idle" /\ loop' = "look"
  BY DEF StartProcessing
<1>2. RingTypes' /\ CursorBehind' /\ UsedCursor' = UsedCursor
  BY <1>1 DEF RInv, RingTypes, CursorBehind, InLoop, UsedCursor, availVars, usedVars, deviceVars
<1> QED
  BY <1>1, <1>2, LoopRings

(* The comparison of the used head with the last one seen, which either    *)
(* ends the call, looks again after the barrier or enters the for loop.    *)
LEMMA LookRings ==
  ASSUME RInv, CleanedUpCases, Look
  PROVE  RInv' /\ UNCHANGED vars
<1>1. UNCHANGED <<vars, availVars, usedVars, used_ring_last_head_index, deviceVars>>
  BY DEF Look
<1>2. loop \in {"look", "look_again"}
  BY DEF Look
<1>3. UsedCursor = used_ring_last_head_index /\ RingTypes /\ 0 \in Index
  BY <1>2, IndexWrapAssumption, NumEntriesAssumption, SMTT(60) DEF UsedCursor, RInv, Index
<1>4. CASE /\ loop' \in {"look_again", "idle"}
           /\ nextUsedRingIndex' \in {0, nextUsedRingIndex}
           /\ currentUsedRingHeadIndex' \in {0, currentUsedRingHeadIndex}
  <2>1. CursorBehind' /\ UsedCursor' = UsedCursor
    BY <1>1, <1>3, <1>4 DEF CursorBehind, InLoop, UsedCursor
  <2>2. RingTypes'
    BY <1>1, <1>3, <1>4 DEF RingTypes, availVars, usedVars, deviceVars
  <2> QED
    BY <1>1, <2>1, <2>2, LoopRings, SMTT(60)
<1>5. CASE /\ loop' = "elements"
           /\ nextUsedRingIndex' = used_ring_last_head_index
           /\ currentUsedRingHeadIndex' = used_head
  <2>1. UsedCursor' = UsedCursor
    BY <1>3, <1>5, SMTT(60) DEF UsedCursor
  <2>2. RingTypes'
    BY <1>1, <1>3, <1>5 DEF RingTypes, availVars, usedVars, deviceVars
  <2>3. Distance(used_ring_last_head_index, used_head) \in Nat
    <3>1. used_ring_last_head_index \in Index /\ used_head \in Index
      BY <1>3, SMTT(60) DEF RingTypes
    <3>2. Distance(used_ring_last_head_index, used_head) \in 0 .. IndexWrap - 1
      BY ONLY <3>1, IndexFacts
    <3>3. IndexWrap \in Nat
      BY IndexWrapAssumption
    <3> QED
      BY ONLY <3>2, <3>3, SMTT(60)
  <2>4. CursorBehind'
    BY <1>1, <1>5, <2>3, SMTT(60) DEF CursorBehind, usedVars
  <2> QED
    BY <1>1, <2>1, <2>2, <2>4, LoopRings, SMTT(60)
<1> QED
  BY <1>4, <1>5 DEF Look

(* The completion callback returns into the for loop.                      *)
LEMMA CallbackRings ==
  ASSUME RInv, CleanedUpCases, CallbackReturns
  PROVE  RInv' /\ UNCHANGED vars
<1>1. /\ UNCHANGED <<vars, availVars, usedVars, used_ring_last_head_index, deviceVars,
                     nextUsedRingIndex, currentUsedRingHeadIndex>>
      /\ loop = "callback" /\ loop' = "elements"
  BY DEF CallbackReturns
<1>2. RingTypes' /\ CursorBehind' /\ UsedCursor' = UsedCursor
  BY <1>1 DEF RInv, RingTypes, CursorBehind, InLoop, UsedCursor, availVars, usedVars, deviceVars
<1> QED
  BY <1>1, <1>2, LoopRings

(* The end of the for loop, where the last head index seen is stored.      *)
LEMMA StoreRings ==
  ASSUME RInv, CleanedUpCases, StoreLastHead
  PROVE  RInv' /\ UNCHANGED vars
<1>1. /\ UNCHANGED <<vars, availVars, usedVars, deviceVars, nextUsedRingIndex,
                     currentUsedRingHeadIndex>>
      /\ loop = "elements" /\ loop' = "look"
      /\ used_ring_last_head_index' = nextUsedRingIndex
  BY DEF StoreLastHead
<1>2. RingTypes' /\ CursorBehind' /\ UsedCursor' = UsedCursor
  BY <1>1 DEF RInv, RingTypes, CursorBehind, InLoop, UsedCursor, availVars, usedVars, deviceVars
<1> QED
  BY <1>1, <1>2, LoopRings

(* Every step preserves the invariant, and is one of DescriptorChains or   *)
(* changes nothing that module speaks of.                                  *)
LEMMA RingStep ==
  ASSUME RInv, CleanedUpCases, [RingNext]_ringVars
  PROVE  RInv' /\ [Next]_vars
<1>1. CASE UNCHANGED ringVars
  <2>1. UNCHANGED <<vars, availVars, usedVars, deviceVars, used_ring_last_head_index, loopVars>>
    BY <1>1, SMTT(60) DEF ringVars
  <2>2. RingTypes' /\ CursorBehind' /\ UsedCursor' = UsedCursor
    BY <2>1 DEF RInv, RingTypes, CursorBehind, InLoop, UsedCursor, availVars, usedVars,
                deviceVars, loopVars
  <2> QED
    BY <2>1, <2>2, LoopRings, SMTT(60)
<1>2. ASSUME NEW r \in Requests, NEW shape \in RequestShapes, Submit(r, shape)
      PROVE  RInv' /\ [Next]_vars
  <2>1. RInv'
    BY <1>2, SubmitRings
  <2>2. Next
    BY <1>2 DEF Submit, Next
  <2> QED
    BY <2>1, <2>2, SMTT(60)
<1>3. CASE DeviceTake
  <2>1. RInv'
    BY <1>3, TakeRings, SMTT(60)
  <2>2. UNCHANGED vars
    BY <1>3 DEF DeviceTake
  <2> QED
    BY <2>1, <2>2
<1>4. ASSUME NEW h \in device_held, DeviceReturn(h) PROVE RInv' /\ [Next]_vars
  <2>1. RInv'
    BY <1>4, ReturnRings
  <2>2. UNCHANGED vars
    BY <1>4 DEF DeviceReturn
  <2> QED
    BY <2>1, <2>2
<1>5. ASSUME NEW limit, StartProcessing(limit) PROVE RInv' /\ [Next]_vars
  BY <1>5, StartRings
<1>6. CASE Look
  BY <1>6, LookRings
<1>7. CASE HandleElement
  BY <1>7, HandleRings, SMTT(60)
<1>8. CASE CallbackReturns
  BY <1>8, CallbackRings
<1>9. CASE StoreLastHead
  BY <1>9, StoreRings
<1> QED
  BY <1>1, <1>2, <1>3, <1>4, <1>5, <1>6, <1>7, <1>8, <1>9, Zenon DEF RingNext, Process

-----------------------------------------------------------------------------
(* Theorems *)

(* Every reachable state of the queue with its rings satisfies the         *)
(* invariant of the descriptors and that of the rings.                     *)
THEOREM RingInvariance ==
  ASSUME CleanedUpCases
  PROVE  RingSpec => []RInv
<1>1. RInv /\ [RingNext]_ringVars => RInv'
  BY RingStep
<1> QED
  BY <1>1, RingInitEstablishes, PTL DEF RingSpec

(* Every chain in flight is in one place, in the available ring, with the  *)
(* device or in the used ring, and is read from a ring once; for any ring  *)
(* size, across any number of wraps of the 16-bit indices.                 *)
THEOREM RingsAlwaysHoldInFlight ==
  ASSUME CleanedUpCases
  PROVE  RingSpec => []RingsHoldInFlight
<1>1. RInv => RingsHoldInFlight
  BY DEF RInv
<1> QED
  BY <1>1, RingInvariance, PTL

(* Without its rings the queue is DescriptorChains: the used entry that    *)
(* processCompletedRequestsInVirtqueue handles is always the head of a     *)
(* chain in flight.                                                        *)
THEOREM RingsImplementChains ==
  ASSUME CleanedUpCases
  PROVE  RingSpec => ImplementsDescriptorChains
<1>1. RingInit => Init
  BY DEF RingInit
<1>2. RInv /\ [RingNext]_ringVars => [Next]_vars
  BY RingStep
<1> QED
  BY <1>1, <1>2, RingInvariance, PTL DEF RingSpec, Spec, ImplementsDescriptorChains

(* So the safety part of what VirtioDevice.h promises, proved of the       *)
(* chains, holds of the queue with its rings.                              *)
THEOREM RingsImplementContract ==
  ASSUME CleanedUpCases
  PROVE  RingSpec => ImplementsVirtioDevice
<1>1. RingSpec => Spec
  BY RingsImplementChains DEF ImplementsDescriptorChains
<1> QED
  BY <1>1, ImplementsContract, PTL

=============================================================================
