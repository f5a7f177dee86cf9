------------------------ MODULE DescriptorChainsProofs ------------------------
(***************************************************************************)
(* Proofs about DescriptorChains, for descriptor tables and requests of    *)
(* any size and any number of requests.  They are about linked lists in    *)
(* the array next_desc: a list is a sequence of descriptors that the links *)
(* follow to the end marker.  Such a list repeats no descriptor, and what  *)
(* is reached from its head is what is on it.                              *)
(***************************************************************************)
EXTENDS DescriptorChains, FiniteSetTheorems, FunctionTheorems, WellFoundedInduction, TLAPS

Links == [Desc -> Desc \cup {NoDesc}]

(* The links next lead from h over c[1], ..., c[n] to the end marker.      *)
IsList(next, h, c, n) ==
  /\ c \in [1 .. n -> Desc]
  /\ h = IF n = 0 THEN NoDesc ELSE c[1]
  /\ \A i \in 1 .. n : next[c[i]] = IF i = n THEN NoDesc ELSE c[i + 1]

(* The first descriptors of a list.                                        *)
IsPrefix(next, first, p, k) ==
  /\ p \in [1 .. k -> Desc]
  /\ p[1] = first
  /\ \A i \in 1 .. k - 1 : p[i + 1] = next[p[i]]

(* The links differ on D at most.                                          *)
SameBut(D, next, then) == \A d \in Desc \ D : then[d] = next[d]

(* The list u is p followed by a list of n descriptors from start on.      *)
IsFollowed(next, start, p, u, n) ==
  \E rest : /\ IsList(next, start, rest, n)
            /\ Elements(p) \cap Elements(rest) = {}
            /\ Elements(p) \cup Elements(rest) = Elements(u)

-----------------------------------------------------------------------------
(* Induction along a list *)

(* A set of numbers has a least one.                                       *)
LEMMA Least ==
  ASSUME NEW T \in SUBSET Nat, T # {}
  PROVE  \E x \in T : \A y \in T : x <= y
<1> DEFINE R == OpToRel(<, Nat)
<1>1. IsWellFoundedOn(R, Nat)
  BY NatLessThanWellFounded, Zenon
<1>2. \A a, b \in Nat : a < b => <<a, b>> \in R
  BY DEF OpToRel
<1> HIDE DEF R
<1>3. PICK x \in T : \A y \in T : ~ (<<y, x>> \in R)
  BY <1>1, WFMin, Zenon
<1>4. \A y \in T : x <= y
  <2> TAKE y \in T
  <2>1. x \in Nat /\ y \in Nat
    OBVIOUS
  <2>2. ~(y < x)
    BY <1>2, <1>3, <2>1, Zenon
  <2> QED
    BY <2>1, <2>2
<1> QED
  BY <1>4

(* What holds of the first position and goes from each to the next holds   *)
(* of all.                                                                 *)
LEMMA AlongList ==
  ASSUME NEW n \in Nat, NEW S, 1 \in S, \A i \in 1 .. n - 1 : i \in S => i + 1 \in S
  PROVE  1 .. n \subseteq S
<1> SUFFICES ASSUME (1 .. n) \ S # {} PROVE FALSE
  OBVIOUS
<1>1. (1 .. n) \ S \in SUBSET Nat
  OBVIOUS
<1>2. PICK x \in (1 .. n) \ S : \A y \in (1 .. n) \ S : x <= y
  BY <1>1, Least, Zenon
<1>3. x # 1 /\ x - 1 \in 1 .. n - 1
  OBVIOUS
<1>4. x - 1 \in S
  BY <1>2, <1>3
<1>5. (x - 1) + 1 = x
  BY <1>3
<1> QED
  BY <1>3, <1>4, <1>5

(* What is reached from the head of a list is what is on it.               *)
LEMMA ListReach ==
  ASSUME NEW next \in Links, NEW h, NEW n \in Nat, NEW c, IsList(next, h, c, n)
  PROVE  Reach(next, h) = Elements(c)
<1>0. DOMAIN c = 1 .. n /\ Elements(c) \subseteq Desc
  BY DEF IsList, Elements
<1>1. Reach(next, h) \subseteq Elements(c)
  <2>1. h \in Elements(c) \cup {NoDesc}
    BY DEF IsList, Elements
  <2>2. \A x \in Elements(c) : next[x] \in Elements(c) \cup {NoDesc}
    <3> SUFFICES ASSUME NEW i \in 1 .. n PROVE next[c[i]] \in Elements(c) \cup {NoDesc}
      BY <1>0 DEF Elements
    <3>1. CASE i = n
      BY <3>1 DEF IsList
    <3>2. CASE i # n
      BY <1>0, <3>2 DEF IsList, Elements
    <3> QED
      BY <3>1, <3>2
  <2> QED
    BY <1>0, <2>1, <2>2 DEF Reach
<1>2. Elements(c) \subseteq Reach(next, h)
  <2> SUFFICES ASSUME NEW j \in 1 .. n, NEW S \in SUBSET Desc,
                      h \in S \cup {NoDesc}, \A x \in S : next[x] \in S \cup {NoDesc}
               PROVE  c[j] \in S
    BY <1>0 DEF Elements, Reach
  <2> DEFINE I == {i \in 1 .. n : c[i] \in S}
  <2>1. \A i \in 1 .. n : c[i] \in Desc /\ c[i] # NoDesc
    BY NumEntriesAssumption DEF IsList, Desc, NoDesc
  <2>2. 1 \in I
    BY <2>1 DEF IsList
  <2>3. \A i \in 1 .. n - 1 : i \in I => i + 1 \in I
    BY <2>1 DEF IsList
  <2> HIDE DEF I
  <2>4. 1 .. n \subseteq I
    BY <2>2, <2>3, AlongList
  <2> QED
    BY <2>4 DEF I
<1> QED
  BY <1>1, <1>2

(* A list that ends repeats nothing: after two equal descriptors the same  *)
(* would follow, and the end marker follows the last one only.             *)
LEMMA ListInjective ==
  ASSUME NEW next, NEW h, NEW n \in Nat, NEW c, IsList(next, h, c, n)
  PROVE  \A i, j \in 1 .. n : c[i] = c[j] => i = j
<1> DEFINE T == {k \in Nat : \E i, j \in 1 .. n : i < j /\ c[i] = c[j] /\ k = n - j}
<1> SUFFICES ASSUME T # {} PROVE FALSE
  <2> SUFFICES ASSUME NEW i \in 1 .. n, NEW j \in 1 .. n, c[i] = c[j], i < j PROVE FALSE
    OBVIOUS
  <2>1. n - j \in T
    OBVIOUS
  <2> QED
    BY <2>1, Zenon
<1>1. PICK k \in T : \A l \in T : k <= l
  <2>1. T \in SUBSET Nat
    OBVIOUS
  <2> HIDE DEF T
  <2> QED
    BY <2>1, Least
<1>2. PICK i \in 1 .. n, j \in 1 .. n : i < j /\ c[i] = c[j] /\ k = n - j
  OBVIOUS
<1>3. /\ next[c[i]] = c[i + 1] /\ c[i + 1] # NoDesc
      /\ next[c[j]] = IF j = n THEN NoDesc ELSE c[j + 1]
  <2>1. i # n /\ i + 1 \in 1 .. n
    BY <1>2
  <2>2. \A m \in 1 .. n : c[m] \in Desc /\ c[m] # NoDesc
    BY NumEntriesAssumption, SMTT(60) DEF IsList, Desc, NoDesc
  <2> QED
    BY <2>1, <2>2, SMTT(60) DEF IsList
<1>4. j # n /\ c[i + 1] = c[j + 1]
  BY <1>2, <1>3
<1>5. n - (j + 1) \in T
  BY <1>2, <1>4
<1>6. k <= n - (j + 1)
  BY <1>1, <1>5
<1> QED
  BY <1>2, <1>6

(* A list of n descriptors has n of them.                                  *)
LEMMA ListCount ==
  ASSUME NEW next, NEW h, NEW n \in Nat, NEW c, IsList(next, h, c, n)
  PROVE  IsFiniteSet(Elements(c)) /\ Cardinality(Elements(c)) = n
<1>1. IsFiniteSet(1 .. n) /\ Cardinality(1 .. n) = n
  <2>1. 1 \in Int /\ n \in Int /\ (IF 1 > n THEN 0 ELSE n - 1 + 1) = n
    BY SMTT(60)
  <2> QED
    BY <2>1, FS_Interval
<1>2. DOMAIN c = 1 .. n
  BY DEF IsList
<1>3. c \in [1 .. n -> Elements(c)] /\ \A a, b \in 1 .. n : c[a] = c[b] => a = b
  <2>1. c \in [1 .. n -> Elements(c)]
    BY <1>2 DEF IsList, Elements
  <2>2. \A a, b \in 1 .. n : c[a] = c[b] => a = b
    BY ListInjective
  <2> QED
    BY <2>1, <2>2
<1>4. \A t \in Elements(c) : \E s \in 1 .. n : c[s] = t
  BY <1>2 DEF Elements
<1>5. c \in Bijection(1 .. n, Elements(c))
  BY <1>3, <1>4, Fun_IsBij
<1>6. ExistsBijection(1 .. n, Elements(c))
  BY <1>5 DEF ExistsBijection
<1> QED
  BY <1>1, <1>6, FS_Bijection

(* The cleanup loops walk a list.                                          *)
LEMMA WalkIsList ==
  ASSUME NEW next, NEW h, NEW n \in Nat \ {0}, NEW c, IsWalk(next, h, c, n)
  PROVE  IsList(next, h, c, n)
BY DEF IsWalk, IsList

(* A list stays one if the links change elsewhere.                         *)
LEMMA ListFrame ==
  ASSUME NEW next, NEW h, NEW n \in Nat, NEW c, IsList(next, h, c, n),
         NEW other, \A d \in Elements(c) : other[d] = next[d]
  PROVE  IsList(other, h, c, n)
<1>1. \A i \in 1 .. n : c[i] \in Elements(c)
  BY DEF IsList, Elements
<1> QED
  BY <1>1 DEF IsList

-----------------------------------------------------------------------------
(* Taking descriptors off the unused list, and putting them back *)

(* reserveNewDescriptor and outputVringDescSegment: the first k of a list  *)
(* are linked into a list of their own, the others are left.               *)
LEMMA Taking ==
  ASSUME NEW next \in Links, NEW h, NEW m \in Nat, NEW u, IsList(next, h, u, m),
         NEW k \in 1 .. m, NEW p, IsPrefix(next, h, p, k),
         NEW then, then = Linked(next, p, k)
  PROVE  /\ then \in Links
         /\ IsList(then, p[1], p, k)
         /\ SameBut(Elements(p), next, then)
         /\ IsFollowed(then, next[p[k]], p, u, m - k)
<1> DEFINE rest == [i \in 1 .. m - k |-> u[k + i]]
<1>12. /\ p \in [1 .. k -> Desc] /\ p[1] = h
       /\ \A i \in 1 .. k - 1 : p[i + 1] = next[p[i]]
  BY DEF IsPrefix
<1>0. DOMAIN p = 1 .. k /\ DOMAIN u = 1 .. m /\ DOMAIN rest = 1 .. m - k
  BY <1>12 DEF IsList
<1>1. \A i \in 1 .. k : p[i] = u[i]
  <2> DEFINE I == {i \in 1 .. k : p[i] = u[i]}
  <2>1. 1 \in I
    BY <1>12 DEF IsList
  <2>2. \A i \in 1 .. k - 1 : i \in I => i + 1 \in I
    BY <1>12 DEF IsList
  <2> HIDE DEF I
  <2>4. k \in Nat
    OBVIOUS
  <2>3. 1 .. k \subseteq I
    BY ONLY <2>1, <2>2, <2>4, AlongList
  <2> QED
    BY <2>3 DEF I
<1>2. \A i, j \in 1 .. m : u[i] = u[j] => i = j
  <2>1. m \in Nat /\ IsList(next, h, u, m)
    OBVIOUS
  <2> QED
    BY ONLY <2>1, ListInjective
<1>3. \A i \in 1 .. m : u[i] \in Desc /\ next[u[i]] = IF i = m THEN NoDesc ELSE u[i + 1]
  BY DEF IsList
<1>4. then = [next EXCEPT ![u[k]] = NoDesc]
  <2>1. k # 0 /\ k \in 1 .. k
    OBVIOUS
  <2>2. p[k] = u[k]
    BY <1>1, <2>1
  <2> QED
    BY <2>1, <2>2, Zenon DEF Linked
<1>5. then \in Links
  BY <1>4, Zenon DEF Links
<1>6. \A i \in 1 .. m : then[u[i]] = IF i = k THEN NoDesc ELSE next[u[i]]
  BY <1>2, <1>3, <1>4 DEF Links
<1>7. IsList(then, p[1], p, k)
  <2>1. \A i \in 1 .. k : then[p[i]] = IF i = k THEN NoDesc ELSE p[i + 1]
    BY <1>1, <1>3, <1>6
  <2> QED
    BY <1>12, <2>1 DEF IsList
<1>8. SameBut(Elements(p), next, then)
  <2>1. u[k] \in Elements(p)
    BY <1>0, <1>1 DEF Elements
  <2> QED
    BY <1>4, <2>1 DEF Links, SameBut
<1>9. IsList(then, next[p[k]], rest, m - k)
  <2>1. rest \in [1 .. m - k -> Desc]
    BY <1>3
  <2>2. next[p[k]] = IF m - k = 0 THEN NoDesc ELSE rest[1]
    BY <1>1, <1>3
  <2>3. \A i \in 1 .. m - k : then[rest[i]] = IF i = m - k THEN NoDesc ELSE rest[i + 1]
    <3> SUFFICES ASSUME NEW i \in 1 .. m - k
                 PROVE  then[rest[i]] = IF i = m - k THEN NoDesc ELSE rest[i + 1]
      BY Zenon
    <3>1. k + i \in 1 .. m /\ k + i # k /\ (k + i = m <=> i = m - k) /\ rest[i] = u[k + i]
      OBVIOUS
    <3>2. then[rest[i]] = IF i = m - k THEN NoDesc ELSE u[k + i + 1]
      BY <1>3, <1>6, <3>1
    <3>3. i # m - k => i + 1 \in 1 .. m - k /\ rest[i + 1] = u[k + i + 1]
      OBVIOUS
    <3> QED
      BY <3>2, <3>3
  <2> HIDE DEF rest
  <2> QED
    BY <2>1, <2>2, <2>3 DEF IsList
<1>10. Elements(p) \cap Elements(rest) = {}
  BY <1>0, <1>1, <1>2 DEF Elements
<1>11. Elements(p) \cup Elements(rest) = Elements(u)
  <2>1. Elements(p) \subseteq Elements(u) /\ Elements(rest) \subseteq Elements(u)
    BY <1>0, <1>1 DEF Elements
  <2>2. ASSUME NEW j \in 1 .. m PROVE u[j] \in Elements(p) \cup Elements(rest)
    <3>1. CASE j <= k
      BY <1>0, <1>1, <3>1 DEF Elements
    <3>2. CASE ~(j <= k)
      <4>1. j - k \in 1 .. m - k /\ rest[j - k] = u[j]
        BY <3>2
      <4> QED
        BY <1>0, <4>1 DEF Elements
    <3> QED
      BY <3>1, <3>2
  <2>3. Elements(u) \subseteq Elements(p) \cup Elements(rest)
    BY <1>0, <2>2, Zenon DEF Elements
  <2> QED
    BY <2>1, <2>3
<1> HIDE DEF rest
<1> QED
  BY <1>5, <1>7, <1>8, <1>9, <1>10, <1>11, Zenon DEF IsFollowed

(* returnUnusedDescriptor on one list after the other: they end up at the  *)
(* front of the unused list, the last one first.                           *)
LEMMA PuttingBack ==
  ASSUME NEW next \in Links, NEW h, NEW n \in Nat \ {0}, NEW c, IsList(next, h, c, n),
         NEW first, NEW m \in Nat, NEW u, IsList(next, first, u, m),
         Elements(c) \cap Elements(u) = {},
         NEW then, then = Returned(next, first, c, n)
  PROVE  /\ then \in Links
         /\ SameBut(Elements(c), next, then)
         /\ \E w : /\ IsList(then, c[n], w, n + m)
                   /\ Elements(w) = Elements(c) \cup Elements(u)
<1> DEFINE w == [i \in 1 .. n + m |-> IF i <= n THEN c[n + 1 - i] ELSE u[i - n]]
<1>0. DOMAIN c = 1 .. n /\ DOMAIN u = 1 .. m /\ DOMAIN w = 1 .. n + m
  BY DEF IsList
<1>1. \A i, j \in 1 .. n : c[i] = c[j] => i = j
  BY ListInjective
<1>2. /\ \A i \in 1 .. n : c[i] \in Desc
      /\ \A i \in 1 .. m : u[i] \in Desc /\ next[u[i]] = IF i = m THEN NoDesc ELSE u[i + 1]
      /\ first = IF m = 0 THEN NoDesc ELSE u[1]
  BY DEF IsList
<1>3. ASSUME NEW i \in 1 .. n PROVE then[c[i]] = IF i = 1 THEN first ELSE c[i - 1]
  <2>1. (CHOOSE j \in 1 .. n : c[j] = c[i]) = i
    BY <1>1
  <2> QED
    BY <1>2, <2>1, Zenon DEF Returned
<1>4. \A d \in Desc \ Elements(c) : then[d] = next[d]
  BY <1>0 DEF Returned, Elements
<1>5. then \in Links
  <2>1. DOMAIN then = Desc /\ then = [d \in Desc |-> then[d]]
    BY DEF Returned
  <2>2. ASSUME NEW d \in Desc PROVE then[d] \in Desc \cup {NoDesc}
    <3>1. CASE d \in Elements(c)
      <4>1. PICK i \in 1 .. n : d = c[i]
        BY <1>0, <3>1, SMTT(60) DEF Elements
      <4>2. then[d] = IF i = 1 THEN first ELSE c[i - 1]
        BY <1>3, <4>1
      <4> QED
        BY <1>2, <4>2
    <3>2. CASE d \notin Elements(c)
      BY <1>4, <3>2 DEF Links
    <3> QED
      BY <3>1, <3>2
  <2> QED
    BY <2>1, <2>2 DEF Links
<1>6. \A i \in 1 .. m : then[u[i]] = next[u[i]]
  <2>1. \A i \in 1 .. m : u[i] \in Desc \ Elements(c)
    BY <1>0, <1>2, Zenon DEF Elements
  <2> QED
    BY <1>4, <2>1
<1>7. IsList(then, c[n], w, n + m)
  <2>1. w \in [1 .. n + m -> Desc] /\ c[n] = w[1] /\ n + m # 0
    BY <1>2, SMTT(60)
  <2>2. ASSUME NEW i \in 1 .. n + m
        PROVE  then[w[i]] = IF i = n + m THEN NoDesc ELSE w[i + 1]
    <3>1. CASE i < n
      <4>1. w[i] = c[n + 1 - i] /\ w[i + 1] = c[n - i] /\ n + 1 - i \in 1 .. n
        BY <3>1
      <4>2. then[c[n + 1 - i]] = c[n - i]
        <5>1. n + 1 - i # 1 /\ (n + 1 - i) - 1 = n - i
          BY <3>1
        <5> QED
          BY <1>3, <4>1, <5>1
      <4> QED
        BY <3>1, <4>1, <4>2
    <3>2. CASE i = n
      <4>1. w[i] = c[1] /\ then[c[1]] = first
        BY <1>3, <3>2
      <4>2. m # 0 => w[i + 1] = u[1]
        BY <3>2, SMTT(60)
      <4> QED
        BY <1>2, <3>2, <4>1, <4>2
    <3>3. CASE i > n
      <4>1. i - n \in 1 .. m /\ w[i] = u[i - n] /\ (i # n + m => w[i + 1] = u[i - n + 1])
        BY <3>3
      <4> QED
        <5>1. then[u[i - n]] = IF i - n = m THEN NoDesc ELSE u[i - n + 1]
          BY <1>2, <1>6, <4>1
        <5>2. i - n = m <=> i = n + m
          BY <3>3
        <5> QED
          BY <4>1, <5>1, <5>2
    <3> QED
      BY <3>1, <3>2, <3>3
  <2> HIDE DEF w
  <2> QED
    BY <2>1, <2>2, SMTT(60) DEF IsList
<1>8. Elements(w) = Elements(c) \cup Elements(u)
  <2>1. Elements(w) \subseteq Elements(c) \cup Elements(u)
    <3> SUFFICES ASSUME NEW i \in 1 .. n + m PROVE w[i] \in Elements(c) \cup Elements(u)
      BY <1>0 DEF Elements
    <3>1. CASE i <= n
      <4>1. w[i] = c[n + 1 - i] /\ n + 1 - i \in 1 .. n
        BY <3>1
      <4> QED
        BY <1>0, <4>1 DEF Elements
    <3>2. CASE ~(i <= n)
      <4>1. w[i] = u[i - n] /\ i - n \in 1 .. m
        BY <3>2
      <4> QED
        BY <1>0, <4>1 DEF Elements
    <3> QED
      BY <3>1, <3>2
  <2>2. ASSUME NEW i \in 1 .. n PROVE c[i] \in Elements(w)
    <3>1. n + 1 - i \in 1 .. n + m /\ w[n + 1 - i] = c[i]
      OBVIOUS
    <3> QED
      BY <1>0, <3>1 DEF Elements
  <2>3. ASSUME NEW i \in 1 .. m PROVE u[i] \in Elements(w)
    <3>1. n + i \in 1 .. n + m /\ w[n + i] = u[i]
      OBVIOUS
    <3> QED
      BY <1>0, <3>1, Zenon DEF Elements
  <2>4. Elements(c) \subseteq Elements(w) /\ Elements(u) \subseteq Elements(w)
    BY <1>0, <2>2, <2>3, ZenonT(60) DEF Elements
  <2> QED
    BY <2>1, <2>4
<1>9. SameBut(Elements(c), next, then)
  BY <1>4 DEF SameBut
<1> HIDE DEF w
<1> QED
  BY <1>5, <1>7, <1>8, <1>9, Zenon

-----------------------------------------------------------------------------
(* The unused list and the chains in flight share out the descriptors *)

SharedOut(next, first, num, heads) ==
  /\ next \in Links /\ num \in Nat /\ heads \subseteq Desc
  /\ \E u : IsList(next, first, u, num)
  /\ \A h \in heads : \E n \in Nat \ {0} : \E c : IsList(next, h, c, n)
  /\ \A h \in heads : Reach(next, h) \cap Reach(next, first) = {}
  /\ \A g, h \in heads : g # h => Reach(next, g) \cap Reach(next, h) = {}
  /\ \A d \in Desc : d \in Reach(next, first) \/ \E h \in heads : d \in Reach(next, h)

(* Chains that a change of links does not touch.                           *)
LEMMA ChainsFrame ==
  ASSUME NEW next, NEW first, NEW num, NEW heads, SharedOut(next, first, num, heads),
         NEW others \in SUBSET heads,
         NEW then \in Links, NEW D, SameBut(D, next, then),
         \A h \in others : Reach(next, h) \cap D = {}
  PROVE  \A h \in others : /\ \E n \in Nat \ {0} : \E c : IsList(then, h, c, n)
                           /\ Reach(then, h) = Reach(next, h)
<1> SUFFICES ASSUME NEW h \in others
             PROVE  /\ \E n \in Nat \ {0} : \E c : IsList(then, h, c, n)
                    /\ Reach(then, h) = Reach(next, h)
  OBVIOUS
<1>0. next \in Links
  BY DEF SharedOut
<1>n. PICK n \in Nat \ {0} : \E c : IsList(next, h, c, n)
  BY DEF SharedOut
<1>1. PICK c : IsList(next, h, c, n)
  BY <1>n
<1>2. n \in Nat
  OBVIOUS
<1>3. Reach(next, h) = Elements(c)
  BY ONLY <1>0, <1>1, <1>2, ListReach
<1>4. Elements(c) \subseteq Desc
  BY <1>1 DEF IsList, Elements
<1>5. \A d \in Elements(c) : then[d] = next[d]
  BY <1>3, <1>4 DEF SameBut
<1>6. IsList(then, h, c, n)
  BY ONLY <1>1, <1>2, <1>5, ListFrame
<1>7. Reach(then, h) = Elements(c)
  BY ONLY then \in Links, <1>2, <1>6, ListReach
<1> QED
  BY <1>3, <1>6, <1>7

(* What Taking says of them, in terms of what can be reached.              *)
LEMMA PrefixTaken ==
  ASSUME NEW next, NEW first, NEW num, NEW heads, SharedOut(next, first, num, heads),
         NEW k \in 1 .. num, NEW p, IsPrefix(next, first, p, k),
         NEW then, then = Linked(next, p, k)
  PROVE  /\ then \in Links /\ k \in Nat \ {0} /\ num - k \in Nat
         /\ IsList(then, p[1], p, k) /\ Reach(then, p[1]) = Elements(p)
         /\ SameBut(Elements(p), next, then)
         /\ Elements(p) \subseteq Reach(next, first)
         /\ \E rest : /\ IsList(then, next[p[k]], rest, num - k)
                      /\ Elements(rest) = Reach(next, first) \ Elements(p)
         /\ Reach(then, next[p[k]]) = Reach(next, first) \ Elements(p)
         /\ \A h \in heads : /\ \E n \in Nat \ {0} : \E c : IsList(then, h, c, n)
                             /\ Reach(then, h) = Reach(next, h)
<1>0. next \in Links /\ num \in Nat
  BY DEF SharedOut
<1>1. PICK u : IsList(next, first, u, num)
  BY DEF SharedOut
<1>2. k \in Nat /\ k \in Nat \ {0} /\ num - k \in Nat
  BY <1>0
<1>3. Reach(next, first) = Elements(u)
  BY ONLY <1>0, <1>1, ListReach
<1>5. /\ then \in Links
      /\ IsList(then, p[1], p, k)
      /\ SameBut(Elements(p), next, then)
      /\ IsFollowed(then, next[p[k]], p, u, num - k)
  BY ONLY <1>0, <1>1, k \in 1 .. num, IsPrefix(next, first, p, k),
     then = Linked(next, p, k), Taking, SMTT(60)
<1>6. PICK rest : /\ IsList(then, next[p[k]], rest, num - k)
                  /\ Elements(p) \cap Elements(rest) = {}
                  /\ Elements(p) \cup Elements(rest) = Elements(u)
  BY <1>5, Zenon DEF IsFollowed
<1>7. Reach(then, p[1]) = Elements(p)
  BY ONLY <1>2, <1>5, ListReach
<1>8. Elements(rest) = Reach(next, first) \ Elements(p) /\ Elements(p) \subseteq Reach(next, first)
  BY ONLY <1>3, <1>6
<1>9. Reach(then, next[p[k]]) = Elements(rest)
  BY ONLY <1>2, <1>5, <1>6, ListReach
<1>10. \A h \in heads : Reach(next, h) \cap Elements(p) = {}
  BY <1>8 DEF SharedOut
<1>11. \A h \in heads : /\ \E n \in Nat \ {0} : \E c : IsList(then, h, c, n)
                        /\ Reach(then, h) = Reach(next, h)
  BY ONLY SharedOut(next, first, num, heads), <1>5, <1>10, heads \in SUBSET heads,
     ChainsFrame, SMTT(60)
<1> QED
  BY ONLY <1>2, <1>5, <1>6, <1>7, <1>8, <1>9, <1>11, Zenon

(* A submission that succeeds: the chain leaves the unused list and joins  *)
(* those in flight.                                                        *)
LEMMA Publishing ==
  ASSUME NEW next, NEW first, NEW num, NEW heads, SharedOut(next, first, num, heads),
         NEW k \in 1 .. num, NEW p, IsPrefix(next, first, p, k),
         NEW then, then = Linked(next, p, k)
  PROVE  SharedOut(then, next[p[k]], num - k, heads \cup {p[1]})
<1>1. /\ then \in Links /\ k \in Nat \ {0} /\ num - k \in Nat
      /\ IsList(then, p[1], p, k) /\ Reach(then, p[1]) = Elements(p)
      /\ Elements(p) \subseteq Reach(next, first)
      /\ \E rest : IsList(then, next[p[k]], rest, num - k)
      /\ Reach(then, next[p[k]]) = Reach(next, first) \ Elements(p)
      /\ \A h \in heads : /\ \E n \in Nat \ {0} : \E c : IsList(then, h, c, n)
                          /\ Reach(then, h) = Reach(next, h)
  BY ONLY SharedOut(next, first, num, heads), k \in 1 .. num, IsPrefix(next, first, p, k),
     then = Linked(next, p, k), PrefixTaken, SMTT(60)
<1>2. p[1] \in Desc /\ heads \subseteq Desc
  BY DEF IsPrefix, SharedOut
<1>3. \A h \in heads : Reach(next, h) \cap Reach(next, first) = {}
  BY DEF SharedOut
<1>4. \A g, h \in heads : g # h => Reach(next, g) \cap Reach(next, h) = {}
  BY DEF SharedOut
<1>5. \A d \in Desc : d \in Reach(next, first) \/ \E h \in heads : d \in Reach(next, h)
  BY DEF SharedOut
<1> DEFINE now == heads \cup {p[1]}
<1>6. \A h \in now : \E n \in Nat \ {0} : \E c : IsList(then, h, c, n)
  BY ONLY <1>1, ZenonT(60)
<1>7. \A h \in now : Reach(then, h) \cap Reach(then, next[p[k]]) = {}
  BY ONLY <1>1, <1>3
<1>8. \A g, h \in now : g # h => Reach(then, g) \cap Reach(then, h) = {}
  BY ONLY <1>1, <1>3, <1>4
<1>9. \A d \in Desc : d \in Reach(then, next[p[k]]) \/ \E h \in now : d \in Reach(then, h)
  BY ONLY <1>1, <1>5
<1>10. now \subseteq Desc
  BY <1>2
<1> HIDE DEF now
<1>11. SharedOut(then, next[p[k]], num - k, now)
  BY ONLY <1>1, <1>6, <1>7, <1>8, <1>9, <1>10, Zenon DEF SharedOut
<1> QED
  BY <1>11 DEF now

(* A submission that fails half way: the cleanup loop walks what was       *)
(* linked and puts it back.                                                *)
CleansUp(next, first, num, heads, k, p, linked, n, c, then) ==
  /\ SharedOut(next, first, num, heads)
  /\ k \in 1 .. num /\ IsPrefix(next, first, p, k) /\ linked = Linked(next, p, k)
  /\ n \in Nat \ {0} /\ IsWalk(linked, p[1], c, n)
  /\ then = Returned(linked, next[p[k]], c, n)

CleanedUp(next, first, num, heads, k, p, n, c, then) ==
  /\ SharedOut(then, c[n], num - k + n, heads)
  /\ num - k + n = num
  /\ \A i, j \in 1 .. k : p[i] = p[j] => i = j
  /\ Elements(c) = Elements(p)
  /\ Elements(p) \subseteq Reach(next, first)
  /\ Reach(then, c[n]) = Reach(next, first)
  /\ \A h \in heads : Reach(then, h) = Reach(next, h)

(* The unused list holds the same descriptors again, and as many.          *)
LEMMA CleaningUp ==
  ASSUME NEW next, NEW first, NEW num, NEW heads, NEW k, NEW p, NEW linked, NEW n, NEW c,
         NEW then, CleansUp(next, first, num, heads, k, p, linked, n, c, then)
  PROVE  CleanedUp(next, first, num, heads, k, p, n, c, then)
<1>0. /\ SharedOut(next, first, num, heads)
      /\ k \in 1 .. num /\ IsPrefix(next, first, p, k) /\ linked = Linked(next, p, k)
      /\ n \in Nat \ {0} /\ IsWalk(linked, p[1], c, n)
      /\ then = Returned(linked, next[p[k]], c, n)
  BY SMTT(60) DEF CleansUp
<1>1. /\ linked \in Links /\ k \in Nat \ {0} /\ num - k \in Nat
      /\ IsList(linked, p[1], p, k) /\ Reach(linked, p[1]) = Elements(p)
      /\ SameBut(Elements(p), next, linked)
      /\ Elements(p) \subseteq Reach(next, first)
      /\ \E rest : /\ IsList(linked, next[p[k]], rest, num - k)
                   /\ Elements(rest) = Reach(next, first) \ Elements(p)
  BY ONLY <1>0, PrefixTaken, SMTT(60)
<1>2. PICK rest : /\ IsList(linked, next[p[k]], rest, num - k)
                  /\ Elements(rest) = Reach(next, first) \ Elements(p)
  BY <1>1
<1>3. IsList(linked, p[1], c, n)
  BY <1>0, WalkIsList, SMTT(60)
<1>4. n \in Nat /\ k \in Nat /\ num \in Nat
  BY <1>0, <1>1, SMTT(60) DEF SharedOut
<1>5. Elements(c) = Elements(p)
  <2>1. Reach(linked, p[1]) = Elements(c)
    BY ONLY <1>1, <1>3, <1>4, ListReach
  <2> QED
    BY <1>1, <2>1
<1>6. n = k
  <2>1. Cardinality(Elements(c)) = n
    BY ONLY <1>3, <1>4, ListCount
  <2>2. Cardinality(Elements(p)) = k
    BY ONLY <1>1, <1>4, ListCount
  <2> QED
    BY <1>5, <2>1, <2>2
<1>7. num - k + n = num /\ n + (num - k) = num
  BY <1>4, <1>6
<1>8. Elements(c) \cap Elements(rest) = {}
  BY <1>2, <1>5, SMTT(60)
<1>9. /\ then \in Links
      /\ SameBut(Elements(c), linked, then)
      /\ \E w : /\ IsList(then, c[n], w, n + (num - k))
                /\ Elements(w) = Elements(c) \cup Elements(rest)
  BY ONLY <1>0, <1>1, <1>2, <1>3, <1>8,
     PuttingBack, SMTT(60)
<1>10. PICK w : /\ IsList(then, c[n], w, num)
                /\ Elements(w) = Elements(c) \cup Elements(rest)
  BY <1>7, <1>9
<1>11. Elements(w) = Reach(next, first)
  BY <1>1, <1>2, <1>5, <1>10
<1>12. Reach(then, c[n]) = Reach(next, first)
  <2>1. Reach(then, c[n]) = Elements(w)
    BY ONLY <1>4, <1>9, <1>10, ListReach, SMTT(60)
  <2> QED
    BY <1>11, <2>1
<1>13. SameBut(Elements(p), next, then)
  BY <1>1, <1>5, <1>9, SMTT(60) DEF SameBut
<1>14. \A h \in heads : Reach(next, h) \cap Elements(p) = {}
  BY <1>0, <1>1, SMTT(60) DEF SharedOut
<1>15. \A h \in heads : /\ \E i \in Nat \ {0} : \E b : IsList(then, h, b, i)
                        /\ Reach(then, h) = Reach(next, h)
  BY ONLY <1>0, <1>9, <1>13, <1>14, heads \in SUBSET heads,
     ChainsFrame, SMTT(60)
<1>16. SharedOut(then, c[n], num, heads)
  <2>1. \A h \in heads : Reach(then, h) \cap Reach(then, c[n]) = {}
    BY <1>0, <1>12, <1>15, SMTT(60) DEF SharedOut
  <2>2. \A g, h \in heads : g # h => Reach(then, g) \cap Reach(then, h) = {}
    BY <1>0, <1>15, SMTT(60) DEF SharedOut
  <2>3. \A d \in Desc : d \in Reach(then, c[n]) \/ \E h \in heads : d \in Reach(then, h)
    BY <1>0, <1>12, <1>15, SMTT(60) DEF SharedOut
  <2>4. heads \subseteq Desc
    BY <1>0 DEF SharedOut
  <2> QED
    BY ONLY <1>4, <1>9, <1>10, <1>15, <2>1, <2>2, <2>3, <2>4, ZenonT(60) DEF SharedOut
<1>17. \A i, j \in 1 .. k : p[i] = p[j] => i = j
  BY ONLY <1>1, <1>4, ListInjective
<1> QED
  BY ONLY <1>1, <1>5, <1>7, <1>12, <1>15, <1>16, <1>17, ZenonT(60) DEF CleanedUp

(* A completion: the chain of h is walked and put on the unused list.      *)
Completes(next, first, num, heads, h, n, c, then) ==
  /\ SharedOut(next, first, num, heads)
  /\ h \in heads /\ n \in Nat \ {0} /\ IsWalk(next, h, c, n)
  /\ then = Returned(next, first, c, n)

Completed(next, first, num, heads, h, n, c, then) ==
  /\ SharedOut(then, c[n], num + n, heads \ {h})
  /\ Elements(c) = Reach(next, h)
  /\ Reach(then, c[n]) = Reach(next, first) \cup Elements(c)
  /\ \A g \in heads \ {h} : Reach(then, g) = Reach(next, g)

(* The completed chain is added to the unused list; the others stay.       *)
LEMMA Completing ==
  ASSUME NEW next, NEW first, NEW num, NEW heads, NEW h, NEW n, NEW c, NEW then,
         Completes(next, first, num, heads, h, n, c, then)
  PROVE  Completed(next, first, num, heads, h, n, c, then)
<1> DEFINE others == heads \ {h}
<1>0. /\ SharedOut(next, first, num, heads)
      /\ h \in heads /\ n \in Nat \ {0} /\ IsWalk(next, h, c, n)
      /\ then = Returned(next, first, c, n)
  BY DEF Completes
<1>1. next \in Links /\ num \in Nat /\ n \in Nat /\ n + num \in Nat /\ n + num = num + n
  BY <1>0 DEF SharedOut
<1>2. PICK u : IsList(next, first, u, num)
  BY <1>0 DEF SharedOut
<1>3. IsList(next, h, c, n)
  BY <1>0, WalkIsList
<1>4. Elements(c) = Reach(next, h)
  BY ONLY <1>1, <1>3, ListReach
<1>5. Elements(u) = Reach(next, first)
  BY ONLY <1>1, <1>2, ListReach
<1>6. Elements(c) \cap Elements(u) = {}
  BY <1>0, <1>4, <1>5 DEF SharedOut
<1>7. /\ then \in Links
      /\ SameBut(Elements(c), next, then)
      /\ \E w : /\ IsList(then, c[n], w, n + num)
                /\ Elements(w) = Elements(c) \cup Elements(u)
  BY ONLY <1>0, <1>1, <1>2, <1>3, <1>6,
     PuttingBack, SMTT(60)
<1>8. PICK w : /\ IsList(then, c[n], w, num + n)
               /\ Elements(w) = Elements(c) \cup Elements(u)
  BY <1>1, <1>7
<1>9. Reach(then, c[n]) = Reach(next, first) \cup Elements(c)
  <2>1. Reach(then, c[n]) = Elements(w)
    BY ONLY <1>1, <1>7, <1>8, ListReach
  <2> QED
    BY <1>5, <1>8, <2>1
<1>10. \A g \in others : Reach(next, g) \cap Elements(c) = {}
  BY <1>0, <1>4, SMTT(60) DEF SharedOut
<1>11. \A g \in others : /\ \E i \in Nat \ {0} : \E b : IsList(then, g, b, i)
                         /\ Reach(then, g) = Reach(next, g)
  <2>1. others \in SUBSET heads
    OBVIOUS
  <2> HIDE DEF others
  <2> QED
    BY ONLY <1>0, <1>7, <1>10, <2>1, ChainsFrame, SMTT(60)
<1>12. SharedOut(then, c[n], num + n, others)
  <2>1. \A g \in others : Reach(then, g) \cap Reach(then, c[n]) = {}
    BY <1>0, <1>9, <1>10, <1>11 DEF SharedOut
  <2>2. \A f, g \in others : f # g => Reach(then, f) \cap Reach(then, g) = {}
    BY <1>0, <1>11 DEF SharedOut
  <2>3. \A d \in Desc : d \in Reach(then, c[n]) \/ \E g \in others : d \in Reach(then, g)
    BY <1>0, <1>4, <1>9, <1>11 DEF SharedOut
  <2>4. others \subseteq Desc
    BY <1>0 DEF SharedOut
  <2>5. num + n \in Nat
    BY <1>1
  <2> HIDE DEF others
  <2> QED
    BY ONLY <1>7, <1>8, <1>11, <2>1, <2>2, <2>3, <2>4, <2>5, Zenon DEF SharedOut
<1> QED
  BY <1>4, <1>9, <1>11, <1>12, Zenon DEF Completed

-----------------------------------------------------------------------------
(* The inductive invariant *)

Types ==
  /\ indirect_desc_per_request \in TableSizes
  /\ DOMAIN completion = Desc /\ DOMAIN descriptor_table = Desc
  /\ pending \in [Requests -> Nat \X Nat]

Shared ==
  SharedOut(next_desc, first_unused_descriptor_index, num_unused_descriptors, in_flight)

IInv ==
  /\ Types /\ Shared
  /\ OneChainPerRequest /\ DeviceSeesRequests /\ BuffersHeldWhileInFlight

(* The cases in which the cleanup finds all it has to put back: the other  *)
(* DMA failures have a run of their own, and an indirect request for which *)
(* submitBuffersToVirtqueueIndirect returns early keeps its descriptor.    *)
CleanedUpCases ==
  /\ DMAFaults \subseteq {PrepareReadable, GenAfterSome, PrepareTable}
  /\ \A shape \in RequestShapes, size \in TableSizes :
       size > 0 => MinDescsRequired(shape) \in 1 .. size

(* The table shows the segments from h on, on the descriptors of chain.    *)
Shows(table, segs, h, chain) ==
  \E c \in [DOMAIN segs -> Desc] :
    /\ c[1] = h
    /\ \A i \in DOMAIN segs : table[c[i]] =
         [segs |-> <<segs[i]>>,
          next |-> IF i + 1 \in DOMAIN segs THEN c[i + 1] ELSE NoDesc]
    /\ Elements(c) = chain

(* What DeviceSeesRequests and BuffersHeldWhileInFlight say of one head.   *)
Sees(h) ==
  LET r == completion[h]
      segs == Segments(r, pending[r])
  IN  IF Indirect
      THEN descriptor_table[h] = [segs |-> segs, next |-> NoDesc]
      ELSE Shows(descriptor_table, segs, h, Chain(h))

Holds(h) ==
  LET shape == pending[completion[h]] IN
  /\ h \in dma_mapped
  /\ ~Indirect /\ shape[1] > 0 /\ shape[2] > 0 =>
       \E d \in Chain(h) \ {h} : d \in dma_mapped /\
          descriptor_table[d].segs[1].position = shape[1] + 1

(* The unused list and the heads, seen from the lists.                     *)
LEMMA SharedFacts ==
  ASSUME Shared
  PROVE  /\ next_desc \in Links /\ num_unused_descriptors \in Nat /\ in_flight \subseteq Desc
         /\ \A h \in in_flight : h \in Chain(h)
         /\ \A h \in in_flight : Chain(h) \cap Unused = {}
         /\ first_unused_descriptor_index = NoDesc <=> num_unused_descriptors = 0
         /\ num_unused_descriptors > 0 => first_unused_descriptor_index \in Unused
         /\ Unused \subseteq Desc /\ \A h \in in_flight : Chain(h) \subseteq Desc
         /\ IsFiniteSet(Unused) /\ Cardinality(Unused) = num_unused_descriptors
<1>1. next_desc \in Links /\ num_unused_descriptors \in Nat /\ in_flight \subseteq Desc
  BY DEF Shared, SharedOut
<1>2. \A h \in in_flight : Chain(h) \cap Unused = {}
  BY DEF Shared, SharedOut, Chain, Unused
<1>3. ASSUME NEW h \in in_flight PROVE h \in Chain(h)
  <2>n. PICK n \in Nat \ {0} : \E c : IsList(next_desc, h, c, n)
    BY DEF Shared, SharedOut
  <2>1. PICK c : IsList(next_desc, h, c, n)
    BY <2>n
  <2>2. n \in Nat
    OBVIOUS
  <2>3. Reach(next_desc, h) = Elements(c)
    BY ONLY <1>1, <2>1, <2>2, ListReach
  <2>4. h \in Elements(c)
    BY <2>1 DEF IsList, Elements
  <2> QED
    BY <2>3, <2>4, SMTT(60) DEF Chain
<1>4. PICK u : IsList(next_desc, first_unused_descriptor_index, u, num_unused_descriptors)
  BY DEF Shared, SharedOut
<1>5. Unused = Elements(u)
  BY ONLY <1>1, <1>4, ListReach DEF Unused
<1>6. IsFiniteSet(Elements(u)) /\ Cardinality(Elements(u)) = num_unused_descriptors
  BY ONLY <1>1, <1>4, ListCount
<1>7. first_unused_descriptor_index = NoDesc <=> num_unused_descriptors = 0
  <2>1. num_unused_descriptors # 0 => u[1] \in Desc
    BY <1>1, <1>4 DEF IsList
  <2> QED
    BY <1>4, <2>1, NumEntriesAssumption DEF IsList, Desc, NoDesc
<1>8. num_unused_descriptors > 0 => first_unused_descriptor_index \in Elements(u)
  BY <1>1, <1>4 DEF IsList, Elements
<1>9. Unused \subseteq Desc /\ \A h \in in_flight : Chain(h) \subseteq Desc
  BY SMTT(60) DEF Unused, Chain, Reach
<1> QED
  BY <1>1, <1>2, <1>3, <1>5, <1>6, <1>7, <1>8, <1>9, SMTT(60)

(* What a table shows depends on the entries of the chain only.            *)
LEMMA ShowsFrame ==
  ASSUME NEW table, NEW segs, NEW h, NEW chain, Shows(table, segs, h, chain),
         NEW other, \A d \in chain : other[d] = table[d]
  PROVE  Shows(other, segs, h, chain)
<1>1. PICK c \in [DOMAIN segs -> Desc] :
        /\ c[1] = h
        /\ \A i \in DOMAIN segs : table[c[i]] =
             [segs |-> <<segs[i]>>,
              next |-> IF i + 1 \in DOMAIN segs THEN c[i + 1] ELSE NoDesc]
        /\ Elements(c) = chain
  BY DEF Shows
<1>2. \A i \in DOMAIN segs : other[c[i]] = table[c[i]]
  BY <1>1 DEF Elements
<1> QED
  BY <1>1, <1>2 DEF Shows

(* A request in flight whose descriptors a step leaves alone.              *)
LEMMA RequestFrame ==
  ASSUME NEW h, Sees(h), Holds(h), h \in Chain(h),
         UNCHANGED indirect_desc_per_request,
         completion'[h] = completion[h],
         pending'[completion[h]] = pending[completion[h]],
         Chain(h)' = Chain(h),
         \A d \in Chain(h) : descriptor_table'[d] = descriptor_table[d],
         \A d \in Chain(h) : d \in dma_mapped => d \in dma_mapped'
  PROVE  Sees(h)' /\ Holds(h)'
<1>1. Indirect' = Indirect
  BY DEF Indirect
<1>2. Holds(h)'
  BY <1>1 DEF Holds
<1>3. Sees(h)'
  <2> DEFINE r == completion[h]
             segs == Segments(r, pending[r])
  <2>1. CASE Indirect
    BY <1>1, <2>1 DEF Sees
  <2>2. CASE ~Indirect
    <3>1. Shows(descriptor_table, segs, h, Chain(h))
      BY <2>2, Zenon DEF Sees
    <3> HIDE DEF segs
    <3>2. Shows(descriptor_table', segs, h, Chain(h))
      BY <3>1, ShowsFrame
    <3>3. Segments(completion'[h], pending'[completion'[h]]) = segs
      BY DEF segs
    <3> QED
      BY <1>1, <2>2, <3>2, <3>3, Zenon DEF Sees
  <2> QED
    BY <2>1, <2>2, SMTT(60)
<1> QED
  BY <1>2, <1>3

-----------------------------------------------------------------------------
(* Submissions *)

(* A submission that fails: whatever it did to unused descriptors, the     *)
(* requests in flight do not notice.                                       *)
LEMMA NothingPublished ==
  ASSUME IInv, UNCHANGED <<indirect_desc_per_request, in_flight, pending, dma_mapped>>,
         Shared', Unused' = Unused, \A h \in in_flight : Chain(h)' = Chain(h),
         DOMAIN completion' = Desc, DOMAIN descriptor_table' = Desc,
         \A h \in in_flight : completion'[h] = completion[h],
         \A d \in Desc \ Unused : descriptor_table'[d] = descriptor_table[d],
         dma_mapped \subseteq dma_cmd_used'
  PROVE  IInv'
<1>1. Types'
  BY DEF IInv, Types
<1>2. OneChainPerRequest'
  <2>1. {completion'[h] : h \in in_flight'} = {completion[h] : h \in in_flight}
    OBVIOUS
  <2>2. \A g, h \in in_flight' : completion'[g] = completion'[h] => g = h
    BY DEF IInv, OneChainPerRequest
  <2> QED
    BY <2>1, <2>2 DEF IInv, OneChainPerRequest
<1>3. Shared
  BY DEF IInv
<1>4. ASSUME NEW h \in in_flight PROVE Sees(h)' /\ Holds(h)'
  <2>1. Sees(h) /\ Holds(h)
    BY Zenon
    DEF IInv, DeviceSeesRequests, BuffersHeldWhileInFlight, Sees, Shows, Holds
  <2>2. h \in Chain(h) /\ Chain(h) \cap Unused = {} /\ Chain(h) \subseteq Desc
    BY <1>3, SharedFacts
  <2>3. \A d \in Chain(h) : descriptor_table'[d] = descriptor_table[d]
    BY <2>2
  <2>4. Chain(h)' = Chain(h) /\ completion'[h] = completion[h]
    OBVIOUS
  <2>5. pending'[completion[h]] = pending[completion[h]] /\ dma_mapped' = dma_mapped
    OBVIOUS
  <2> QED
    BY <2>1, <2>2, <2>3, <2>4, <2>5, RequestFrame, Zenon
<1>5. DeviceSeesRequests'
  BY <1>4, Zenon DEF DeviceSeesRequests, Sees, Shows
<1>6. BuffersHeldWhileInFlight'
  <2>1. dma_mapped' \subseteq dma_cmd_used' \ Unused'
    BY DEF IInv, BuffersHeldWhileInFlight
  <2> QED
    BY <1>4, <2>1, Zenon DEF BuffersHeldWhileInFlight, Holds
<1> QED
  BY <1>1, <1>2, <1>5, <1>6, SMTT(60) DEF IInv

(* The device still sees the requests that were in flight.                 *)
StillServed == \A h \in in_flight : Sees(h)' /\ Holds(h)'

(* A submission that succeeds with the k descriptors p, D of which hold    *)
(* the buffers; direct or indirect.                                        *)
Publishes(r, shape, k, p, D) ==
  /\ r \in Requests /\ shape \in Nat \X Nat /\ shape # Idle
  /\ pending[r] = Idle
  /\ k \in 1 .. num_unused_descriptors
  /\ IsPrefix(next_desc, first_unused_descriptor_index, p, k)
  /\ next_desc' = Linked(next_desc, p, k)
  /\ first_unused_descriptor_index' = next_desc[p[k]]
  /\ num_unused_descriptors' = num_unused_descriptors - k
  /\ completion' = [completion EXCEPT ![p[1]] = r]
  /\ in_flight' = in_flight \cup {p[1]}
  /\ pending' = [pending EXCEPT ![r] = shape]
  /\ UNCHANGED indirect_desc_per_request
  /\ DOMAIN descriptor_table' = Desc
  /\ SameBut(Elements(p), descriptor_table, descriptor_table')
  /\ D \subseteq Elements(p)
  /\ dma_cmd_used' = dma_cmd_used \cup D /\ dma_mapped' = dma_mapped \cup D

(* What it leaves behind, the new request aside.                           *)
LEMMA Published ==
  ASSUME IInv, NEW r, NEW shape, NEW k, NEW p, NEW D, Publishes(r, shape, k, p, D)
  PROVE  /\ Types' /\ Shared' /\ OneChainPerRequest'
         /\ StillServed
         /\ dma_mapped' \subseteq dma_cmd_used' \ Unused'
         /\ Chain(p[1])' = Elements(p) /\ IsList(next_desc', p[1], p, k)
         /\ completion'[p[1]] = r /\ pending'[r] = shape
<1> USE DEF Publishes
<1> DEFINE first == first_unused_descriptor_index
<1>1. Shared /\ Types
  BY DEF IInv
<1>2. SharedOut(next_desc, first, num_unused_descriptors, in_flight)
  BY <1>1 DEF Shared
<1>3. Shared'
  BY <1>2, Publishing, Zenon DEF Shared
<1>4. /\ IsList(next_desc', p[1], p, k) /\ Reach(next_desc', p[1]) = Elements(p)
      /\ Elements(p) \subseteq Reach(next_desc, first)
      /\ Reach(next_desc', next_desc[p[k]]) = Reach(next_desc, first) \ Elements(p)
      /\ \A h \in in_flight : Reach(next_desc', h) = Reach(next_desc, h)
  BY ONLY <1>2, k \in 1 .. num_unused_descriptors, IsPrefix(next_desc, first, p, k),
     next_desc' = Linked(next_desc, p, k), PrefixTaken, SMTT(60)
<1>5. /\ Unused' = Unused \ Elements(p) /\ Elements(p) \subseteq Unused
      /\ Chain(p[1])' = Elements(p) /\ \A h \in in_flight : Chain(h)' = Chain(h)
  BY <1>4, SMTT(60) DEF Unused, Chain
<1>6. /\ num_unused_descriptors \in Nat /\ in_flight \subseteq Desc
      /\ \A h \in in_flight : h \in Chain(h)
      /\ \A h \in in_flight : Chain(h) \cap Unused = {}
      /\ \A h \in in_flight : Chain(h) \subseteq Desc
  BY <1>1, SharedFacts, SMTT(60)
<1>7. p[1] \in Elements(p) /\ p[1] \in Desc /\ p[1] \notin in_flight
  <2>1. DOMAIN p = 1 .. k /\ 1 \in 1 .. k /\ p[1] \in Desc
    BY <1>6, SMTT(60) DEF IsPrefix
  <2>2. p[1] \in Elements(p)
    BY <2>1, SMTT(60) DEF Elements
  <2> QED
    BY <1>5, <1>6, <2>1, <2>2, SMTT(60)
<1>8. completion'[p[1]] = r /\ \A h \in in_flight : completion'[h] = completion[h]
  BY <1>1, <1>6, <1>7, SMTT(60) DEF Types
<1>9. \A h \in in_flight : completion[h] \in Requests /\ pending[completion[h]] # Idle
  BY DEF IInv, OneChainPerRequest
<1>10. /\ pending'[r] = shape
       /\ \A h \in in_flight : pending'[completion[h]] = pending[completion[h]]
  BY <1>1, <1>9, SMTT(60) DEF Types
<1>11. Types'
  BY <1>1, SMTT(60) DEF Types
<1>12. OneChainPerRequest'
  <2>1. \A g, h \in in_flight' : completion'[g] = completion'[h] => g = h
    BY <1>8, <1>9, SMTT(60) DEF IInv, OneChainPerRequest
  <2>2. {completion'[h] : h \in in_flight'} = {completion[h] : h \in in_flight} \cup {r}
    BY <1>8, SMTT(60)
  <2>3. {q \in Requests : pending'[q] # Idle} = {q \in Requests : pending[q] # Idle} \cup {r}
    BY <1>1 DEF Types
  <2> QED
    BY <2>1, <2>2, <2>3, SMTT(60) DEF IInv, OneChainPerRequest
<1>13. ASSUME NEW h \in in_flight PROVE Sees(h)' /\ Holds(h)'
  <2>1. Sees(h) /\ Holds(h)
    BY ZenonT(60)
    DEF IInv, DeviceSeesRequests, BuffersHeldWhileInFlight, Sees, Shows, Holds
  <2>2. h \in Chain(h) /\ Chain(h) \cap Elements(p) = {} /\ Chain(h) \subseteq Desc
    BY <1>5, <1>6, SMTT(60)
  <2>3. \A d \in Chain(h) : descriptor_table'[d] = descriptor_table[d]
    BY <2>2, SMTT(60) DEF SameBut
  <2>4. Chain(h)' = Chain(h) /\ completion'[h] = completion[h]
    BY <1>5, <1>8, SMTT(60)
  <2>5. pending'[completion[h]] = pending[completion[h]] /\ dma_mapped \subseteq dma_mapped'
    BY <1>10, SMTT(60)
  <2> QED
    BY <2>1, <2>2, <2>3, <2>4, <2>5, RequestFrame, Zenon
<1>14. dma_mapped' \subseteq dma_cmd_used' \ Unused'
  BY <1>5 DEF IInv, BuffersHeldWhileInFlight
<1> QED
  BY <1>3, <1>4, <1>5, <1>8, <1>10, <1>11, <1>12, <1>13, <1>14, ZenonT(60) DEF StillServed

(* A new chain completes the invariant if the device sees it and its       *)
(* buffers are held.                                                       *)
LEMMA AcceptedHead ==
  ASSUME NEW head, in_flight' = in_flight \cup {head},
         Types', Shared', OneChainPerRequest',
         StillServed,
         dma_mapped' \subseteq dma_cmd_used' \ Unused',
         Sees(head)', Holds(head)'
  PROVE  IInv'
<1>1. \A h \in in_flight' : Sees(h)' /\ Holds(h)'
  BY DEF StillServed
<1>2. DeviceSeesRequests'
  BY <1>1, Zenon DEF DeviceSeesRequests, Sees, Shows
<1>3. BuffersHeldWhileInFlight'
  BY <1>1, ZenonT(60) DEF BuffersHeldWhileInFlight, Holds
<1> QED
  BY <1>2, <1>3 DEF IInv

InPosition(table, p, k) == \A i \in 1 .. k : table[p[i]].segs[1].position = i

(* Direct: the segments are filled in along the prefix, in order.          *)
LEMMA FilledShows ==
  ASSUME NEW r, NEW shape, NEW k \in Nat \ {0}, k = shape[1] + shape[2],
         NEW p, NEW next, IsList(next, p[1], p, k),
         NEW table, table = FilledDirect(r, shape, p, k)
  PROVE  /\ Shows(table, Segments(r, shape), p[1], Elements(p))
         /\ InPosition(table, p, k)
<1> DEFINE segs == Segments(r, shape)
<1>0. p \in [1 .. k -> Desc] /\ \A i, j \in 1 .. k : p[i] = p[j] => i = j
  <2>1. k \in Nat
    OBVIOUS
  <2>2. \A i, j \in 1 .. k : p[i] = p[j] => i = j
    BY ONLY IsList(next, p[1], p, k), <2>1, ListInjective
  <2> QED
    BY <2>2 DEF IsList
<1>1. DOMAIN segs = 1 .. k /\ \A i \in 1 .. k : segs[i] = Segment(r, shape, i)
  BY DEF Segments
<1>2. ASSUME NEW i \in 1 .. k
      PROVE  table[p[i]] = [segs |-> <<Segment(r, shape, i)>>,
                            next |-> IF i = k THEN NoDesc ELSE p[i + 1]]
  <2>1. (CHOOSE j \in 1 .. k : p[j] = p[i]) = i
    BY <1>0
  <2>2. p[i] \in Desc
    BY <1>0
  <2> QED
    BY <2>1, <2>2, Zenon DEF FilledDirect
<1> HIDE DEF segs
<1>3. \A i \in 1 .. k : i = k <=> i + 1 \notin 1 .. k
  BY SMTT(60)
<1>4. \A i \in DOMAIN segs : table[p[i]] =
        [segs |-> <<segs[i]>>, next |-> IF i + 1 \in DOMAIN segs THEN p[i + 1] ELSE NoDesc]
  BY <1>1, <1>2, <1>3
<1>5. p \in [DOMAIN segs -> Desc]
  BY <1>0, <1>1, SMTT(60)
<1>6. Shows(table, segs, p[1], Elements(p))
  BY <1>4, <1>5, SMTT(60) DEF Shows
<1>7. ASSUME NEW i \in 1 .. k PROVE table[p[i]].segs[1].position = i
  <2> DEFINE after == IF i = k THEN NoDesc ELSE p[i + 1]
  <2>0. table[p[i]] = [segs |-> <<Segment(r, shape, i)>>, next |-> after]
    BY <1>2, SMTT(60)
  <2> HIDE DEF after
  <2>1. table[p[i]].segs = <<Segment(r, shape, i)>>
    BY <2>0
  <2>2. table[p[i]].segs[1] = Segment(r, shape, i)
    BY <2>1
  <2> QED
    BY <2>2, SMTT(60) DEF Segment
<1> QED
  BY <1>6, <1>7 DEF segs, InPosition

(* A shape that is not refused asks for something.                         *)
LEMMA ShapeFacts ==
  ASSUME NEW shape \in Nat \X Nat, MinDescsRequired(shape) # 0
  PROVE  shape # Idle /\ shape[1] + shape[2] \in Nat \ {0}
BY SMTT(60) DEF MinDescsRequired, Idle

(* A direct submission that succeeds.                                      *)
LEMMA AcceptDirectPreserves ==
  ASSUME IInv, NEW r \in Requests, NEW shape \in Nat \X Nat,
         ~Indirect, pending[r] = Idle, AcceptDirect(r, shape),
         UNCHANGED indirect_desc_per_request
  PROVE  IInv'
<1> DEFINE k == shape[1] + shape[2]
<1>0. MinDescsRequired(shape) # 0
  BY DEF AcceptDirect, RejectedDirect
<1>1. shape # Idle /\ k \in Nat \ {0} /\ shape[1] \in Nat /\ shape[2] \in Nat
  BY <1>0, ShapeFacts
<1>2. Shared /\ num_unused_descriptors \in Nat
  BY SharedFacts DEF IInv
<1>3. k \in 1 .. num_unused_descriptors
  <2>1. shape[2] <= num_unused_descriptors - shape[1]
    BY DEF AcceptDirect, MaxWritable
  <2> QED
    BY <1>1, <1>2, <2>1
<1>4. PICK p \in [1 .. k -> Desc] :
        /\ IsUnusedPrefix(p, k)
        /\ next_desc' = Linked(next_desc, p, k)
        /\ first_unused_descriptor_index' = next_desc[p[k]]
        /\ num_unused_descriptors' = num_unused_descriptors - k
        /\ completion' = CompletionSet(r, shape, p[1])
        /\ dma_cmd_used' = dma_cmd_used \cup Readable(shape, p) \cup Writable(shape, p)
        /\ dma_mapped' = dma_mapped \cup Readable(shape, p) \cup Writable(shape, p)
        /\ descriptor_table' = FilledDirect(r, shape, p, k)
        /\ in_flight' = in_flight \cup {p[1]}
  BY Zenon DEF AcceptDirect
<1>5. pending' = [pending EXCEPT ![r] = shape]
  BY DEF AcceptDirect
<1> HIDE DEF k
<1> DEFINE D == Readable(shape, p) \cup Writable(shape, p)
<1>6. DOMAIN p = 1 .. k /\ 1 \in 1 .. k
  BY <1>1
<1>7. D \in SUBSET Elements(p)
  BY <1>1, <1>6 DEF Readable, Writable, Elements, k
<1>8. dma_cmd_used' = dma_cmd_used \cup D /\ dma_mapped' = dma_mapped \cup D
  BY <1>4
<1>9. /\ DOMAIN descriptor_table' = Desc
      /\ SameBut(Elements(p), descriptor_table, descriptor_table')
  BY <1>4, <1>6 DEF FilledDirect, Elements, SameBut
<1>10. completion' = [completion EXCEPT ![p[1]] = r]
  BY <1>4, SMTT(60) DEF CompletionSet
<1>11. IsPrefix(next_desc, first_unused_descriptor_index, p, k)
  BY <1>4 DEF IsPrefix, IsUnusedPrefix
<1> HIDE DEF D
<1>12. /\ Types' /\ Shared' /\ OneChainPerRequest'
       /\ StillServed
       /\ dma_mapped' \subseteq dma_cmd_used' \ Unused'
       /\ Chain(p[1])' = Elements(p) /\ IsList(next_desc', p[1], p, k)
       /\ completion'[p[1]] = r /\ pending'[r] = shape
  <2>1. Publishes(r, shape, k, p, D)
    BY <1>1, <1>3, <1>4, <1>5, <1>7, <1>8, <1>9, <1>10, <1>11, ZenonT(60) DEF Publishes
  <2> QED
    BY ONLY IInv, <2>1, Published, ZenonT(60)
<1>17. \A i, j \in 1 .. k : p[i] = p[j] => i = j
  <2>1. k \in Nat
    BY <1>1
  <2>2. PICK next, h : IsList(next, h, p, k)
    BY ONLY <1>12, Zenon
  <2> QED
    BY ONLY <2>1, <2>2, ListInjective
<1>13. /\ Shows(descriptor_table', Segments(r, shape), p[1], Elements(p))
       /\ InPosition(descriptor_table', p, k)
  <2>1. k = shape[1] + shape[2]
    BY DEF k
  <2> QED
    BY ONLY <1>1, <1>4, <1>12, <2>1, FilledShows, Zenon
<1>14. ~Indirect'
  BY DEF Indirect
<1>15. Sees(p[1])'
  BY <1>12, <1>13, <1>14, Zenon DEF Sees
<1>16. Holds(p[1])'
  <2>1. p[1] \in dma_mapped'
    <3>1. CASE shape[1] > 0
      BY <1>8, <3>1 DEF D, Readable
    <3>2. CASE shape[1] = 0
      BY <1>1, <1>8, <3>2, SMTT(60) DEF D, Writable, k
    <3> QED
      BY <1>1, <3>1, <3>2
  <2>2. ASSUME shape[1] > 0, shape[2] > 0
        PROVE  \E d \in Chain(p[1])' \ {p[1]} : d \in dma_mapped' /\
                 descriptor_table'[d].segs[1].position = shape[1] + 1
    <3>1. shape[1] + 1 \in 1 .. k /\ shape[1] + 1 # 1
      BY <1>1, <2>2 DEF k
    <3>2. p[shape[1] + 1] # p[1] /\ p[shape[1] + 1] \in Elements(p)
      BY <1>6, <1>17, <3>1 DEF Elements
    <3>3. p[shape[1] + 1] \in dma_mapped'
      BY <1>8, <2>2, SMTT(60) DEF D, Writable
    <3>4. descriptor_table'[p[shape[1] + 1]].segs[1].position = shape[1] + 1
      BY <1>13, <3>1, SMTT(60) DEF InPosition
    <3> QED
      BY <1>12, <3>2, <3>3, <3>4
  <2> QED
    BY <1>12, <2>1, <2>2, Zenon DEF Holds
<1>18. in_flight' = in_flight \cup {p[1]}
  BY ONLY <1>4
<1> QED
  BY ONLY <1>12, <1>15, <1>16, <1>18, AcceptedHead, ZenonT(60)

(* An indirect submission that succeeds: a chain of one descriptor.        *)
LEMMA AcceptIndirectPreserves ==
  ASSUME IInv, NEW r \in Requests, NEW shape \in Nat \X Nat,
         Indirect, pending[r] = Idle, AcceptIndirect(r, shape),
         UNCHANGED indirect_desc_per_request
  PROVE  IInv'
<1>0. PICK d : d = first_unused_descriptor_index
  OBVIOUS
<1> DEFINE p == <<d>>
<1>1. shape # Idle
  BY ShapeFacts DEF AcceptIndirect, RejectedIndirect
<1>2. Shared
  BY DEF IInv
<1>3. 1 \in 1 .. num_unused_descriptors /\ d \in Desc
  BY <1>0, <1>2, SharedFacts DEF AcceptIndirect, RejectedIndirect
<1>4. IsPrefix(next_desc, first_unused_descriptor_index, p, 1) /\ p[1] = d /\ Elements(p) = {d}
  BY <1>0, <1>3, SMTT(60) DEF IsPrefix, Elements
<1>5. /\ DOMAIN descriptor_table' = Desc
      /\ \A e \in Desc \ {d} : descriptor_table'[e] = descriptor_table[e]
      /\ descriptor_table'[d] = [segs |-> Segments(r, shape), next |-> NoDesc]
  BY <1>0, <1>3 DEF AcceptIndirect, FilledIndirect, IInv, Types
<1>6. /\ next_desc' = Linked(next_desc, p, 1)
      /\ first_unused_descriptor_index' = next_desc[d]
      /\ num_unused_descriptors' = num_unused_descriptors - 1
      /\ completion' = [completion EXCEPT ![d] = r]
      /\ dma_cmd_used' = dma_cmd_used \cup {d} /\ dma_mapped' = dma_mapped \cup {d}
      /\ in_flight' = in_flight \cup {d} /\ pending' = [pending EXCEPT ![r] = shape]
  BY <1>0, SMTT(60) DEF AcceptIndirect, CompletionSet
<1>11. SameBut(Elements(p), descriptor_table, descriptor_table')
  BY <1>4, <1>5 DEF SameBut
<1>12. /\ first_unused_descriptor_index' = next_desc[p[1]]
       /\ completion' = [completion EXCEPT ![p[1]] = r]
       /\ in_flight' = in_flight \cup {p[1]} /\ {d} \in SUBSET Elements(p)
  BY <1>4, <1>6
<1> HIDE DEF p
<1>7. /\ Types' /\ Shared' /\ OneChainPerRequest'
      /\ StillServed
      /\ dma_mapped' \subseteq dma_cmd_used' \ Unused'
      /\ completion'[p[1]] = r /\ pending'[r] = shape
  <2>1. Publishes(r, shape, 1, p, {d})
    BY <1>1, <1>3, <1>4, <1>5, <1>6, <1>11, <1>12, Zenon DEF Publishes
  <2> QED
    BY ONLY IInv, <2>1, Published, ZenonT(60)
<1>8. Indirect'
  BY DEF Indirect
<1>9. Sees(d)'
  BY <1>4, <1>5, <1>7, <1>8, ZenonT(60) DEF Sees
<1>10. Holds(d)'
  BY <1>6, <1>8, SMTT(60) DEF Holds
<1> QED
  BY <1>6, <1>7, <1>9, <1>10, AcceptedHead

(* The step of a submission that fails, as the caller and the other        *)
(* requests see it.                                                        *)
GivesBack ==
  /\ Unused' = Unused
  /\ UNCHANGED <<num_unused_descriptors, in_flight, pending>>

(* A failed submission that leaves the links alone.                        *)
LEMMA LinksUntouched ==
  ASSUME IInv, UNCHANGED <<listVars, in_flight, pending, dma_mapped, descriptor_table,
                           indirect_desc_per_request>>,
         DOMAIN completion' = Desc, \A h \in in_flight : completion'[h] = completion[h],
         dma_cmd_used \subseteq dma_cmd_used'
  PROVE  IInv' /\ GivesBack
<1>1. /\ Shared' /\ Unused' = Unused /\ \A h \in in_flight : Chain(h)' = Chain(h)
      /\ UNCHANGED num_unused_descriptors
  BY Zenon DEF IInv, Shared, Unused, Chain, listVars
<1>2. dma_mapped \subseteq dma_cmd_used'
  BY SMTT(60) DEF IInv, BuffersHeldWhileInFlight
<1>3. DOMAIN descriptor_table' = Desc
  BY SMTT(60) DEF IInv, Types
<1>4. IInv'
  BY <1>1, <1>2, <1>3, NothingPublished
<1> QED
  BY <1>1, <1>4, SMTT(60) DEF GivesBack

(* The early returns of submitBuffersToVirtqueueDirect.                    *)
LEMMA RejectDirectPreserves ==
  ASSUME IInv, NEW r, NEW shape, RejectDirect(r, shape),
         UNCHANGED indirect_desc_per_request
  PROVE  IInv' /\ GivesBack
<1>1. /\ UNCHANGED <<listVars, in_flight, pending, dma_mapped, descriptor_table>>
      /\ dma_cmd_used \subseteq dma_cmd_used' /\ completion' = completion
  BY DEF RejectDirect, dmaVars
<1>2. DOMAIN completion' = Desc
  BY <1>1 DEF IInv, Types
<1> QED
  BY <1>1, <1>2, LinksUntouched

(* A readable buffer that cannot be prepared: only the unused descriptor   *)
(* that was taken and put back is written to.                              *)
LEMMA FailPrepareReadablePreserves ==
  ASSUME IInv, NEW r, NEW shape \in Nat \X Nat, FailPrepareReadable(r, shape),
         UNCHANGED indirect_desc_per_request
  PROVE  IInv' /\ GivesBack
<1> DEFINE d == first_unused_descriptor_index
<1>1. /\ UNCHANGED <<listVars, in_flight, pending, dma_mapped, descriptor_table>>
      /\ dma_cmd_used \subseteq dma_cmd_used' /\ completion' = [completion EXCEPT ![d] = r]
  BY DEF FailPrepareReadable, CompletionSet
<1>2. DOMAIN completion' = Desc
  BY <1>1 DEF IInv, Types
<1>3. d \notin in_flight
  <2>1. num_unused_descriptors \in Nat /\ Shared
    BY SharedFacts DEF IInv
  <2>2. num_unused_descriptors > 0
    BY <2>1 DEF FailPrepareReadable, RejectedDirect, MinDescsRequired
  <2> QED
    BY <2>1, <2>2, SharedFacts
<1>4. \A h \in in_flight : completion'[h] = completion[h]
  <2>1. in_flight \subseteq Desc
    BY SharedFacts DEF IInv
  <2> QED
    BY <1>1, <1>3, <2>1 DEF IInv, Types
<1> QED
  BY <1>1, <1>2, <1>4, LinksUntouched

(* RejectIndirect gives its descriptor back when it has taken none.        *)
LEMMA RejectIndirectPreserves ==
  ASSUME IInv, CleanedUpCases, NEW r, NEW shape \in RequestShapes, Indirect,
         RejectIndirect(r, shape), UNCHANGED indirect_desc_per_request
  PROVE  IInv' /\ GivesBack
<1>1. MinDescsRequired(shape) \in 1 .. indirect_desc_per_request
  BY DEF IInv, Types, CleanedUpCases, Indirect
<1>2. indirect_desc_per_request \in Nat
  BY TableSizesAssumption DEF IInv, Types
<1>3. first_unused_descriptor_index = NoDesc
  BY <1>1, <1>2 DEF RejectIndirect, RejectedIndirect
<1>4. /\ UNCHANGED <<listVars, in_flight, pending, dma_mapped, descriptor_table>>
      /\ dma_cmd_used \subseteq dma_cmd_used' /\ completion' = completion
  BY <1>3 DEF RejectIndirect, dmaVars
<1>5. DOMAIN completion' = Desc
  BY <1>4 DEF IInv, Types
<1> QED
  BY <1>4, <1>5, LinksUntouched

(* An indirect submission that fails puts its descriptor back.             *)
LEMMA FailIndirectPreserves ==
  ASSUME IInv, NEW r, NEW shape, FailIndirect(r, shape),
         UNCHANGED indirect_desc_per_request
  PROVE  IInv' /\ GivesBack
<1>1. /\ UNCHANGED <<listVars, in_flight, pending, dma_mapped, descriptor_table>>
      /\ dma_cmd_used \subseteq dma_cmd_used' /\ completion' = completion
  BY DEF FailIndirect
<1>2. DOMAIN completion' = Desc
  BY <1>1 DEF IInv, Types
<1> QED
  BY <1>1, <1>2, LinksUntouched

(* When genIOVMSegments fails after some segments, or runs out of          *)
(* descriptors, each descriptor reserved has its segment.                  *)
AllEmitted(f, max, before, writable) ==
  /\ f.emitted = f.reserved /\ f.reserved \in before + 1 .. before + max
  /\ f.writable = writable /\ f.prepared = TRUE

(* The failures of one buffer.                                             *)
LEMMA GenFacts ==
  ASSUME DMAFaults \subseteq {PrepareReadable, GenAfterSome, PrepareTable},
         NEW segs \in Nat, NEW max \in Nat \ {0}, NEW before \in Nat, NEW writable,
         NEW f \in GenFailures(segs, max, before, writable)
  PROVE  AllEmitted(f, max, before, writable)
<1>1. GenBeforeAny \notin DMAFaults /\ PrepareWritable \notin DMAFaults
  BY Zenon DEF PrepareReadable, PrepareWritable, GenAfterSome, GenBeforeAny, PrepareTable
<1>2. PICK k \in 1 .. max : f = [reserved |-> before + k, emitted |-> before + k,
                                 writable |-> writable, prepared |-> TRUE]
  <2>1. CASE segs > max /\ f = [reserved |-> before + max, emitted |-> before + max,
                                writable |-> writable, prepared |-> TRUE]
    <3>1. max \in 1 .. max
      OBVIOUS
    <3> QED
      BY <2>1, <3>1, Zenon
  <2>2. CASE \E k \in {j \in 1 .. segs : j <= max} :
               f = [reserved |-> before + k, emitted |-> before + k,
                    writable |-> writable, prepared |-> TRUE]
    <3>1. {j \in 1 .. segs : j <= max} \subseteq 1 .. max
      OBVIOUS
    <3> QED
      BY <2>2, <3>1, Zenon
  <2> QED
    BY <1>1, <2>1, <2>2, Zenon DEF GenFailures
<1> QED
  BY <1>2 DEF AllEmitted

(* The failures of a direct submission, with either buffer.                *)
LEMMA FailureFacts ==
  ASSUME CleanedUpCases, NEW shape \in Nat \X Nat, num_unused_descriptors \in Nat,
         ~RejectedDirect(shape), NEW f \in DirectFailures(shape)
  PROVE  /\ f.emitted = f.reserved /\ f.reserved \in 1 .. num_unused_descriptors
         /\ \/ f.writable = FALSE
            \/ /\ f.writable = TRUE /\ f.prepared = TRUE
               /\ shape[1] + 1 \in 1 .. f.reserved
<1>1. DMAFaults \subseteq {PrepareReadable, GenAfterSome, PrepareTable}
  BY DEF CleanedUpCases
<1>2. shape[1] \in Nat /\ shape[2] \in Nat
  OBVIOUS
<1>3. CASE shape[1] > 0 /\ f \in GenFailures(shape[1], MaxReadable(shape), 0, FALSE)
  <2>1. MaxReadable(shape) \in Nat \ {0} /\ MaxReadable(shape) <= num_unused_descriptors
    BY <1>2, <1>3 DEF MaxReadable, RejectedDirect, MinDescsRequired
  <2>2. /\ f.emitted = f.reserved /\ f.reserved \in 0 + 1 .. 0 + MaxReadable(shape)
        /\ f.writable = FALSE
    <3>1. AllEmitted(f, MaxReadable(shape), 0, FALSE)
      BY ONLY <1>1, <1>2, <1>3, <2>1, 0 \in Nat, GenFacts, Zenon
    <3> QED
      BY <3>1, Zenon DEF AllEmitted
  <2> QED
    BY <2>1, <2>2, SMTT(60)
<1>4. CASE /\ shape[2] > 0 /\ shape[1] <= MaxReadable(shape)
           /\ f \in GenFailures(shape[2], MaxWritable(shape), shape[1], TRUE)
  <2>1. /\ MaxWritable(shape) \in Nat \ {0}
        /\ shape[1] + MaxWritable(shape) = num_unused_descriptors
    BY <1>2, <1>4 DEF MaxReadable, MaxWritable
  <2>2. /\ f.emitted = f.reserved
        /\ f.reserved \in shape[1] + 1 .. shape[1] + MaxWritable(shape)
        /\ f.writable = TRUE /\ f.prepared = TRUE
    <3>1. AllEmitted(f, MaxWritable(shape), shape[1], TRUE)
      BY ONLY <1>1, <1>2, <1>4, <2>1, GenFacts, Zenon
    <3> QED
      BY <3>1, Zenon DEF AllEmitted
  <2> QED
    BY <1>2, <2>1, <2>2, SMTT(60)
<1> QED
  BY <1>3, <1>4, Zenon DEF DirectFailures

(* The cleanup loops of submitBuffersToVirtqueueDirect: the descriptors    *)
(* are back, and the readable buffer, if it was held, is not any more.     *)
LEMMA FailDirectPreserves ==
  ASSUME IInv, CleanedUpCases, NEW r, NEW shape \in Nat \X Nat, FailDirect(r, shape),
         UNCHANGED indirect_desc_per_request
  PROVE  IInv' /\ GivesBack
<1> DEFINE first == first_unused_descriptor_index
           num == num_unused_descriptors
<1>1. Types /\ Shared /\ num \in Nat
  BY SharedFacts DEF IInv
<1>2. PICK f \in DirectFailures(shape) :
        \E p \in [1 .. f.reserved -> Desc] :
          /\ IsUnusedPrefix(p, f.reserved)
          /\ \E n \in 1 .. NumEntries : \E c \in [1 .. n -> Desc] :
               CleanUpDirect(r, shape, f, p, c, n)
  BY Zenon DEF FailDirect
<1>3. PICK p \in [1 .. f.reserved -> Desc] :
        /\ IsUnusedPrefix(p, f.reserved)
        /\ \E n \in 1 .. NumEntries : \E c \in [1 .. n -> Desc] :
             CleanUpDirect(r, shape, f, p, c, n)
  BY <1>2, Zenon
<1>4. PICK n \in 1 .. NumEntries : \E c \in [1 .. n -> Desc] : CleanUpDirect(r, shape, f, p, c, n)
  BY <1>3, Zenon
<1>19. PICK c \in [1 .. n -> Desc] : CleanUpDirect(r, shape, f, p, c, n)
  BY <1>4, Zenon
<1>5. /\ f.emitted = f.reserved /\ f.reserved \in 1 .. num
      /\ \/ f.writable = FALSE
         \/ f.writable = TRUE /\ f.prepared = TRUE /\ shape[1] + 1 \in 1 .. f.reserved
  <2>1. ~RejectedDirect(shape)
    BY DEF FailDirect
  <2> QED
    BY <1>1, <2>1, FailureFacts, Zenon
<1>20. PICK k : k = f.reserved
  OBVIOUS
<1>21. PICK linked : linked = Linked(next_desc, p, k)
  OBVIOUS
<1> DEFINE flagged == FlaggedAtFailure(shape, p, f)
           cleared == IF f.writable THEN flagged \cap Elements(c) ELSE {}
<1>6. /\ IsWalk(linked, p[1], c, n)
      /\ next_desc' = Returned(linked, next_desc[p[k]], c, n)
      /\ first_unused_descriptor_index' = c[n]
      /\ num_unused_descriptors' = num - k + n
      /\ completion' = [completion EXCEPT ![p[1]] = r]
      /\ dma_cmd_used' = flagged \ cleared
      /\ dma_mapped' = MappedAtFailure(shape, p, f) \ cleared
      /\ descriptor_table' = FilledDirect(r, shape, p, k)
  BY <1>5, <1>19, <1>20, <1>21, Zenon DEF CleanUpDirect, CompletionSet
<1>7. UNCHANGED <<in_flight, pending>>
  BY SMTT(60) DEF FailDirect
<1>8. IsPrefix(next_desc, first, p, k)
  BY <1>3, <1>20 DEF IsPrefix, IsUnusedPrefix
<1>9. SharedOut(next_desc, first, num, in_flight)
  BY <1>1 DEF Shared
<1>10. n \in Nat \ {0} /\ k \in 1 .. num
  BY <1>5, <1>20, NumEntriesAssumption
<1> HIDE DEF flagged, cleared
<1>11. /\ SharedOut(next_desc', c[n], num - k + n, in_flight)
       /\ num - k + n = num
       /\ \A i, j \in 1 .. k : p[i] = p[j] => i = j
       /\ Elements(c) = Elements(p)
       /\ Elements(p) \subseteq Reach(next_desc, first)
       /\ Reach(next_desc', c[n]) = Reach(next_desc, first)
       /\ \A h \in in_flight : Reach(next_desc', h) = Reach(next_desc, h)
  <2>1. CleansUp(next_desc, first, num, in_flight, k, p, linked, n, c, next_desc')
    BY <1>6, <1>8, <1>9, <1>10, <1>21 DEF CleansUp
  <2>2. CleanedUp(next_desc, first, num, in_flight, k, p, n, c, next_desc')
    BY ONLY <2>1, CleaningUp, Zenon
  <2> QED
    BY <2>2, Zenon DEF CleanedUp
<1>12. /\ Shared' /\ Unused' = Unused /\ \A h \in in_flight : Chain(h)' = Chain(h)
       /\ UNCHANGED num_unused_descriptors
  BY <1>6, <1>7, <1>11, SMTT(60) DEF Shared, Unused, Chain
<1>13. Elements(p) \subseteq Unused /\ p[1] \in Elements(p) /\ DOMAIN p = 1 .. k
  <2>1. DOMAIN p = 1 .. k /\ 1 \in 1 .. k
    BY <1>1, <1>8, <1>10 DEF IsPrefix
  <2> QED
    BY <1>11, <2>1, SMTT(60) DEF Unused, Elements
<1>14. /\ in_flight \subseteq Desc /\ in_flight \cap Elements(p) = {}
       /\ dma_mapped \subseteq dma_cmd_used /\ dma_mapped \cap Elements(p) = {}
  <2>1. in_flight \subseteq Desc /\ \A h \in in_flight : h \notin Unused
    BY <1>1, SharedFacts, SMTT(60)
  <2>2. dma_mapped \subseteq dma_cmd_used \ Unused
    BY SMTT(60) DEF IInv, BuffersHeldWhileInFlight
  <2> QED
    BY <1>13, <2>1, <2>2
<1>15. DOMAIN completion' = Desc /\ \A h \in in_flight : completion'[h] = completion[h]
  <2>1. DOMAIN completion = Desc
    BY <1>1 DEF Types
  <2>2. p[1] \notin in_flight
    BY ONLY <1>13, <1>14
  <2>3. completion' = [completion EXCEPT ![p[1]] = r]
    BY ONLY <1>6
  <2>4. in_flight \subseteq Desc
    BY ONLY <1>14, SMTT(60)
  <2> QED
    BY ONLY <2>1, <2>2, <2>3, <2>4, SMTT(60)
<1>16. /\ DOMAIN descriptor_table' = Desc
       /\ \A d \in Desc \ Unused : descriptor_table'[d] = descriptor_table[d]
  BY <1>6, <1>13 DEF FilledDirect, Elements
<1>17. dma_mapped' = dma_mapped /\ dma_mapped \subseteq dma_cmd_used'
  <2>1. CASE f.writable = FALSE
    <3>1. cleared = {} /\ flagged = dma_cmd_used \ {p[1]}
          /\ MappedAtFailure(shape, p, f) = dma_mapped
      BY <2>1, ZenonT(60) DEF cleared, flagged, FlaggedAtFailure, MappedAtFailure
    <3> QED
      BY <1>6, <1>13, <1>14, <3>1, SMTT(60)
  <2>2. CASE f.writable = TRUE /\ f.prepared = TRUE /\ shape[1] + 1 \in 1 .. k
    <3>1. /\ cleared = flagged \cap Elements(c)
          /\ flagged = (dma_cmd_used \cup Readable(shape, p)) \ {p[shape[1] + 1]}
          /\ MappedAtFailure(shape, p, f) = dma_mapped \cup Readable(shape, p)
      BY <2>2, Zenon DEF cleared, flagged, FlaggedAtFailure, MappedAtFailure
    <3>2. Readable(shape, p) \subseteq Elements(p) \ {p[shape[1] + 1]}
      <4>1. CASE shape[1] > 0
        <5>1. 1 \in 1 .. k /\ shape[1] + 1 # 1
          BY <1>1, <1>10, <4>1
        <5>2. p[1] # p[shape[1] + 1]
          BY <1>11, <2>2, <5>1
        <5> QED
          BY <1>13, <4>1, <5>2 DEF Readable
      <4>2. CASE ~(shape[1] > 0)
        BY <4>2 DEF Readable
      <4> QED
        BY <4>1, <4>2
    <3>3. p[shape[1] + 1] \in Elements(p)
      BY <1>13, <2>2, SMTT(60) DEF Elements
    <3>4. dma_mapped' = dma_mapped
      BY <1>6, <1>11, <1>14, <3>1, <3>2, ZenonT(60)
    <3>5. dma_cmd_used' = ((dma_cmd_used \cup Readable(shape, p)) \ {p[shape[1] + 1]})
                            \ Elements(p)
      BY ONLY <1>6, <1>11, <3>1, Zenon
    <3>6. dma_mapped \subseteq dma_cmd_used'
      BY ONLY <1>14, <3>3, <3>5
    <3> QED
      BY ONLY <3>4, <3>6
  <2> QED
    BY <1>5, <1>20, <2>1, <2>2, ZenonT(60)
<1>18. IInv'
  BY <1>7, <1>12, <1>15, <1>16, <1>17, NothingPublished, Zenon
<1> QED
  BY <1>7, <1>12, <1>18, SMTT(60) DEF GivesBack

-----------------------------------------------------------------------------
(* Completions *)

(* One turn of processCompletedRequestsInVirtqueue.                        *)
LEMMA CompletePreserves ==
  ASSUME IInv, NEW h \in in_flight, CompleteRequest(h)
  PROVE  IInv'
<1> DEFINE first == first_unused_descriptor_index
           num == num_unused_descriptors
           others == in_flight \ {h}
<1>1. Types /\ Shared /\ num \in Nat /\ in_flight \subseteq Desc
  BY SharedFacts DEF IInv
<1>0. PICK n \in 1 .. NumEntries : \E c \in [1 .. n -> Desc] :
        /\ IsWalk(next_desc, h, c, n)
        /\ next_desc' = Returned(next_desc, first, c, n)
        /\ first_unused_descriptor_index' = c[n]
        /\ num_unused_descriptors' = num + n
        /\ dma_cmd_used' = dma_cmd_used \ Elements(c)
        /\ dma_mapped' = dma_mapped \ Released(c)
  BY Zenon DEF CompleteRequest, CountReturned
<1>2. PICK c \in [1 .. n -> Desc] :
        /\ IsWalk(next_desc, h, c, n)
        /\ next_desc' = Returned(next_desc, first, c, n)
        /\ first_unused_descriptor_index' = c[n]
        /\ num_unused_descriptors' = num + n
        /\ dma_cmd_used' = dma_cmd_used \ Elements(c)
        /\ dma_mapped' = dma_mapped \ Released(c)
  BY <1>0, Zenon
<1>3. /\ in_flight' = others
      /\ pending' = [pending EXCEPT ![completion[h]] = Idle]
      /\ UNCHANGED <<indirect_desc_per_request, completion, descriptor_table>>
  BY DEF CompleteRequest
<1>4. SharedOut(next_desc, first, num, in_flight)
  BY <1>1 DEF Shared
<1>5. n \in Nat \ {0}
  BY NumEntriesAssumption
<1>6. /\ SharedOut(next_desc', c[n], num + n, in_flight \ {h})
      /\ Elements(c) = Reach(next_desc, h)
      /\ Reach(next_desc', c[n]) = Reach(next_desc, first) \cup Elements(c)
      /\ \A g \in in_flight \ {h} : Reach(next_desc', g) = Reach(next_desc, g)
  <2>1. Completes(next_desc, first, num, in_flight, h, n, c, next_desc')
    BY <1>2, <1>4, <1>5, SMTT(60) DEF Completes
  <2> QED
    <3>1. Completed(next_desc, first, num, in_flight, h, n, c, next_desc')
      BY ONLY <2>1, Completing, Zenon
    <3> QED
      BY <3>1, Zenon DEF Completed
<1>7. /\ Shared' /\ Elements(c) = Chain(h) /\ Unused' = Unused \cup Elements(c)
      /\ \A g \in others : Chain(g)' = Chain(g)
  BY <1>2, <1>3, <1>6 DEF Shared, Unused, Chain
<1>8. Types'
  BY <1>1, <1>3, Zenon DEF Types, Idle
<1>9. /\ \A g \in others : completion[g] # completion[h]
      /\ \A g \in in_flight : completion[g] \in Requests /\ pending[completion[g]] # Idle
  BY SMTT(60) DEF IInv, OneChainPerRequest
<1>10. \A g \in others : pending'[completion[g]] = pending[completion[g]]
  BY <1>1, <1>3, <1>9, SMTT(60) DEF Types
<1>11. OneChainPerRequest'
  <2>1. \A f, g \in in_flight' : completion'[f] = completion'[g] => f = g
    BY <1>3, SMTT(60) DEF IInv, OneChainPerRequest
  <2>2. {completion'[g] : g \in in_flight'} = {completion[g] : g \in in_flight} \ {completion[h]}
    BY <1>3, <1>9, SMTT(60)
  <2>3. {q \in Requests : pending'[q] # Idle} = {q \in Requests : pending[q] # Idle} \ {completion[h]}
    BY <1>1, <1>3, <1>9 DEF Types
  <2> QED
    BY <2>1, <2>2, <2>3, SMTT(60) DEF IInv, OneChainPerRequest
<1>12. ASSUME NEW g \in others PROVE Sees(g)' /\ Holds(g)'
  <2>1. Sees(g) /\ Holds(g)
    BY Zenon
    DEF IInv, DeviceSeesRequests, BuffersHeldWhileInFlight, Sees, Shows, Holds
  <2>2. g \in Chain(g) /\ Chain(g) \cap Elements(c) = {}
    <3>1. g \in Chain(g)
      BY <1>1, SharedFacts
    <3>2. Chain(g) \cap Chain(h) = {}
      BY <1>4 DEF SharedOut, Chain
    <3> QED
      BY <1>7, <3>1, <3>2
  <2>3. \A d \in Chain(g) : descriptor_table'[d] = descriptor_table[d]
    BY <1>3
  <2>4. Chain(g)' = Chain(g) /\ completion'[g] = completion[g]
    BY <1>3, <1>7
  <2>5. pending'[completion[g]] = pending[completion[g]]
    BY <1>10
  <2>6. \A d \in Chain(g) : d \in dma_mapped => d \in dma_mapped'
    BY <1>2, <2>2, SMTT(60) DEF Released
  <2> QED
    BY <1>3, <2>1, <2>2, <2>3, <2>4, <2>5, <2>6, RequestFrame, Zenon
<1>13. dma_mapped' \subseteq dma_cmd_used' \ Unused'
  BY <1>2, <1>7 DEF IInv, BuffersHeldWhileInFlight, Released
<1>14. DeviceSeesRequests'
  BY <1>3, <1>12, Zenon DEF DeviceSeesRequests, Sees, Shows
<1>15. BuffersHeldWhileInFlight'
  BY <1>3, <1>12, <1>13, Zenon DEF BuffersHeldWhileInFlight, Holds
<1> QED
  BY <1>7, <1>8, <1>11, <1>14, <1>15 DEF IInv

-----------------------------------------------------------------------------
(* Steps *)

(* setupVirtqueue puts all descriptors on the unused list.                 *)
LEMMA InitEstablishes == Init => IInv
<1> SUFFICES ASSUME Init PROVE IInv
  OBVIOUS
<1> DEFINE u == [i \in 1 .. NumEntries |-> i - 1]
<1>1. NumEntries \in Nat /\ NumEntries # 0
  BY NumEntriesAssumption
<1>2. next_desc \in Links
  BY <1>1 DEF Init, Links, Desc, NoDesc
<1>3. IsList(next_desc, 0, u, NumEntries)
  <2>1. u \in [1 .. NumEntries -> Desc] /\ u[1] = 0
    BY <1>1 DEF Desc
  <2>2. ASSUME NEW i \in 1 .. NumEntries
        PROVE  next_desc[u[i]] = IF i = NumEntries THEN NoDesc ELSE u[i + 1]
    <3>1. u[i] = i - 1 /\ i - 1 \in Desc /\ (i # NumEntries => u[i + 1] = i)
      BY <1>1 DEF Desc
    <3>2. next_desc[i - 1] = IF i - 1 = NumEntries - 1 THEN NoDesc ELSE (i - 1) + 1
      BY <3>1 DEF Init
    <3> QED
      BY <1>1, <3>1, <3>2
  <2> HIDE DEF u
  <2> QED
    BY <1>1, <2>1, <2>2 DEF IsList
<1>4. Reach(next_desc, 0) = Desc
  <2>1. Elements(u) = Desc
    <3>1. ASSUME NEW d \in Desc PROVE d \in Elements(u)
      <4>1. d + 1 \in 1 .. NumEntries /\ u[d + 1] = d
        BY <1>1 DEF Desc
      <4> QED
        BY <4>1 DEF Elements
    <3>2. Elements(u) \subseteq Desc
      BY <1>1 DEF Elements, Desc
    <3> QED
      BY <3>1, <3>2, Zenon
  <2>2. Reach(next_desc, 0) = Elements(u)
    <3> HIDE DEF u
    <3> QED
      BY ONLY <1>1, <1>2, <1>3, ListReach
  <2> QED
    BY <2>1, <2>2
<1>5. Shared
  <2> HIDE DEF u
  <2>1. SharedOut(next_desc, 0, NumEntries, {})
    BY <1>1, <1>2, <1>3, <1>4 DEF SharedOut
  <2> QED
    BY <2>1 DEF Init, Shared
<1>6. Types
  BY DEF Init, Types, Idle
<1>7. OneChainPerRequest
  BY SMTT(60) DEF Init, OneChainPerRequest
<1>8. DeviceSeesRequests
  BY DEF Init, DeviceSeesRequests
<1>9. BuffersHeldWhileInFlight
  BY DEF Init, BuffersHeldWhileInFlight
<1> QED
  BY <1>5, <1>6, <1>7, <1>8, <1>9 DEF IInv

(* The two outcomes of a submission, as the client sees them.              *)
Refused ==
  /\ GivesBack
  /\ result' \in {"Busy", "BadArgument", "Unsupported", "Error"}
  /\ result' = "Busy" => in_flight # {}

Accepted(r, shape) ==
  /\ pending[r] = Idle /\ shape # Idle
  /\ pending' = [pending EXCEPT ![r] = shape]
  /\ first_unused_descriptor_index \in Desc \ in_flight
  /\ in_flight' = in_flight \cup {first_unused_descriptor_index}
  /\ result' = "Success"

(* If no request is in flight, every descriptor is unused.                 *)
LEMMA SomeInFlight ==
  ASSUME Shared, num_unused_descriptors # NumEntries
  PROVE  in_flight # {}
<1> SUFFICES ASSUME in_flight = {} PROVE FALSE
  OBVIOUS
<1>1. Unused = Desc /\ Cardinality(Unused) = num_unused_descriptors
  <2>1. Unused \subseteq Desc /\ Cardinality(Unused) = num_unused_descriptors
    BY SharedFacts
  <2>2. Desc \subseteq Unused
    BY DEF Shared, SharedOut, Unused
  <2> QED
    BY <2>1, <2>2
<1>2. Cardinality(Desc) = NumEntries
  <2>1. 0 \in Int /\ NumEntries - 1 \in Int
        /\ (IF 0 > NumEntries - 1 THEN 0 ELSE NumEntries - 1 - 0 + 1) = NumEntries
    BY NumEntriesAssumption
  <2>2. Cardinality(0 .. NumEntries - 1)
          = IF 0 > NumEntries - 1 THEN 0 ELSE NumEntries - 1 - 0 + 1
    BY ONLY <2>1, FS_Interval
  <2> QED
    BY <2>1, <2>2 DEF Desc
<1> QED
  BY <1>1, <1>2

(* The head of the unused list is in no chain in flight.                   *)
LEMMA FirstIsFree ==
  ASSUME Shared, num_unused_descriptors # 0
  PROVE  first_unused_descriptor_index \in Desc \ in_flight
<1>1. num_unused_descriptors > 0
  BY SharedFacts
<1> QED
  BY <1>1, SharedFacts

(* submitBuffersToVirtqueueDirect as a whole.                              *)
LEMMA SubmitDirectStep ==
  ASSUME IInv, CleanedUpCases, NEW r \in Requests, NEW shape \in RequestShapes,
         SubmitDirect(r, shape)
  PROVE  IInv' /\ (Refused \/ Accepted(r, shape))
<1>0. shape \in Nat \X Nat
  BY ShapesAssumption
<1>1. ~Indirect /\ pending[r] = Idle /\ UNCHANGED indirect_desc_per_request
  BY DEF SubmitDirect
<1>2. CASE RejectDirect(r, shape)
  <2>1. IInv' /\ GivesBack
    BY <1>1, <1>2, RejectDirectPreserves
  <2>2. CASE result' = "Busy" /\ num_unused_descriptors # NumEntries
    BY <2>1, <2>2, SomeInFlight DEF Refused, IInv
  <2>3. CASE result' \in {"BadArgument", "Unsupported"}
    BY <2>1, <2>3, Zenon DEF Refused
  <2>4. \/ result' \in {"BadArgument", "Unsupported"}
        \/ /\ result' = "Busy" /\ ~(MinDescsRequired(shape) > NumEntries)
           /\ MinDescsRequired(shape) > num_unused_descriptors
    BY <1>2, Zenon DEF RejectDirect, RejectedDirect
  <2>5. /\ ~(MinDescsRequired(shape) > NumEntries)
        /\ MinDescsRequired(shape) > num_unused_descriptors
        => num_unused_descriptors # NumEntries
    OBVIOUS
  <2> QED
    BY <2>2, <2>3, <2>4, <2>5, Zenon
<1>3. CASE AcceptDirect(r, shape)
  <2>1. IInv'
    BY <1>0, <1>1, <1>3, AcceptDirectPreserves, SMTT(60)
  <2>2. shape # Idle
    BY <1>0, <1>3, ShapeFacts DEF AcceptDirect, RejectedDirect
  <2>3. in_flight' = in_flight \cup {first_unused_descriptor_index}
    BY <1>3, Zenon DEF AcceptDirect, IsUnusedPrefix
  <2>4. Shared /\ num_unused_descriptors # 0
    BY <1>3 DEF AcceptDirect, RejectedDirect, MinDescsRequired, IInv
  <2>5. first_unused_descriptor_index \in Desc \ in_flight
    BY <2>4, FirstIsFree
  <2>6. Accepted(r, shape)
    BY <1>1, <1>3, <2>2, <2>3, <2>5, Zenon DEF AcceptDirect, Accepted
  <2> QED
    BY <2>1, <2>6
<1>4. CASE FailPrepareReadable(r, shape)
  <2>1. IInv' /\ GivesBack
    BY <1>0, <1>1, <1>4, FailPrepareReadablePreserves
  <2>2. result' = "Error"
    BY <1>4, Zenon DEF FailPrepareReadable
  <2> QED
    BY <2>1, <2>2, Zenon DEF Refused
<1>5. CASE FailDirect(r, shape)
  <2>1. IInv' /\ GivesBack
    BY <1>0, <1>1, <1>5, FailDirectPreserves
  <2>2. result' = "Error"
    BY <1>5, Zenon DEF FailDirect
  <2> QED
    BY <2>1, <2>2, Zenon DEF Refused
<1> QED
  BY <1>2, <1>3, <1>4, <1>5, Zenon DEF SubmitDirect

(* submitBuffersToVirtqueueIndirect as a whole.                            *)
LEMMA SubmitIndirectStep ==
  ASSUME IInv, CleanedUpCases, NEW r \in Requests, NEW shape \in RequestShapes,
         SubmitIndirect(r, shape)
  PROVE  IInv' /\ (Refused \/ Accepted(r, shape))
<1>0. shape \in Nat \X Nat
  BY ShapesAssumption
<1>1. Indirect /\ pending[r] = Idle /\ UNCHANGED indirect_desc_per_request
  BY DEF SubmitIndirect
<1>2. CASE RejectIndirect(r, shape)
  <2>1. IInv' /\ GivesBack
    BY <1>1, <1>2, RejectIndirectPreserves
  <2>2. CASE first_unused_descriptor_index = NoDesc
    <3>1. num_unused_descriptors # NumEntries /\ Shared
      BY <2>2, SharedFacts, NumEntriesAssumption DEF IInv
    <3>2. in_flight # {}
      BY <3>1, SomeInFlight
    <3>3. result' = "Busy"
      BY <1>2, <2>2, Zenon DEF RejectIndirect
    <3> QED
      BY <2>1, <3>2, <3>3, Zenon DEF Refused
  <2>3. CASE first_unused_descriptor_index # NoDesc
    <3>1. result' \in {"BadArgument", "Unsupported"}
      BY <1>2, <2>3, Zenon DEF RejectIndirect
    <3> QED
      BY <2>1, <3>1, Zenon DEF Refused
  <2> QED
    BY <2>2, <2>3, Zenon
<1>3. CASE AcceptIndirect(r, shape)
  <2>1. IInv'
    BY <1>0, <1>1, <1>3, AcceptIndirectPreserves, SMTT(60)
  <2>2. shape # Idle
    BY <1>0, <1>3, ShapeFacts DEF AcceptIndirect, RejectedIndirect
  <2>3. Accepted(r, shape)
    <3>1. Shared /\ num_unused_descriptors # 0
      BY <1>3, SharedFacts, SMTT(60) DEF AcceptIndirect, RejectedIndirect, IInv
    <3>2. first_unused_descriptor_index \in Desc \ in_flight
      BY <3>1, FirstIsFree
    <3> QED
      BY <1>1, <1>3, <2>2, <3>2, Zenon DEF AcceptIndirect, Accepted
  <2> QED
    BY <2>1, <2>3
<1>4. CASE FailIndirect(r, shape)
  <2>1. IInv' /\ GivesBack
    BY <1>1, <1>4, FailIndirectPreserves
  <2>2. result' = "Error"
    BY <1>4, Zenon DEF FailIndirect
  <2> QED
    BY <2>1, <2>2, Zenon DEF Refused
<1> QED
  BY <1>2, <1>3, <1>4, Zenon DEF SubmitIndirect

(* Every handler preserves the invariant.                                  *)
LEMMA StepPreserves ==
  ASSUME IInv, CleanedUpCases, [Next]_vars
  PROVE  IInv'
<1>1. CASE UNCHANGED vars
  <2>1. /\ UNCHANGED <<indirect_desc_per_request, listVars, completion, dmaVars>>
        /\ UNCHANGED <<descriptor_table, in_flight, pending>>
    BY <1>1 DEF vars
  <2>2. UNCHANGED <<listVars, in_flight, pending, dma_mapped, descriptor_table,
                    indirect_desc_per_request>>
        /\ DOMAIN completion' = Desc /\ completion' = completion
        /\ dma_cmd_used \subseteq dma_cmd_used'
    BY <2>1 DEF dmaVars, IInv, Types
  <2> QED
    BY <2>2, LinksUntouched
<1>2. ASSUME NEW r \in Requests, NEW shape \in RequestShapes, SubmitDirect(r, shape)
      PROVE  IInv'
  BY <1>2, SubmitDirectStep
<1>3. ASSUME NEW r \in Requests, NEW shape \in RequestShapes, SubmitIndirect(r, shape)
      PROVE  IInv'
  BY <1>3, SubmitIndirectStep
<1>4. ASSUME NEW h \in in_flight, CompleteRequest(h) PROVE IInv'
  BY <1>4, CompletePreserves
<1> QED
  BY <1>1, <1>2, <1>3, <1>4, Zenon DEF Next

-----------------------------------------------------------------------------
(* Theorems *)

(* Every reachable state has its descriptors shared out between the unused *)
(* list and the chains of the requests in flight, and every request in     *)
(* flight is visible to the device and holds its buffers.                  *)
THEOREM Invariance ==
  ASSUME CleanedUpCases
  PROVE  Spec => []IInv
<1>1. IInv /\ [Next]_vars => IInv'
  BY StepPreserves
<1> QED
  BY <1>1, InitEstablishes, PTL DEF Spec

(* What IInv says of the lists is DescriptorsPartitioned.                  *)
LEMMA ListsPartition == IInv => DescriptorsPartitioned
<1> SUFFICES ASSUME IInv PROVE DescriptorsPartitioned
  OBVIOUS
<1>1. Shared
  BY DEF IInv
<1>2. /\ next_desc \in Links /\ num_unused_descriptors \in Nat /\ in_flight \subseteq Desc
      /\ \A h \in in_flight : Chain(h) \cap Unused = {}
      /\ Unused \subseteq Desc /\ \A h \in in_flight : Chain(h) \subseteq Desc
      /\ Cardinality(Unused) = num_unused_descriptors
  BY <1>1, SharedFacts
<1>3. ASSUME NEW h, NEW n \in Nat, NEW c, IsList(next_desc, h, c, n) PROVE Terminated(h)
  <2>1. CASE n = 0
    BY <1>3, <2>1 DEF IsList, Terminated
  <2>2. CASE n # 0
    <3>1. Reach(next_desc, h) = Elements(c)
      BY ONLY <1>2, <1>3, n \in Nat, ListReach
    <3>2. n \in 1 .. n /\ DOMAIN c = 1 .. n /\ next_desc[c[n]] = NoDesc
      BY <1>3, <2>2 DEF IsList
    <3>3. c[n] \in Chain(h)
      BY <3>1, <3>2 DEF Chain, Elements
    <3> QED
      BY <3>2, <3>3 DEF Terminated
  <2> QED
    BY <2>1, <2>2
<1>4. Terminated(first_unused_descriptor_index)
  BY <1>1, <1>2, <1>3 DEF Shared, SharedOut
<1>5. \A h \in in_flight : Terminated(h)
  <2> TAKE h \in in_flight
  <2>n. PICK n \in Nat \ {0} : \E c : IsList(next_desc, h, c, n)
    BY <1>1 DEF Shared, SharedOut
  <2>1. PICK c : IsList(next_desc, h, c, n)
    BY <2>n
  <2> QED
    BY <1>3, <2>1
<1>6. \A g, h \in in_flight : g # h => Chain(g) \cap Chain(h) = {}
  BY <1>1 DEF Shared, SharedOut, Chain
<1>7. Unused \cup UNION {Chain(h) : h \in in_flight} = Desc
  <2>1. ASSUME NEW d \in Desc PROVE d \in Unused \cup UNION {Chain(h) : h \in in_flight}
    BY <1>1 DEF Shared, SharedOut, Chain, Unused
  <2> QED
    BY <1>2, <2>1
<1> QED
  BY <1>2, <1>4, <1>5, <1>6, <1>7, Zenon DEF DescriptorsPartitioned

(* However submissions, failed submissions and completions follow each     *)
(* other, the unused list and the chains in flight end, do not meet, and   *)
(* cover the descriptor table; num_unused_descriptors counts the former.   *)
THEOREM DescriptorsAlwaysPartitioned ==
  ASSUME CleanedUpCases
  PROVE  Spec => []DescriptorsPartitioned
BY Invariance, ListsPartition, PTL

(* Each accepted request has one chain in flight, whose head carries its   *)
(* completion, until that is called.                                       *)
THEOREM AlwaysOneChainPerRequest ==
  ASSUME CleanedUpCases
  PROVE  Spec => []OneChainPerRequest
<1>1. IInv => OneChainPerRequest
  BY DEF IInv
<1> QED
  BY <1>1, Invariance, PTL

(* The device finds in the descriptor table the segments of every request  *)
(* in flight, in order, and nothing of earlier requests.                   *)
THEOREM DeviceAlwaysSeesRequests ==
  ASSUME CleanedUpCases
  PROVE  Spec => []DeviceSeesRequests
<1>1. IInv => DeviceSeesRequests
  BY DEF IInv
<1> QED
  BY <1>1, Invariance, PTL

(* The buffers of a request in flight stay mapped for DMA, and those of    *)
(* finished and failed requests do not.                                    *)
THEOREM BuffersAlwaysHeld ==
  ASSUME CleanedUpCases
  PROVE  Spec => []BuffersHeldWhileInFlight
<1>1. IInv => BuffersHeldWhileInFlight
  BY DEF IInv
<1> QED
  BY <1>1, Invariance, PTL

(* A submission that fails leaves the unused descriptors as they were and  *)
(* queues nothing.                                                         *)
THEOREM FailuresReturnDescriptors ==
  ASSUME CleanedUpCases
  PROVE  Spec => FailedSubmitReturnsDescriptors
<1> DEFINE Kept == result' \notin {"none", "Success"} =>
                     /\ Unused' = Unused
                     /\ num_unused_descriptors' = num_unused_descriptors
                     /\ in_flight' = in_flight
<1>1. ASSUME IInv, [Next]_vars PROVE [Kept]_vars
  <2>1. CASE UNCHANGED vars
    BY <2>1
  <2>2. ASSUME NEW r \in Requests, NEW shape \in RequestShapes, Refused \/ Accepted(r, shape)
        PROVE  Kept
    BY <2>2, Zenon DEF Refused, Accepted, GivesBack
  <2>3. ASSUME NEW h \in in_flight, CompleteRequest(h) PROVE Kept
    BY <2>3, Zenon DEF CompleteRequest
  <2>4. ASSUME NEW r \in Requests, NEW shape \in RequestShapes, SubmitDirect(r, shape)
        PROVE  Kept
    BY <1>1, <2>2, <2>4, SubmitDirectStep, SMTT(60)
  <2>5. ASSUME NEW r \in Requests, NEW shape \in RequestShapes, SubmitIndirect(r, shape)
        PROVE  Kept
    BY <1>1, <2>2, <2>5, SubmitIndirectStep
  <2> HIDE DEF Kept
  <2> QED
    BY <1>1, <2>1, <2>3, <2>4, <2>5, Zenon DEF Next
<1>2. IInv /\ [Next]_vars => [Kept]_vars
  BY <1>1
<1> QED
  BY <1>2, Invariance, PTL DEF Spec, FailedSubmitReturnsDescriptors

(* The refinement step by step: every step of the driver is one of the     *)
(* contract of VirtioDevice.h, or invisible to the client.                 *)
LEMMA StepRefines ==
  ASSUME IInv, CleanedUpCases, [Next]_vars
  PROVE  [Contract!Next]_(Contract!contractVars)
<1> DEFINE out == {q \in Requests : pending[q] # Idle}
<1>0. pending \in [Requests -> Nat \X Nat]
  BY DEF IInv, Types
<1>1. CASE UNCHANGED vars
  BY <1>1 DEF vars, Contract!contractVars
<1>2. ASSUME Refused PROVE Contract!Refuse
  <2>1. pending' = pending
    BY <1>2 DEF Refused, GivesBack
  <2>2. in_flight # {} => out # {}
    BY DEF IInv, OneChainPerRequest
  <2>3. result' \in Contract!Refusals /\ (result' = "Busy" => out # {})
    BY <1>2, <2>2, Zenon DEF Refused, Contract!Refusals
  <2> QED
    BY <2>1, <2>3, Zenon DEF Contract!Refuse
<1>3. ASSUME NEW r \in Requests, NEW shape, Accepted(r, shape) PROVE Contract!Accept(r)
  <2>1. /\ pending[r] = Idle /\ shape # Idle
        /\ pending' = [pending EXCEPT ![r] = shape]
    BY <1>3 DEF Accepted
  <2>2. r \notin out /\ {q \in Requests : pending'[q] # Idle} = out \cup {r}
    BY <1>0, <2>1
  <2>3. result' = "Success"
    BY <1>3, Zenon DEF Accepted
  <2> QED
    BY <2>2, <2>3, Zenon DEF Contract!Accept
<1>4. ASSUME NEW h \in in_flight, CompleteRequest(h)
      PROVE  \E r \in Requests : Contract!Complete(r)
  <2>1. PICK r \in Requests : r = completion[h] /\ r \in out
    BY DEF IInv, OneChainPerRequest
  <2>2. pending' = [pending EXCEPT ![r] = Idle]
    BY <1>4, <2>1 DEF CompleteRequest
  <2>3. {q \in Requests : pending'[q] # Idle} = out \ {r}
    BY <1>0, <2>1, <2>2
  <2>4. result' = "none"
    BY <1>4, Zenon DEF CompleteRequest
  <2> QED
    BY <2>1, <2>3, <2>4, Zenon DEF Contract!Complete
<1>5. ASSUME NEW r \in Requests, NEW shape \in RequestShapes, Refused \/ Accepted(r, shape)
      PROVE  Contract!Next
  BY <1>2, <1>3, <1>5, Zenon DEF Contract!Next
<1>6. ASSUME NEW r \in Requests, NEW shape \in RequestShapes, SubmitDirect(r, shape)
      PROVE  Contract!Next
  BY <1>5, <1>6, SubmitDirectStep
<1>7. ASSUME NEW r \in Requests, NEW shape \in RequestShapes, SubmitIndirect(r, shape)
      PROVE  Contract!Next
  BY <1>5, <1>7, SubmitIndirectStep
<1>8. ASSUME NEW h \in in_flight, CompleteRequest(h) PROVE Contract!Next
  BY <1>4, <1>8, Zenon DEF Contract!Next
<1> QED
  BY <1>1, <1>6, <1>7, <1>8, Zenon DEF Next

(* submitBuffersToVirtqueue and the completion loop implement the contract *)
(* of VirtioDevice.h: an accepted request is completed at most once, a     *)
(* refused one has no effect, and Busy means that another is outstanding.  *)
THEOREM ImplementsContract ==
  ASSUME CleanedUpCases
  PROVE  Spec => ImplementsVirtioDevice
<1>1. Init => Contract!Init
  <2> SUFFICES ASSUME Init PROVE Contract!Init
    OBVIOUS
  <2>1. {q \in Requests : pending[q] # Idle} = {}
    BY DEF Init
  <2>2. result = "none"
    BY Zenon DEF Init
  <2> QED
    BY <2>1, <2>2, Zenon DEF Contract!Init
<1>2. IInv /\ [Next]_vars => [Contract!Next]_(Contract!contractVars)
  BY StepRefines
<1> QED
  BY <1>1, <1>2, Invariance, PTL DEF Spec, ImplementsVirtioDevice, Contract!Spec

=============================================================================
