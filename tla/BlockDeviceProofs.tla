-------------------------- MODULE BlockDeviceProofs ---------------------------
(***************************************************************************)
(* Proofs about BlockDevice, for any number of clients and structures and  *)
(* any size of the virtqueue.                                              *)
(***************************************************************************)
EXTENDS BlockDevice, FiniteSetTheorems, WellFoundedInduction, TLAPS

-----------------------------------------------------------------------------
(* Sums *)

(* A set of numbers has a smallest member.                                 *)
LEMMA SmallestExists ==
  ASSUME NEW T \in SUBSET Nat, T # {}
  PROVE  \E x \in T : \A y \in T : x <= y
<1> DEFINE R == OpToRel(<, Nat)
<1>1. IsWellFoundedOn(R, Nat)
  BY NatLessThanWellFounded, Zenon
<1>2. \A a, b \in Nat : a < b => <<a, b>> \in R
  BY DEF OpToRel
<1> HIDE DEF R
<1>3. PICK x \in T : \A y \in T : ~ (<<y, x>> \in R)
  BY <1>1, WFMin, Zenon
<1>4. \A y \in T : x <= y
  <2> TAKE y \in T
  <2>1. x \in Nat /\ y \in Nat
    OBVIOUS
  <2>2. ~(y < x)
    BY <1>2, <1>3, <2>1, Zenon
  <2> QED
    BY <2>1, <2>2
<1> QED
  BY <1>4

(* The partial sums that the fold behind Taken goes through.               *)
Chosen(s) == CHOOSE x \in s : TRUE
Partial(g, s, needs) == IF s = {} THEN 0 ELSE needs[Chosen(s)] + g[s \ {Chosen(s)}]
IsFold(g, S, needs) == g = [s \in SUBSET S |-> Partial(g, s, needs)]

(* Taken is the last of these sums.                                        *)
LEMMA TakenIsFold ==
  ASSUME NEW S, NEW needs, \E g : IsFold(g, S, needs)
  PROVE  \E g : IsFold(g, S, needs) /\ Taken(S, needs) = g[S]
<1> DEFINE f == CHOOSE g : IsFold(g, S, needs)
<1>1. IsFold(f, S, needs)
  OBVIOUS
<1>2. Taken(S, needs) = f[S]
  BY Zenon DEF Taken, MapThenSumSet, MapThenFoldSet, IsFold, Partial, Chosen
<1> QED
  BY <1>1, <1>2, Zenon

(* Sizes of the subsets of a finite set.                                   *)
LEMMA SubsetSizes ==
  ASSUME NEW S, IsFiniteSet(S)
  PROVE  \A s \in SUBSET S : /\ IsFiniteSet(s) /\ Cardinality(s) \in Nat
                             /\ Cardinality(s) = 0 => s = {}
                             /\ Cardinality(s) <= Cardinality(S)
                             /\ \A x \in s : Cardinality(s \ {x}) = Cardinality(s) - 1
<1> SUFFICES ASSUME NEW s \in SUBSET S
             PROVE  /\ IsFiniteSet(s) /\ Cardinality(s) \in Nat
                    /\ Cardinality(s) = 0 => s = {}
                    /\ Cardinality(s) <= Cardinality(S)
                    /\ \A x \in s : Cardinality(s \ {x}) = Cardinality(s) - 1
  OBVIOUS
<1>1. IsFiniteSet(s) /\ Cardinality(s) <= Cardinality(S)
  BY FS_Subset
<1>2. Cardinality(s) \in Nat
  BY <1>1, FS_CardinalityType
<1>3. Cardinality(s) = 0 => s = {}
  BY <1>1, FS_EmptySet
<1>4. \A x \in s : Cardinality(s \ {x}) = Cardinality(s) - 1
  BY <1>1, FS_RemoveElement
<1> QED
  BY <1>1, <1>2, <1>3, <1>4

(* The fold over a finite set is defined: partial sums up to a size give   *)
(* those of the next size.                                                 *)
LEMMA FoldExists ==
  ASSUME NEW S, IsFiniteSet(S), NEW needs, \A r \in S : needs[r] \in Nat
  PROVE  \E g \in [SUBSET S -> Nat] : IsFold(g, S, needs)
<1> DEFINE Good(g, n) == \A s \in SUBSET S : Cardinality(s) <= n => g[s] = Partial(g, s, needs)
           Bad == {n \in Nat : \A g \in [SUBSET S -> Nat] : ~Good(g, n)}
<1>1. \A s \in SUBSET S : /\ Cardinality(s) \in Nat
                          /\ Cardinality(s) = 0 => s = {}
                          /\ Cardinality(s) <= Cardinality(S)
                          /\ \A x \in s : Cardinality(s \ {x}) = Cardinality(s) - 1
  BY SubsetSizes
<1>2. \A s \in SUBSET S : s # {} =>
        Chosen(s) \in s /\ s \ {Chosen(s)} \in SUBSET S /\ needs[Chosen(s)] \in Nat
  BY DEF Chosen
<1>3. Bad = {}
  <2> SUFFICES ASSUME Bad # {} PROVE FALSE
    BY Zenon
  <2>1. PICK x \in Bad : \A y \in Bad : x <= y
    <3>1. Bad \in SUBSET Nat
      OBVIOUS
    <3> HIDE DEF Bad
    <3> QED
      BY <3>1, SmallestExists
  <2>2. x # 0
    <3> DEFINE g == [s \in SUBSET S |-> 0]
    <3>1. Good(g, 0)
      BY <1>1 DEF Partial
    <3> QED
      BY <3>1, Zenon
  <2>3. x - 1 \in Nat /\ x - 1 \notin Bad
    <3>1. x \in Nat
      OBVIOUS
    <3> HIDE DEF Bad
    <3> QED
      BY <2>1, <2>2, <3>1
  <2>4. PICK g \in [SUBSET S -> Nat] : Good(g, x - 1)
    BY <2>3
  <2> DEFINE h == [s \in SUBSET S |-> IF Cardinality(s) <= x - 1 THEN g[s]
                                      ELSE Partial(g, s, needs)]
  <2>5. \A s \in SUBSET S : Partial(g, s, needs) \in Nat
    BY <1>2 DEF Partial
  <2>6. h \in [SUBSET S -> Nat]
    BY <2>5
  <2>7. Good(h, x)
    <3> SUFFICES ASSUME NEW s \in SUBSET S, Cardinality(s) <= x
                 PROVE  h[s] = Partial(h, s, needs)
      BY Zenon
    <3>1. h[s] = Partial(g, s, needs)
      BY <2>4
    <3>2. CASE s = {}
      BY <3>1, <3>2 DEF Partial
    <3>3. CASE s # {}
      <4>1. PICK t \in SUBSET S : t = s \ {Chosen(s)}
        BY <1>2, <3>3, Zenon
      <4>2. Cardinality(t) <= x - 1
        BY <1>1, <1>2, <3>3, <4>1
      <4>3. h[t] = g[t]
        BY <4>2
      <4> HIDE DEF h
      <4> QED
        BY <3>1, <3>3, <4>1, <4>3 DEF Partial
    <3> QED
      BY <3>2, <3>3
  <2> QED
    BY <2>6, <2>7, Zenon
<1>4. Cardinality(S) \in Nat
  BY <1>1
<1>5. PICK g \in [SUBSET S -> Nat] : Good(g, Cardinality(S))
  BY <1>3, <1>4, Zenon
<1>6. \A s \in SUBSET S : g[s] = Partial(g, s, needs)
  BY <1>1, <1>5
<1> QED
  BY <1>6 DEF IsFold

(* And only one function satisfies its definition.                         *)
LEMMA FoldUnique ==
  ASSUME NEW S, IsFiniteSet(S), NEW needs, NEW f, IsFold(f, S, needs),
         NEW g, IsFold(g, S, needs)
  PROVE  g = f
<1>1. \A s \in SUBSET S : /\ Cardinality(s) \in Nat
                          /\ \A x \in s : Cardinality(s \ {x}) = Cardinality(s) - 1
  BY SubsetSizes
<1>2. \A s \in SUBSET S : f[s] = Partial(f, s, needs) /\ g[s] = Partial(g, s, needs)
  BY DEF IsFold
<1> DEFINE Bad == {Cardinality(s) : s \in {t \in SUBSET S : f[t] # g[t]}}
<1>3. Bad = {}
  <2> SUFFICES ASSUME Bad # {} PROVE FALSE
    OBVIOUS
  <2>1. PICK n \in Bad : \A y \in Bad : n <= y
    <3>1. Bad \in SUBSET Nat
      BY <1>1
    <3> HIDE DEF Bad
    <3> QED
      BY <3>1, SmallestExists
  <2>2. PICK s \in SUBSET S : n = Cardinality(s) /\ f[s] # g[s]
    OBVIOUS
  <2>3. PICK t \in SUBSET S : t = s \ {Chosen(s)}
    BY Zenon
  <2>4. s # {} /\ f[t] # g[t]
    BY <1>2, <2>2, <2>3 DEF Partial
  <2>5. Chosen(s) \in s
    BY <2>4 DEF Chosen
  <2>6. Cardinality(t) = n - 1 /\ n \in Nat
    BY <1>1, <2>2, <2>3, <2>5
  <2>7. n - 1 \in Bad
    BY <2>4, <2>6
  <2> HIDE DEF Bad
  <2> QED
    BY <2>1, <2>6, <2>7
<1>4. \A s \in SUBSET S : f[s] = g[s]
  BY <1>3
<1>5. f = [s \in SUBSET S |-> f[s]] /\ g = [s \in SUBSET S |-> g[s]]
  BY DEF IsFold
<1> QED
  BY <1>4, <1>5, Zenon

(* Sums do not depend on the order of the summands.                        *)
Additive(g, S, needs) ==
  /\ g \in [SUBSET S -> Nat]
  /\ g[{}] = 0
  /\ \A s \in SUBSET S : \A x \in s : g[s] = needs[x] + g[s \ {x}]

(* A fold is such a sum.                                                   *)
LEMMA FoldAdditive ==
  ASSUME NEW S, IsFiniteSet(S), NEW needs, \A r \in S : needs[r] \in Nat,
         NEW g \in [SUBSET S -> Nat], IsFold(g, S, needs)
  PROVE  Additive(g, S, needs)
<1>1. \A s \in SUBSET S : /\ Cardinality(s) \in Nat
                          /\ \A x \in s : Cardinality(s \ {x}) = Cardinality(s) - 1
  BY SubsetSizes
<1>2. \A s \in SUBSET S : g[s] = Partial(g, s, needs)
  BY DEF IsFold
<1> DEFINE Fails(s) == \E x \in s : g[s] # needs[x] + g[s \ {x}]
           Bad == {Cardinality(s) : s \in {t \in SUBSET S : Fails(t)}}
<1>3. Bad = {}
  <2> SUFFICES ASSUME Bad # {} PROVE FALSE
    OBVIOUS
  <2>1. PICK n \in Bad : \A y \in Bad : n <= y
    <3>1. Bad \in SUBSET Nat
      BY <1>1
    <3> HIDE DEF Bad
    <3> QED
      BY <3>1, SmallestExists
  <2>2. PICK s \in SUBSET S : n = Cardinality(s) /\ Fails(s)
    OBVIOUS
  <2>3. PICK x \in s : g[s] # needs[x] + g[s \ {x}]
    BY <2>2, Zenon
  <2>4. PICK c \in s : c = Chosen(s)
    BY DEF Chosen
  <2>5. g[s] = needs[c] + g[s \ {c}]
    BY <1>2, <2>4 DEF Partial
  <2>6. x # c
    BY <2>3, <2>5, Zenon
  <2>7. s \ {c} \in SUBSET S /\ s \ {x} \in SUBSET S /\ x \in s \ {c} /\ c \in s \ {x}
    BY <2>6
  <2>8. ~Fails(s \ {c}) /\ ~Fails(s \ {x})
    <3> SUFFICES ASSUME NEW t \in SUBSET S, NEW z \in s, t = s \ {z} PROVE ~Fails(t)
      BY <2>7, Zenon
    <3>1. Cardinality(t) = n - 1 /\ n \in Nat
      BY <1>1, <2>2
    <3>2. n - 1 \notin Bad
      <4> HIDE DEF Bad
      <4> QED
        BY <2>1, <3>1
    <3> QED
      BY <3>1, <3>2, SMTT(60)
  <2>9. PICK t \in SUBSET S : t = (s \ {c}) \ {x} /\ t = (s \ {x}) \ {c}
    BY Zenon
  <2>10. g[s \ {c}] = needs[x] + g[t] /\ g[s \ {x}] = needs[c] + g[t]
    BY <2>7, <2>8, <2>9, Zenon
  <2>11. needs[x] \in Nat /\ needs[c] \in Nat /\ g[t] \in Nat
    OBVIOUS
  <2> QED
    BY <2>3, <2>5, <2>10, <2>11
<1>4. g[{}] = 0
  BY <1>2, Zenon DEF Partial
<1> QED
  BY <1>3, <1>4, Zenon DEF Additive

(* Two sums over the same numbers are equal.                               *)
LEMMA AdditiveUnique ==
  ASSUME NEW S, NEW T, NEW U, IsFiniteSet(U), U \subseteq S, U \subseteq T,
         NEW needs, NEW needs2, \A r \in U : needs[r] = needs2[r],
         NEW g, Additive(g, S, needs), NEW h, Additive(h, T, needs2)
  PROVE  g[U] = h[U]
<1>1. \A s \in SUBSET U : /\ Cardinality(s) \in Nat
                          /\ \A x \in s : Cardinality(s \ {x}) = Cardinality(s) - 1
  BY SubsetSizes
<1> DEFINE Bad == {Cardinality(s) : s \in {t \in SUBSET U : g[t] # h[t]}}
<1>2. Bad = {}
  <2> SUFFICES ASSUME Bad # {} PROVE FALSE
    OBVIOUS
  <2>1. PICK n \in Bad : \A y \in Bad : n <= y
    <3>1. Bad \in SUBSET Nat
      BY <1>1
    <3> HIDE DEF Bad
    <3> QED
      BY <3>1, SmallestExists
  <2>2. PICK s \in SUBSET U : n = Cardinality(s) /\ g[s] # h[s]
    OBVIOUS
  <2>3. PICK x \in s : TRUE
    BY <2>2, Zenon DEF Additive
  <2>4. g[s \ {x}] = h[s \ {x}]
    <3>1. Cardinality(s \ {x}) = n - 1 /\ n \in Nat /\ s \ {x} \in SUBSET U
      BY <1>1, <2>2
    <3>2. n - 1 \notin Bad
      <4> HIDE DEF Bad
      <4> QED
        BY <2>1, <3>1
    <3> QED
      BY <3>1, <3>2
  <2>5. g[s] = needs[x] + g[s \ {x}] /\ h[s] = needs2[x] + h[s \ {x}]
    BY DEF Additive
  <2> QED
    BY <2>2, <2>4, <2>5
<1> QED
  BY <1>2

(* Taken is the sum of the descriptors that the requests take.             *)
LEMMA TakenIsSum ==
  ASSUME NEW S, IsFiniteSet(S), NEW needs, \A r \in S : needs[r] \in Nat
  PROVE  \E g : Additive(g, S, needs) /\ Taken(S, needs) = g[S]
<1>1. PICK f \in [SUBSET S -> Nat] : IsFold(f, S, needs)
  BY FoldExists, Zenon
<1>2. PICK g : IsFold(g, S, needs) /\ Taken(S, needs) = g[S]
  BY <1>1, TakenIsFold
<1>3. g = f
  BY <1>1, <1>2, FoldUnique
<1> QED
  BY <1>1, <1>2, <1>3, FoldAdditive

(* An empty virtqueue has all its descriptors free.                        *)
LEMMA TakenNone ==
  ASSUME NEW needs
  PROVE  Taken({}, needs) = 0
<1>1. IsFiniteSet({})
  BY FS_EmptySet
<1>2. PICK g : Additive(g, {}, needs) /\ Taken({}, needs) = g[{}]
  BY <1>1, TakenIsSum
<1> QED
  BY <1>2 DEF Additive

(* A request that completes gives back what it took.                       *)
LEMMA TakenWithout ==
  ASSUME NEW S, IsFiniteSet(S), NEW needs, \A r \in S : needs[r] \in Nat, NEW x \in S
  PROVE  /\ Taken(S, needs) \in Nat /\ Taken(S \ {x}, needs) \in Nat
         /\ Taken(S, needs) = needs[x] + Taken(S \ {x}, needs)
<1>1. PICK T : T = S \ {x}
  BY Zenon
<1>2. IsFiniteSet(T) /\ T \subseteq S /\ T \subseteq T /\ \A r \in T : needs[r] \in Nat
  BY <1>1, FS_RemoveElement
<1>3. PICK g : Additive(g, S, needs) /\ Taken(S, needs) = g[S]
  BY TakenIsSum
<1>4. PICK h : Additive(h, T, needs) /\ Taken(T, needs) = h[T]
  BY <1>2, TakenIsSum
<1>5. g[T] = h[T]
  BY <1>2, <1>3, <1>4, AdditiveUnique
<1>6. g[S] = needs[x] + g[T] /\ g[S] \in Nat /\ h[T] \in Nat
  BY <1>1, <1>3, <1>4 DEF Additive
<1> QED
  BY <1>1, <1>3, <1>4, <1>5, <1>6

(* What requests take does not depend on those outside the virtqueue.      *)
LEMMA TakenSame ==
  ASSUME NEW S, IsFiniteSet(S), NEW needs, NEW needs2,
         \A r \in S : needs[r] \in Nat /\ needs[r] = needs2[r]
  PROVE  Taken(S, needs) = Taken(S, needs2) /\ Taken(S, needs) \in Nat
<1>1. PICK g : Additive(g, S, needs) /\ Taken(S, needs) = g[S]
  BY TakenIsSum
<1>2. PICK h : Additive(h, S, needs2) /\ Taken(S, needs2) = h[S]
  BY TakenIsSum
<1>3. g[S] = h[S]
  BY <1>1, <1>2, AdditiveUnique
<1>4. g[S] \in Nat
  BY <1>1 DEF Additive
<1> QED
  BY <1>1, <1>2, <1>3, <1>4

-----------------------------------------------------------------------------
(* The inductive invariant *)

Types ==
  /\ request_pool \subseteq Structures /\ pending_requests \in Seq(Structures)
  /\ in_device \subseteq Structures /\ answered \subseteq Structures
  /\ dropped \subseteq Structures
  /\ need \in [Structures -> Nat]
  /\ user \in [Structures -> Clients \cup {NoClient}]
  /\ caller \in [Clients -> {"idle", "pool_wait", "waiting", "asleep", "woken"}]
  /\ gate \in {"free", "client_called", "client_returned"}
  /\ virtio_device \in {"open", "closed"}

(* A structure without a client is in the pool or was dropped; one with a  *)
(* client is in one of the queues until it has completed.                  *)
Placed ==
  /\ request_pool = {r \in Structures : user[r] = NoClient} \ dropped
  /\ \A r \in dropped : user[r] = NoClient
  /\ \A r \in Structures :
       r \in Range(pending_requests) \cup in_device \cup answered <=>
         user[r] # NoClient /\ caller[user[r]] \in {"waiting", "asleep"}
  /\ Range(pending_requests) \cap in_device = {}
  /\ Range(pending_requests) \cap answered = {}
  /\ in_device \cap answered = {}
  /\ IsInjective(pending_requests)

(* A client has a structure exactly while its operation is under way, and  *)
(* never two.                                                              *)
Owned ==
  /\ \A r, s \in Structures : user[r] = user[s] /\ user[r] # NoClient => r = s
  /\ \A r \in Structures :
       user[r] # NoClient => caller[user[r]] \in {"waiting", "asleep", "woken"}
  /\ \A c \in Clients :
       caller[c] \in {"waiting", "asleep", "woken"} => \E r \in Structures : user[r] = c

(* Every request fits an empty virtqueue, and those in it fit together.    *)
Room ==
  /\ \A r \in Structures : user[r] # NoClient => need[r] \in 2 .. QueueSize
  /\ Taken(in_device \cup answered, need) <= QueueSize

(* Closing the device ends the driver's work for good.                     *)
IInv ==
  /\ Types
  /\ virtio_device = "closed" => in_device = {} /\ answered = {} /\ gate = "free"
  /\ virtio_device = "open" => Placed /\ Owned /\ Room

-----------------------------------------------------------------------------
(* Sets and sequences *)

(* Every set of structures is finite, and its requests take a number of    *)
(* descriptors.                                                            *)
LEMMA StructureSets ==
  ASSUME Types, NEW S, S \subseteq Structures
  PROVE  IsFiniteSet(S) /\ (\A r \in S : need[r] \in Nat) /\ Taken(S, need) \in Nat
<1>1. IsFiniteSet(S)
  BY StructuresAssumption, FS_Subset
<1>2. \A r \in S : need[r] \in Nat /\ need[r] = need[r]
  BY DEF Types
<1> QED
  BY <1>1, <1>2, TakenSame

(* The first k members F are taken from the queue p, which leaves q.       *)
TakesFront(S, p, k, F, q) ==
  /\ p \in Seq(S) /\ IsInjective(p) /\ k \in 0 .. Len(p)
  /\ F = {p[j] : j \in 1 .. k} /\ q = SubSeq(p, k + 1, Len(p))

LeavesRest(S, p, k, F, q) ==
  /\ q \in Seq(S) /\ IsInjective(q) /\ Range(q) = Range(p) \ F /\ F \subseteq Range(p)
  /\ q # <<>> => k < Len(p)

(* The members of a queue from whose front some are taken.                 *)
LEMMA FrontTaken ==
  ASSUME NEW S, NEW p, NEW k, NEW F, NEW q, TakesFront(S, p, k, F, q)
  PROVE  LeavesRest(S, p, k, F, q)
<1> USE DEF TakesFront
<1>1. PICK n \in Nat : n = Len(p)
  OBVIOUS
<1>2. k \in 0 .. n
  BY <1>1
<1>3. /\ q \in Seq(S) /\ Len(q) = n - k /\ DOMAIN q = 1 .. n - k
      /\ \A i \in 1 .. n - k : q[i] = p[k + i]
  BY <1>1, <1>2
<1>4. DOMAIN p = 1 .. n /\ \A i, j \in 1 .. n : p[i] = p[j] => i = j
  BY <1>1 DEF IsInjective
<1>5. IsInjective(q)
  <2> SUFFICES ASSUME NEW i \in 1 .. n - k, NEW j \in 1 .. n - k, q[i] = q[j] PROVE i = j
    BY <1>3, Zenon DEF IsInjective
  <2>1. k + i \in 1 .. n /\ k + j \in 1 .. n /\ p[k + i] = p[k + j]
    BY <1>2, <1>3
  <2>2. k + i = k + j
    BY <1>4, <2>1
  <2> QED
    BY <1>2, <2>2
<1>6. F \subseteq Range(p)
  BY <1>2, <1>4 DEF Range
<1>7. Range(q) \subseteq Range(p) \ F
  <2> SUFFICES ASSUME NEW i \in 1 .. n - k PROVE q[i] \in Range(p) \ F
    BY <1>3, Zenon DEF Range
  <2>1. k + i \in 1 .. n /\ q[i] = p[k + i]
    BY <1>2, <1>3
  <2>2. ASSUME NEW j \in 1 .. k, p[j] = p[k + i] PROVE FALSE
    BY <1>2, <1>4, <2>1, <2>2
  <2> QED
    BY <1>4, <2>1, <2>2, SMTT(60) DEF Range
<1>8. Range(p) \ F \subseteq Range(q)
  <2> SUFFICES ASSUME NEW j \in 1 .. n, p[j] \notin F PROVE p[j] \in Range(q)
    BY <1>4, Zenon DEF Range
  <2>1. j \notin 1 .. k
    OBVIOUS
  <2>2. j - k \in 1 .. n - k /\ k + (j - k) = j
    BY <1>2, <2>1
  <2>3. q[j - k] = p[j]
    BY <1>3, <2>2
  <2> QED
    BY <1>3, <2>2, <2>3, Zenon DEF Range
<1>9. q # <<>> => k < Len(p)
  BY <1>1, <1>2, <1>3
<1> QED
  BY <1>3, <1>5, <1>6, <1>7, <1>8, <1>9 DEF LeavesRest

(* The request r is added at the back of the queue p, which gives q.       *)
AddsBack(S, p, r, q) ==
  /\ p \in Seq(S) /\ IsInjective(p) /\ r \in S /\ r \notin Range(p)
  /\ q = Append(p, r)

HasAll(S, p, r, q) ==
  q \in Seq(S) /\ IsInjective(q) /\ Range(q) = Range(p) \cup {r}

(* The members of a queue with a new request at its back.                  *)
LEMMA BackAdded ==
  ASSUME NEW S, NEW p, NEW r, NEW q, AddsBack(S, p, r, q)
  PROVE  HasAll(S, p, r, q)
<1> USE DEF AddsBack
<1>1. PICK n \in Nat : n = Len(p)
  OBVIOUS
<1>2. /\ q \in Seq(S) /\ DOMAIN q = 1 .. n + 1 /\ q[n + 1] = r
      /\ \A i \in 1 .. n : q[i] = p[i]
  BY <1>1
<1>3. DOMAIN p = 1 .. n /\ \A i \in 1 .. n : p[i] # r
  BY <1>1 DEF Range
<1>4. \A i \in 1 .. n + 1 : i \in 1 .. n \/ i = n + 1
  OBVIOUS
<1>5. IsInjective(q)
  BY <1>2, <1>3, <1>4 DEF IsInjective
<1>6. Range(q) = Range(p) \cup {r}
  <2>1. \A i \in 1 .. n : i \in 1 .. n + 1
    OBVIOUS
  <2>2. n + 1 \in 1 .. n + 1
    OBVIOUS
  <2> QED
    BY <1>2, <1>3, <1>4, <2>1, <2>2 DEF Range
<1> QED
  BY <1>2, <1>5, <1>6 DEF HasAll

-----------------------------------------------------------------------------
(* handlePendingRequests *)

(* The requests F go from the front of the pending queue to the virtqueue, *)
(* which held queued.                                                      *)
Handled(queued, F) ==
  /\ F \subseteq Range(pending_requests) /\ in_device' = in_device \cup F
  /\ pending_requests' \in Seq(Structures) /\ IsInjective(pending_requests')
  /\ Range(pending_requests') = Range(pending_requests) \ F
  /\ Taken(queued \cup F, need) <= QueueSize
  /\ SubmitFaults = FALSE /\ pending_requests' # <<>> => queued \cup F # {}

(* What ServedInOrder says of a step.                                      *)
InOrder ==
  \A r \in in_device' \ in_device :
    \A i \in DOMAIN pending_requests :
      pending_requests[i] = r \/ r \notin Range(pending_requests) =>
        \A j \in 1 .. i : pending_requests[j] \in in_device'

(* A member of the pending queue that does not fit into the virtqueue      *)
(* finds other requests in it.                                             *)
LEMMA DoesNotFitAlone ==
  ASSUME Placed, Room, NEW r \in Structures, r \in Range(pending_requests), NEW Q, Q = {}
  PROVE  Fits(Q, need, need[r])
<1>1. need[r] \in 2 .. QueueSize
  BY DEF Placed, Room
<1>2. Taken(Q, need) = 0
  BY TakenNone
<1> QED
  BY <1>1, <1>2, QueueAssumption, SMTT(60) DEF Fits

(* The loop hands over requests from the front, as many as fit, and stops  *)
(* for want of room only.                                                  *)
LEMMA PendingHandled ==
  ASSUME Types, Placed, Room, NEW queued, queued \subseteq in_device \cup answered,
         Taken(queued, need) <= QueueSize, handlePendingRequests(queued)
  PROVE  (\E F : Handled(queued, F)) /\ InOrder
<1> DEFINE p == pending_requests
           first(i) == {p[j] : j \in 1 .. i}
<1>1. PICK k \in 0 .. Len(p) :
        /\ \A i \in 0 .. k - 1 : Fits(queued \cup first(i), need, need[p[i + 1]])
        /\ k < Len(p) => ~Fits(queued \cup first(k), need, need[p[k + 1]]) \/ SubmitFaults
        /\ in_device' = in_device \cup first(k)
        /\ pending_requests' = SubSeq(p, k + 1, Len(p))
  BY Zenon DEF handlePendingRequests
<1>2. p \in Seq(Structures) /\ IsInjective(p) /\ Range(p) \subseteq Structures
  BY DEF Types, Placed, Range
<1>3. PICK F : F = first(k)
  BY Zenon
<1>4. /\ pending_requests' \in Seq(Structures) /\ IsInjective(pending_requests')
      /\ Range(pending_requests') = Range(p) \ F /\ F \subseteq Range(p)
      /\ pending_requests' # <<>> => k < Len(p)
  <2>1. F = {p[j] : j \in 1 .. k} /\ pending_requests' = SubSeq(p, k + 1, Len(p))
    BY <1>1, <1>3
  <2>2. k \in 0 .. Len(p)
    OBVIOUS
  <2> HIDE DEF p
  <2>3. PICK q : q = pending_requests'
    OBVIOUS
  <2>4. TakesFront(Structures, p, k, F, q)
    BY <1>2, <2>1, <2>2, <2>3 DEF TakesFront
  <2>5. LeavesRest(Structures, p, k, F, q)
    BY ONLY <2>4, FrontTaken, Zenon
  <2> QED
    BY ONLY <2>3, <2>5, Zenon DEF LeavesRest
<1>5. Taken(queued \cup F, need) <= QueueSize
  <2>1. CASE k = 0
    <3>1. queued \cup F = queued
      BY <1>3, <2>1
    <3> QED
      BY <3>1, Zenon
  <2>2. CASE k # 0
    <3>1. PICK m \in Nat : m = k - 1 /\ m + 1 = k /\ m \in 0 .. k - 1 /\ k \in 1 .. Len(p)
      BY <2>2
    <3>2. PICK G : G = queued \cup first(m)
      BY Zenon
    <3>3. Taken(G, need) + need[p[k]] <= QueueSize
      BY <1>1, <3>1, <3>2, Zenon DEF Fits
    <3>4. p[k] \in Structures /\ p[k] \in Range(p) /\ \A j \in 1 .. m : p[j] # p[k]
      BY <1>2, <3>1 DEF IsInjective, Range
    <3>5. p[k] \notin queued
      BY <3>4 DEF Placed
    <3>6. \A j : j \in 1 .. k <=> j \in 1 .. m \/ j = k
      BY <3>1
    <3>7. F = first(m) \cup {p[k]}
      BY <1>3, <3>6, Zenon
    <3>8. PICK H : H = queued \cup F
      BY Zenon
    <3>9. p[k] \in H /\ H \ {p[k]} = G
      BY <3>2, <3>4, <3>5, <3>7, <3>8
    <3>10. H \subseteq Structures
      BY <1>2, <1>4, <3>8 DEF Types
    <3>11. IsFiniteSet(H) /\ \A r \in H : need[r] \in Nat
      BY <3>10, StructureSets, SMTT(60)
    <3>12. Taken(H, need) = need[p[k]] + Taken(H \ {p[k]}, need) /\ Taken(H \ {p[k]}, need) \in Nat
      BY ONLY <3>9, <3>11, TakenWithout
    <3>13. need[p[k]] \in Nat
      BY <3>9, <3>11
    <3>14. Taken(H, need) = need[p[k]] + Taken(G, need) /\ Taken(G, need) \in Nat
      BY ONLY <3>9, <3>12, Zenon
    <3>15. Taken(H, need) <= QueueSize
      BY ONLY <3>3, <3>13, <3>14
    <3> QED
      BY ONLY <3>8, <3>15, Zenon
  <2> QED
    BY <2>1, <2>2
<1>6. ASSUME SubmitFaults = FALSE, pending_requests' # <<>> PROVE queued \cup F # {}
  <2>1. k < Len(p) /\ k + 1 \in 1 .. Len(p)
    BY <1>4, <1>6
  <2>2. ~Fits(queued \cup F, need, need[p[k + 1]])
    BY <1>1, <1>3, <1>6, <2>1
  <2>3. p[k + 1] \in Structures /\ p[k + 1] \in Range(pending_requests)
    BY <1>2, <2>1 DEF Range
  <2> QED
    BY <2>2, <2>3, DoesNotFitAlone, Zenon
<1>7. Handled(queued, F)
  BY <1>1, <1>3, <1>4, <1>5, <1>6, Zenon DEF Handled
<1>8. InOrder
  <2> SUFFICES ASSUME NEW r \in in_device' \ in_device, NEW i \in DOMAIN p,
                      p[i] = r \/ r \notin Range(p), NEW j \in 1 .. i
               PROVE  p[j] \in in_device'
    BY DEF InOrder
  <2>1. PICK l \in 1 .. k : r = p[l]
    BY <1>1
  <2>2. l \in DOMAIN p /\ DOMAIN p = 1 .. Len(p)
    BY <1>2
  <2>3. l = i
    BY <1>2, <2>1, <2>2 DEF Range, IsInjective
  <2>4. j \in 1 .. k
    BY <2>2, <2>3
  <2> QED
    BY <1>1, <2>4
<1> QED
  BY <1>7, <1>8

-----------------------------------------------------------------------------
(* Requests *)

Open == virtio_device = "open" /\ Types /\ Placed /\ Owned /\ Room

(* What is shown of each step.                                             *)
StepIsRight ==
  /\ IInv'
  /\ InOrder
  /\ SubmitFaults = FALSE /\ PendingWillBeTried => PendingWillBeTried'

(* Structure r, from the pool, works for the idle client c from now on.    *)
Accepts(r, c, n, state) ==
  /\ request_pool' = request_pool \ {r}
  /\ need' = [need EXCEPT ![r] = n]
  /\ user' = [user EXCEPT ![r] = c]
  /\ caller' = [caller EXCEPT ![c] = state]

Queued == Range(pending_requests) \cup in_device \cup answered

BooksAfter(r) ==
  /\ request_pool' \subseteq Structures /\ dropped' \subseteq Structures
  /\ need' \in [Structures -> Nat]
  /\ user' \in [Structures -> Clients \cup {NoClient}]
  /\ caller' \in [Clients -> {"idle", "pool_wait", "waiting", "asleep", "woken"}]
  /\ Owned'
  /\ \A s \in Structures : user'[s] # NoClient => need'[s] \in 2 .. QueueSize
  /\ request_pool' = {s \in Structures : user'[s] = NoClient} \ dropped'
  /\ \A s \in dropped' : user'[s] = NoClient
  /\ r \in Structures /\ r \notin Queued
  /\ \A s \in Structures :
       s \in Queued \cup {r} <=>
         user'[s] # NoClient /\ caller'[user'[s]] \in {"waiting", "asleep"}

(* The structures in the virtqueue other than r need what they needed.     *)
LEMMA TakenOfOthers ==
  ASSUME Types, NEW S, S \subseteq Structures, NEW r \in Structures, r \notin S,
         NEW n, need' = [need EXCEPT ![r] = n]
  PROVE  Taken(S, need') = Taken(S, need) /\ Taken(S, need) \in Nat
<1>1. PICK needs : needs = need'
  OBVIOUS
<1>2. IsFiniteSet(S)
  BY StructureSets
<1>3. \A s \in S : need[s] \in Nat /\ need[s] = needs[s]
  BY <1>1 DEF Types
<1>4. Taken(S, need) = Taken(S, needs) /\ Taken(S, need) \in Nat
  BY ONLY <1>2, <1>3, TakenSame
<1> QED
  BY ONLY <1>1, <1>4, Zenon

(* A request that fits takes its descriptors.                              *)
LEMMA TakenWithNew ==
  ASSUME Types, NEW S, S \subseteq Structures, NEW r \in Structures, r \notin S,
         NEW n \in Nat, need' = [need EXCEPT ![r] = n], NEW T, T = S \cup {r}
  PROVE  Taken(T, need') = Taken(S, need) + n /\ Taken(S, need) \in Nat
<1>1. PICK needs : needs = need'
  OBVIOUS
<1>2. T \subseteq Structures /\ r \in T /\ T \ {r} = S
  OBVIOUS
<1>3. IsFiniteSet(T)
  BY <1>2, StructureSets
<1>4. needs[r] = n /\ \A s \in T : needs[s] \in Nat
  BY <1>1, <1>2 DEF Types
<1>5. Taken(T, needs) = needs[r] + Taken(T \ {r}, needs) /\ Taken(T \ {r}, needs) \in Nat
  BY ONLY <1>2, <1>3, <1>4, TakenWithout
<1>6. Taken(T \ {r}, needs) = Taken(S, needs)
  BY ONLY <1>2, Zenon
<1>7. Taken(S, need') = Taken(S, need) /\ Taken(S, need) \in Nat
  BY TakenOfOthers, Zenon
<1>8. Taken(S, needs) = Taken(S, need)
  BY ONLY <1>1, <1>7, Zenon
<1>9. Taken(T, needs) = Taken(S, need) + n
  BY ONLY <1>4, <1>5, <1>6, <1>7, <1>8
<1> QED
  BY ONLY <1>1, <1>7, <1>9, Zenon

(* The books after a structure has been given to a client.                 *)
LEMMA AcceptedOwned ==
  ASSUME Open, NEW r \in request_pool, NEW c \in Clients, caller[c] = "idle",
         NEW n \in 2 .. QueueSize, NEW state \in {"waiting", "asleep"},
         Accepts(r, c, n, state), UNCHANGED dropped
  PROVE  BooksAfter(r)
<1> USE DEF Open
<1>1. r \in Structures /\ user[r] = NoClient /\ r \notin dropped /\ c # NoClient /\ n \in Nat
  BY NoClientAssumption, QueueAssumption DEF Types, Placed
<1>2. \A s \in Structures : user[s] # c
  BY <1>1 DEF Owned
<1>3. /\ need' \in [Structures -> Nat] /\ user' \in [Structures -> Clients \cup {NoClient}]
      /\ caller' \in [Clients -> {"idle", "pool_wait", "waiting", "asleep", "woken"}]
  BY <1>1 DEF Types, Accepts
<1>4. \A s \in Structures : user'[s] = IF s = r THEN c ELSE user[s]
  BY <1>1 DEF Types, Accepts
<1>5. \A d \in Clients : caller'[d] = IF d = c THEN state ELSE caller[d]
  BY DEF Types, Accepts
<1>6. \A s \in Structures : s # r /\ user[s] # NoClient =>
        user'[s] = user[s] /\ user[s] \in Clients /\ caller'[user[s]] = caller[user[s]]
  BY <1>2, <1>4, <1>5 DEF Types
<1>7. user'[r] = c /\ caller'[c] = state
  BY <1>1, <1>4, <1>5, SMTT(60)
<1>8. Owned'
  <2>1. \A s, t \in Structures : user'[s] = user'[t] /\ user'[s] # NoClient => s = t
    BY <1>2, <1>4 DEF Owned
  <2>2. \A s \in Structures :
          user'[s] # NoClient => caller'[user'[s]] \in {"waiting", "asleep", "woken"}
    BY <1>4, <1>6, <1>7 DEF Owned
  <2>3. \A d \in Clients :
          caller'[d] \in {"waiting", "asleep", "woken"} => \E s \in Structures : user'[s] = d
    <3> SUFFICES ASSUME NEW d \in Clients, caller'[d] \in {"waiting", "asleep", "woken"}
                 PROVE  \E s \in Structures : user'[s] = d
      OBVIOUS
    <3>1. CASE d = c
      BY <1>1, <1>7, <3>1
    <3>2. CASE d # c
      <4>1. PICK s \in Structures : user[s] = d
        BY <1>5, <3>2 DEF Owned
      <4>2. s # r
        BY <1>1, <4>1, NoClientAssumption
      <4> QED
        BY <1>4, <4>1, <4>2
    <3> QED
      BY <3>1, <3>2
  <2> QED
    BY <2>1, <2>2, <2>3 DEF Owned
<1>9. \A s \in Structures : user'[s] # NoClient => need'[s] \in 2 .. QueueSize
  BY <1>1, <1>4 DEF Types, Room, Accepts
<1>10. /\ request_pool' = {s \in Structures : user'[s] = NoClient} \ dropped'
       /\ \A s \in dropped' : user'[s] = NoClient
  BY <1>1, <1>4 DEF Types, Placed, Accepts
<1>11. r \notin Queued
  BY <1>1, SMTT(60) DEF Placed, Queued
<1>12. \A s \in Structures :
         s \in Queued \cup {r} <=>
           user'[s] # NoClient /\ caller'[user'[s]] \in {"waiting", "asleep"}
  BY <1>1, <1>4, <1>6, <1>7 DEF Placed, Queued
<1>13. request_pool' \subseteq Structures /\ dropped' \subseteq Structures
  BY DEF Types, Accepts
<1> QED
  BY <1>1, <1>3, <1>8, <1>9, <1>10, <1>11, <1>12, <1>13 DEF BooksAfter

(* A request from an idle client: submitted, deferred or refused.          *)
LEMMA SubmitOrDeferRight ==
  ASSUME Open, NEW r \in request_pool, NEW c \in Clients, caller[c] = "idle",
         NEW n \in 2 .. QueueSize, NEW state \in {"waiting", "asleep"},
         SubmitOrDefer(r, c, n, state), UNCHANGED <<answered, virtio_device, dropped>>,
         gate' \in {"free", "client_called", "client_returned"},
         gate' = "free" => gate = "free"
  PROVE  StepIsRight
<1> DEFINE S == in_device \cup answered
<1>1. S \subseteq Structures /\ virtio_device' = "open" /\ n \in Nat
  BY QueueAssumption DEF Open, Types
<1>2. CASE NonePending /\ Fits(S, need, n) /\ Accepts(r, c, n, state)
           /\ in_device' = in_device \cup {r} /\ UNCHANGED pending_requests
  <2>1. BooksAfter(r)
    BY <1>2, AcceptedOwned
  <2>2. Types'
    BY <1>1, <1>2, <2>1, SMTT(60) DEF Types, Open, BooksAfter
  <2>3. Placed'
    <3>1. Queued' = Queued \cup {r}
      BY <1>2 DEF Queued
    <3> QED
      BY <1>2, <2>1, <3>1 DEF Placed, Open, Queued, BooksAfter
  <2>4. Room'
    <3>1. PICK T : T = S \cup {r}
      BY Zenon
    <3>2. r \notin S
      BY <2>1 DEF Queued, BooksAfter
    <3>3. Taken(T, need') = Taken(S, need) + n
      <4>1. Types /\ need' = [need EXCEPT ![r] = n] /\ r \in Structures
        BY <1>2, <2>1 DEF Accepts, Open, BooksAfter
      <4> HIDE DEF S
      <4> QED
        BY ONLY <1>1, <3>1, <3>2, <4>1, TakenWithNew, Zenon
    <3>4. (in_device \cup answered)' = T
      BY <1>2, <3>1
    <3>5. Taken((in_device \cup answered)', need') <= QueueSize
      BY <1>2, <3>3, <3>4, SMTT(60) DEF Fits
    <3> QED
      BY <2>1, <3>5 DEF Room, BooksAfter
  <2>5. InOrder
    BY <1>2 DEF InOrder, NonePending
  <2>6. PendingWillBeTried'
    BY <1>2 DEF PendingWillBeTried, NonePending
  <2> QED
    BY <1>1, <2>1, <2>2, <2>3, <2>4, <2>5, <2>6 DEF StepIsRight, IInv, BooksAfter
<1>3. CASE (~NonePending \/ Busy(S, need)) /\ Accepts(r, c, n, state)
           /\ pending_requests' = Append(pending_requests, r) /\ UNCHANGED in_device
  <2>1. BooksAfter(r)
    BY <1>3, AcceptedOwned
  <2>2. /\ pending_requests' \in Seq(Structures) /\ IsInjective(pending_requests')
        /\ Range(pending_requests') = Range(pending_requests) \cup {r}
    <3>1. /\ pending_requests \in Seq(Structures) /\ IsInjective(pending_requests)
          /\ r \in Structures /\ r \notin Range(pending_requests)
      BY <2>1 DEF Open, Types, Placed, Queued, BooksAfter
    <3>2. PICK p : p = pending_requests
      OBVIOUS
    <3>3. PICK q : q = pending_requests'
      OBVIOUS
    <3>4. AddsBack(Structures, p, r, q)
      BY <1>3, <3>1, <3>2, <3>3 DEF AddsBack
    <3>5. HasAll(Structures, p, r, q)
      BY ONLY <3>4, BackAdded, Zenon
    <3> QED
      BY ONLY <3>2, <3>3, <3>5, Zenon DEF HasAll
  <2>3. Types'
    BY <1>1, <1>3, <2>1, <2>2, SMTT(60) DEF Types, Open, BooksAfter
  <2>4. Placed'
    <3>1. Queued' = Queued \cup {r}
      BY <1>3, <2>2 DEF Queued
    <3> QED
      BY <1>3, <2>1, <2>2, <3>1 DEF Placed, Open, Queued, BooksAfter
  <2>5. Room'
    <3>1. Types /\ need' = [need EXCEPT ![r] = n] /\ r \in Structures /\ r \notin S
      BY <1>3, <2>1 DEF Accepts, Open, Queued, BooksAfter
    <3>2. Taken(S, need') = Taken(S, need)
      <4> HIDE DEF S
      <4> QED
        BY ONLY <1>1, <3>1, TakenOfOthers, Zenon
    <3>3. Taken((in_device \cup answered)', need') <= QueueSize
      BY <1>3, <3>2 DEF Open, Room
    <3> QED
      BY <2>1, <3>3 DEF Room, BooksAfter
  <2>6. InOrder
    BY <1>3 DEF InOrder
  <2>7. PendingWillBeTried => PendingWillBeTried'
    <3>1. Busy(S, need) => S # {}
      BY TakenNone, QueueAssumption DEF Busy
    <3>2. CASE Busy(S, need)
      BY <1>3, <3>1, <3>2 DEF PendingWillBeTried
    <3>3. CASE ~NonePending
      BY <1>1, <1>3, <3>3 DEF PendingWillBeTried, NonePending, Open
    <3> QED
      BY <1>3, <3>2, <3>3
  <2> QED
    BY <1>1, <2>1, <2>3, <2>4, <2>5, <2>6, <2>7 DEF StepIsRight, IInv, BooksAfter
<1>4. CASE SubmitRefused(r, c)
  <2>1. UNCHANGED <<request_pool, pending_requests, in_device, answered, need, user, caller,
                    virtio_device, dropped>>
    BY <1>4 DEF SubmitRefused
  <2>2. Types' /\ Placed' /\ Owned' /\ Room'
    BY <2>1 DEF Open, Types, Placed, Owned, Room
  <2>3. InOrder /\ (PendingWillBeTried => PendingWillBeTried')
    BY <2>1 DEF InOrder, PendingWillBeTried
  <2> QED
    BY <1>1, <2>2, <2>3 DEF StepIsRight, IInv
<1> QED
  BY <1>2, <1>3, <1>4 DEF SubmitOrDefer, Accepts

(* requestFromPool for an idle client.                                     *)
LEMMA RequestRight ==
  ASSUME Open, NEW c \in Clients, caller[c] = "idle",
         NEW n \in 2 .. QueueSize, NEW state \in {"waiting", "asleep"},
         requestFromPool(c, n, state), UNCHANGED <<answered, virtio_device, dropped>>,
         gate' \in {"free", "client_called", "client_returned"},
         gate' = "free" => gate = "free"
  PROVE  StepIsRight
<1>1. CASE \E r \in request_pool : SubmitOrDefer(r, c, n, state)
  BY <1>1, SubmitOrDeferRight
<1>2. CASE /\ caller' = [caller EXCEPT ![c] = "pool_wait"]
           /\ UNCHANGED <<request_pool, pending_requests, in_device, need, user>>
  <2>1. \A r \in Structures : user[r] # c
    BY NoClientAssumption DEF Open, Owned
  <2>2. \A d \in Clients : caller'[d] = IF d = c THEN "pool_wait" ELSE caller[d]
    BY <1>2 DEF Open, Types
  <2>3. \A r \in Structures : user[r] # NoClient => caller'[user[r]] = caller[user[r]]
    BY <2>1, <2>2 DEF Open, Types
  <2>4. Types'
    BY <1>2, SMTT(60) DEF Open, Types
  <2>5. Placed'
    BY <1>2, <2>3 DEF Open, Placed
  <2>6. Owned'
    BY <1>2, <2>2, <2>3 DEF Open, Owned
  <2>7. Room'
    BY <1>2 DEF Open, Room
  <2>8. InOrder /\ (PendingWillBeTried => PendingWillBeTried')
    BY <1>2 DEF InOrder, PendingWillBeTried
  <2> QED
    BY <2>4, <2>5, <2>6, <2>7, <2>8, SMTT(60) DEF StepIsRight, IInv, Open
<1> QED
  BY <1>1, <1>2 DEF requestFromPool

(* The three calls of a client.                                            *)
LEMMA CallsRight ==
  ASSUME Open, NEW c \in Clients,
         \/ \E n \in Needs : doAsyncReadWrite(c, n)
         \/ ReadWriteRejected(c)
         \/ DirectionRejected(c)
         \/ doSynchronizeCache(c)
  PROVE  StepIsRight
<1>1. ASSUME NEW n \in Needs, doAsyncReadWrite(c, n) PROVE StepIsRight
  <2>1. n \in 2 .. QueueSize
    BY NeedsAssumption
  <2>2. /\ caller[c] = "idle" /\ requestFromPool(c, n, "waiting")
        /\ UNCHANGED <<answered, virtio_device, dropped>>
    BY <1>1 DEF doAsyncReadWrite, Calls
  <2>3. /\ gate' \in {"free", "client_called", "client_returned"}
        /\ gate' = "free" => gate = "free"
    BY <1>1, Zenon DEF doAsyncReadWrite, MayReadWrite
  <2> QED
    BY <2>1, <2>2, <2>3, RequestRight
<1>2. CASE doSynchronizeCache(c)
  <2>1. FlushNeed \in 2 .. QueueSize
    BY QueueAssumption DEF FlushNeed
  <2>2. /\ caller[c] = "idle" /\ requestFromPool(c, FlushNeed, "asleep")
        /\ UNCHANGED <<answered, virtio_device, dropped>> /\ gate = "free" /\ gate' = gate
    BY <1>2 DEF doSynchronizeCache, Calls
  <2> QED
    BY <2>1, <2>2, RequestRight
<1>3. ASSUME ReadWriteRejected(c) \/ DirectionRejected(c) PROVE StepIsRight
  <2>1. /\ UNCHANGED <<pending_requests, in_device, answered, need, user, caller, virtio_device>>
        /\ gate' \in {"free", "client_called", "client_returned"}
        /\ gate' = "free" => gate = "free"
    BY <1>3, Zenon DEF ReadWriteRejected, DirectionRejected, Calls, MayReadWrite
  <2>2. PICK D : /\ request_pool' = request_pool \ D /\ dropped' = dropped \cup D
                 /\ D \subseteq request_pool
    <3>1. CASE ReadWriteRejected(c)
      <4>1. PICK D : D = {}
        BY Zenon
      <4>2. request_pool' = request_pool \ D /\ dropped' = dropped \cup D /\ D \subseteq request_pool
        BY <3>1, <4>1 DEF ReadWriteRejected
      <4> QED
        BY <4>2, Zenon
    <3>2. CASE DirectionRejected(c)
      BY <3>2, Zenon DEF DirectionRejected
    <3> QED
      BY <1>3, <3>1, <3>2
  <2>3. Types'
    BY <2>1, <2>2, SMTT(60) DEF Open, Types
  <2>4. Placed'
    <3>1. request_pool' = {r \in Structures : user'[r] = NoClient} \ dropped'
      BY <2>1, <2>2 DEF Open, Placed
    <3>2. \A r \in dropped' : user'[r] = NoClient
      BY <2>1, <2>2 DEF Open, Placed
    <3> QED
      BY <2>1, <3>1, <3>2, SMTT(60) DEF Open, Placed
  <2>5. Owned' /\ Room'
    BY <2>1 DEF Open, Owned, Room
  <2>6. InOrder /\ (PendingWillBeTried => PendingWillBeTried')
    BY <2>1 DEF InOrder, PendingWillBeTried
  <2> QED
    BY <2>1, <2>3, <2>4, <2>5, <2>6 DEF StepIsRight, IInv, Open
<1> QED
  BY <1>1, <1>2, <1>3

-----------------------------------------------------------------------------
(* Completions *)

(* The structure r of an operation that has ended returns to the pool.     *)
Releases(r) ==
  /\ request_pool' = request_pool \cup {r}
  /\ caller' = [caller EXCEPT ![user[r]] = "idle"]
  /\ user' = [user EXCEPT ![r] = NoClient]
  /\ need' = [need EXCEPT ![r] = 0]
  /\ UNCHANGED <<pending_requests, in_device, dropped>>

(* Its client has no structure any more, and the others keep theirs.       *)
LEMMA ReleaseRight ==
  ASSUME Open, NEW r \in Structures, user[r] # NoClient, Releases(r),
         r \notin Range(pending_requests) \cup in_device,
         answered' = answered \ {r}, virtio_device' = virtio_device,
         gate' \in {"free", "client_called", "client_returned"}
  PROVE  IInv' /\ InOrder
<1> USE DEF Open
<1>1. PICK c \in Clients : c = user[r]
  BY DEF Types
<1>2. c # NoClient /\ \A s \in Structures : s # r => user[s] # c
  BY <1>1 DEF Owned
<1>3. \A s \in Structures : user'[s] = IF s = r THEN NoClient ELSE user[s]
  BY DEF Types, Releases
<1>4. \A d \in Clients : caller'[d] = IF d = c THEN "idle" ELSE caller[d]
  BY <1>1 DEF Types, Releases
<1>5. \A s \in Structures : s # r /\ user[s] # NoClient => caller'[user[s]] = caller[user[s]]
  BY <1>2, <1>4 DEF Types
<1>6. Types'
  BY <1>1, SMTT(60) DEF Types, Releases
<1>7. Placed'
  <2>1. request_pool' = {s \in Structures : user'[s] = NoClient} \ dropped'
    BY <1>3 DEF Placed, Releases
  <2>2. \A s \in dropped' : user'[s] = NoClient
    BY <1>3, SMTT(60) DEF Types, Placed, Releases
  <2>3. \A s \in Structures :
          s \in Queued' <=> user'[s] # NoClient /\ caller'[user'[s]] \in {"waiting", "asleep"}
    BY <1>3, <1>5 DEF Placed, Releases, Queued
  <2>4. /\ (Range(pending_requests) \cap in_device = {})'
        /\ (Range(pending_requests) \cap answered = {})'
        /\ (in_device \cap answered = {})' /\ IsInjective(pending_requests)'
    BY DEF Placed, Releases
  <2> QED
    BY <2>1, <2>2, <2>3, <2>4 DEF Placed, Queued
<1>8. Owned'
  <2>1. \A s, t \in Structures : user'[s] = user'[t] /\ user'[s] # NoClient => s = t
    BY <1>3, SMTT(60) DEF Owned
  <2>2. \A s \in Structures :
          user'[s] # NoClient => caller'[user'[s]] \in {"waiting", "asleep", "woken"}
    BY <1>3, <1>5 DEF Owned
  <2>3. \A d \in Clients :
          caller'[d] \in {"waiting", "asleep", "woken"} => \E s \in Structures : user'[s] = d
    <3> SUFFICES ASSUME NEW d \in Clients, caller'[d] \in {"waiting", "asleep", "woken"}
                 PROVE  \E s \in Structures : user'[s] = d
      OBVIOUS
    <3>1. d # c /\ caller'[d] = caller[d]
      BY <1>4, SMTT(60)
    <3>2. PICK s \in Structures : user[s] = d
      BY <3>1 DEF Owned
    <3> QED
      BY <1>1, <1>3, <3>1, <3>2
  <2> QED
    BY <2>1, <2>2, <2>3, SMTT(60) DEF Owned
<1>9. Room'
  <2>1. \A s \in Structures : user'[s] # NoClient => need'[s] \in 2 .. QueueSize
    BY <1>3 DEF Types, Room, Releases
  <2>2. PICK S : S = in_device \cup answered
    BY Zenon
  <2>3. PICK T : T = S \ {r}
    BY Zenon
  <2>4. (in_device \cup answered)' = T /\ S \subseteq Structures /\ T \subseteq Structures
    BY <2>2, <2>3 DEF Releases, Types
  <2>5. Types /\ r \notin T /\ need' = [need EXCEPT ![r] = 0]
    BY <2>3 DEF Releases
  <2>6. Taken(T, need') = Taken(T, need)
    BY ONLY <2>4, <2>5, r \in Structures, TakenOfOthers, Zenon
  <2>7. Taken(T, need) <= QueueSize
    <3>1. Taken(S, need) <= QueueSize
      BY <2>2 DEF Room
    <3>2. CASE r \notin S
      <4>1. T = S
        BY <2>3, <3>2
      <4> QED
        BY <3>1, <4>1
    <3>3. CASE r \in S
      <4>1. IsFiniteSet(S) /\ (\A s \in S : need[s] \in Nat) /\ Taken(S, need) \in Nat
        BY <2>4, StructureSets
      <4>2. Taken(S, need) = need[r] + Taken(S \ {r}, need) /\ Taken(S \ {r}, need) \in Nat
        BY ONLY <3>3, <4>1, TakenWithout
      <4>3. need[r] \in Nat /\ QueueSize \in Nat
        BY QueueAssumption DEF Types
      <4>4. Taken(S \ {r}, need) <= QueueSize
        BY ONLY <3>1, <4>2, <4>3
      <4> QED
        BY ONLY <2>3, <4>4, Zenon
    <3> QED
      BY <3>2, <3>3
  <2> QED
    BY <2>1, <2>4, <2>6, <2>7, SMTT(60) DEF Room
<1>10. InOrder
  BY DEF InOrder, Releases
<1> QED
  BY <1>6, <1>7, <1>8, <1>9, <1>10 DEF IInv

(* blockRequestCompleted and the end of doSynchronizeCacheOnWorkLoop.      *)
LEMMA EndsRight ==
  ASSUME Open, NEW r \in Structures, blockRequestCompleted(r) \/ FlushReturns(r)
  PROVE  StepIsRight
<1>1. CASE blockRequestCompleted(r)
  <2>1. /\ r \in answered /\ Releases(r) /\ answered' = answered \ {r}
        /\ virtio_device' = virtio_device /\ gate' = "client_called"
    BY <1>1, SMTT(60) DEF blockRequestCompleted, Releases
  <2>2. user[r] # NoClient /\ r \notin Range(pending_requests) \cup in_device
    BY <2>1 DEF Open, Placed
  <2>3. IInv' /\ InOrder
    BY <2>1, <2>2, ReleaseRight
  <2>4. PendingWillBeTried'
    BY <2>1 DEF PendingWillBeTried
  <2> QED
    BY <2>3, <2>4 DEF StepIsRight
<1>2. CASE FlushReturns(r)
  <2>1. /\ user[r] # NoClient /\ caller[user[r]] = "woken" /\ Releases(r)
        /\ UNCHANGED <<answered, virtio_device, gate>>
    BY <1>2, SMTT(60) DEF FlushReturns, Releases
  <2>2. r \notin Range(pending_requests) \cup in_device /\ answered' = answered \ {r}
    BY <2>1 DEF Open, Placed
  <2>3. gate' \in {"free", "client_called", "client_returned"}
    BY <2>1 DEF Open, Types
  <2>4. IInv' /\ InOrder
    BY <2>1, <2>2, <2>3, ReleaseRight
  <2>5. PendingWillBeTried => PendingWillBeTried'
    BY <2>1 DEF PendingWillBeTried, Releases
  <2> QED
    BY <2>4, <2>5, SMTT(60) DEF StepIsRight
<1> QED
  BY <1>1, <1>2

(* The books after requests have gone from the pending queue to the        *)
(* device, apart from what else the step does.                             *)
LEMMA HandledPlaces ==
  ASSUME Open, NEW queued, NEW F, Handled(queued, F)
  PROVE  /\ pending_requests' \in Seq(Structures) /\ in_device' \subseteq Structures
         /\ Range(pending_requests') \cup in_device' = Range(pending_requests) \cup in_device
         /\ Range(pending_requests') \cap in_device' = {}
         /\ Range(pending_requests') \cap answered = {}
         /\ in_device' \cap answered = {}
         /\ IsInjective(pending_requests')
         /\ in_device' = in_device \cup F
         /\ Taken(queued \cup F, need) <= QueueSize
         /\ SubmitFaults = FALSE /\ pending_requests' # <<>> => queued \cup F # {}
<1>1. Range(pending_requests) \subseteq Structures
  BY DEF Open, Types, Range
<1> QED
  BY <1>1 DEF Open, Types, Placed, Handled

(* blockRequestCompleted after the call of the client.                     *)
LEMMA CompletionReturnsRight ==
  ASSUME Open, BlockCompletionReturns
  PROVE  StepIsRight
<1>1. PICK queued : queued = in_device \cup answered
  BY Zenon
<1>2. /\ handlePendingRequests(queued) /\ gate' = "free"
      /\ UNCHANGED <<request_pool, answered, need, user, caller, virtio_device, dropped>>
  BY <1>1 DEF BlockCompletionReturns
<1>3. queued \subseteq in_device \cup answered /\ Taken(queued, need) <= QueueSize
  BY <1>1 DEF Open, Room
<1>4. (\E F : Handled(queued, F)) /\ InOrder
  BY <1>2, <1>3, PendingHandled DEF Open
<1>5. PICK F : Handled(queued, F)
  BY <1>4
<1>6. /\ pending_requests' \in Seq(Structures) /\ in_device' \subseteq Structures
      /\ Range(pending_requests') \cup in_device' = Range(pending_requests) \cup in_device
      /\ Range(pending_requests') \cap in_device' = {}
      /\ Range(pending_requests') \cap answered = {}
      /\ in_device' \cap answered = {}
      /\ IsInjective(pending_requests')
      /\ in_device' = in_device \cup F
      /\ Taken(queued \cup F, need) <= QueueSize
      /\ SubmitFaults = FALSE /\ pending_requests' # <<>> => queued \cup F # {}
  BY <1>5, HandledPlaces, Zenon
<1>7. queued \cup F = (in_device \cup answered)'
  BY <1>1, <1>2, <1>6
<1>8. Types'
  BY <1>2, <1>6 DEF Open, Types
<1>9. Placed'
  <2>1. Range(pending_requests') \cup in_device' \cup answered' = Queued
    BY <1>2, <1>6 DEF Queued
  <2> QED
    BY <1>2, <1>6, <2>1 DEF Open, Placed, Queued
<1>10. Owned'
  BY <1>2 DEF Open, Owned
<1>11. Room'
  BY <1>2, <1>6, <1>7, Zenon DEF Open, Room
<1>12. SubmitFaults = FALSE => PendingWillBeTried'
  BY <1>6, <1>7 DEF PendingWillBeTried
<1> QED
  BY <1>2, <1>4, <1>8, <1>9, <1>10, <1>11, <1>12 DEF StepIsRight, IInv, Open

(* flushRequestCompleted wakes the client and looks at the pending         *)
(* requests, with the descriptors of the flush free again.                 *)
LEMMA FlushCompletedRight ==
  ASSUME Open, NEW r \in Structures, flushRequestCompleted(r)
  PROVE  StepIsRight
<1>1. PICK queued : queued = in_device \cup (answered \ {r})
  BY Zenon
<1>2. /\ r \in answered /\ handlePendingRequests(queued) /\ answered' = answered \ {r}
      /\ caller[user[r]] = "asleep" /\ caller' = [caller EXCEPT ![user[r]] = "woken"]
      /\ UNCHANGED <<request_pool, need, user, gate, virtio_device, dropped>>
  BY <1>1 DEF flushRequestCompleted
<1>3. PICK c \in Clients : c = user[r]
  BY <1>2 DEF Open, Types, Placed
<1>4. /\ \A s \in Structures : s # r => user[s] # c
      /\ c # NoClient
  BY <1>3, NoClientAssumption DEF Open, Owned
<1>5. \A d \in Clients : caller'[d] = IF d = c THEN "woken" ELSE caller[d]
  BY <1>2, <1>3 DEF Open, Types
<1>6. \A s \in Structures : s # r /\ user[s] # NoClient => caller'[user[s]] = caller[user[s]]
  BY <1>4, <1>5 DEF Open, Types
<1>7. caller'[user[r]] = "woken"
  BY <1>3, <1>5
<1>8. Taken(queued, need) <= QueueSize /\ queued \subseteq in_device \cup answered
  <2>1. PICK S : S = in_device \cup answered
    BY Zenon
  <2>2. S \subseteq Structures /\ r \in S /\ queued = S \ {r}
    BY <1>1, <1>2, <2>1 DEF Open, Types, Placed
  <2>3. IsFiniteSet(S) /\ (\A s \in S : need[s] \in Nat) /\ Taken(S, need) \in Nat
    BY <2>2, StructureSets DEF Open
  <2>4. Taken(S, need) = need[r] + Taken(S \ {r}, need) /\ Taken(S \ {r}, need) \in Nat
    BY ONLY <2>2, <2>3, TakenWithout
  <2>5. need[r] \in Nat /\ QueueSize \in Nat /\ Taken(S, need) <= QueueSize
    BY <2>1, QueueAssumption DEF Open, Types, Room
  <2>6. Taken(S \ {r}, need) <= QueueSize
    BY ONLY <2>4, <2>5
  <2>7. Taken(queued, need) <= QueueSize
    BY ONLY <2>2, <2>6, Zenon
  <2> QED
    BY <1>1, <2>7
<1>9. (\E F : Handled(queued, F)) /\ InOrder
  BY <1>2, <1>8, PendingHandled DEF Open
<1>10. PICK F : Handled(queued, F)
  BY <1>9
<1>11. /\ pending_requests' \in Seq(Structures) /\ in_device' \subseteq Structures
       /\ Range(pending_requests') \cup in_device' = Range(pending_requests) \cup in_device
       /\ Range(pending_requests') \cap in_device' = {}
       /\ Range(pending_requests') \cap answered = {}
       /\ in_device' \cap answered = {}
       /\ IsInjective(pending_requests')
       /\ in_device' = in_device \cup F
       /\ Taken(queued \cup F, need) <= QueueSize
       /\ SubmitFaults = FALSE /\ pending_requests' # <<>> => queued \cup F # {}
  BY <1>10, HandledPlaces, Zenon
<1>12. queued \cup F = (in_device \cup answered)'
  BY <1>1, <1>2, <1>11
<1>13. Types'
  BY <1>2, <1>3, <1>11, SMTT(60) DEF Open, Types
<1>14. Placed'
  <2>1. Queued' = Queued \ {r}
    BY <1>2, <1>11, SMTT(60) DEF Queued, Open, Placed
  <2>2. \A s \in Structures :
          s \in Queued' <=> user'[s] # NoClient /\ caller'[user'[s]] \in {"waiting", "asleep"}
    BY <1>2, <1>6, <1>7, <2>1 DEF Open, Placed, Queued
  <2>3. /\ (Range(pending_requests) \cap in_device = {})'
        /\ (Range(pending_requests) \cap answered = {})'
        /\ (in_device \cap answered = {})' /\ IsInjective(pending_requests)'
    BY <1>2, <1>11, SMTT(60)
  <2>4. /\ request_pool' = {s \in Structures : user'[s] = NoClient} \ dropped'
        /\ \A s \in dropped' : user'[s] = NoClient
    BY <1>2 DEF Open, Placed
  <2> QED
    BY <2>2, <2>3, <2>4, SMTT(60) DEF Placed, Queued
<1>15. Owned'
  <2>1. \A s \in Structures :
          user'[s] # NoClient => caller'[user'[s]] \in {"waiting", "asleep", "woken"}
    BY <1>2, <1>6, <1>7 DEF Open, Owned
  <2>2. \A d \in Clients :
          caller'[d] \in {"waiting", "asleep", "woken"} => \E s \in Structures : user'[s] = d
    BY <1>2, <1>3, <1>5 DEF Open, Owned
  <2> QED
    BY <1>2, <2>1, <2>2 DEF Open, Owned
<1>16. Room'
  BY <1>2, <1>11, <1>12, Zenon DEF Open, Room
<1>17. SubmitFaults = FALSE => PendingWillBeTried'
  BY <1>11, <1>12 DEF PendingWillBeTried
<1> QED
  BY <1>2, <1>9, <1>13, <1>14, <1>15, <1>16, <1>17 DEF StepIsRight, IInv, Open

(* The device answers, and the driver is closed.                           *)
LEMMA OthersRight ==
  ASSUME Open, endDeviceOperation \/ \E r \in Structures : DeviceAnswers(r)
  PROVE  StepIsRight
<1>1. CASE endDeviceOperation
  <2>1. /\ virtio_device' = "closed" /\ in_device' = {} /\ answered' = {} /\ gate' = "free"
        /\ UNCHANGED <<request_pool, pending_requests, need, user, caller, dropped>>
    BY <1>1 DEF endDeviceOperation
  <2>2. Types'
    BY <2>1 DEF Open, Types
  <2>3. InOrder /\ PendingWillBeTried'
    BY <2>1 DEF InOrder, PendingWillBeTried
  <2> QED
    BY <2>1, <2>2, <2>3 DEF StepIsRight, IInv
<1>2. ASSUME NEW r \in Structures, DeviceAnswers(r) PROVE StepIsRight
  <2>1. /\ r \in in_device /\ in_device' = in_device \ {r} /\ answered' = answered \cup {r}
        /\ UNCHANGED <<request_pool, pending_requests, need, user, caller, gate,
                       virtio_device, dropped>>
    BY <1>2 DEF DeviceAnswers
  <2>2. (in_device \cup answered)' = in_device \cup answered
    BY <2>1
  <2>3. Types'
    BY <2>1, SMTT(60) DEF Open, Types
  <2>4. Placed'
    <3>1. Queued' = Queued
      BY <2>1 DEF Queued
    <3> QED
      BY <2>1, <3>1 DEF Open, Placed, Queued
  <2>5. Owned' /\ Room'
    BY <2>1, <2>2 DEF Open, Owned, Room
  <2>6. InOrder /\ (PendingWillBeTried => PendingWillBeTried')
    BY <2>1, <2>2 DEF InOrder, PendingWillBeTried
  <2> QED
    BY <2>1, <2>3, <2>4, <2>5, <2>6, SMTT(60) DEF StepIsRight, IInv, Open
<1> QED
  BY <1>1, <1>2

-----------------------------------------------------------------------------
(* Theorems *)

(* All structures in the pool.                                             *)
LEMMA InitEstablishes == Init => IInv /\ PendingWillBeTried
<1> SUFFICES ASSUME Init PROVE IInv /\ PendingWillBeTried
  OBVIOUS
<1>1. Types
  BY QueueAssumption DEF Init, Types
<1>2. Range(pending_requests) = {} /\ IsInjective(pending_requests)
  BY DEF Init, Range, IsInjective
<1>3. Placed
  BY <1>2 DEF Init, Placed
<1>4. Owned
  BY DEF Init, Owned
<1>5. Room
  <2>1. in_device \cup answered = {}
    BY DEF Init
  <2>2. Taken(in_device \cup answered, need) = 0
    BY <2>1, TakenNone
  <2> QED
    BY <2>2, QueueAssumption DEF Init, Room
<1>6. virtio_device = "open" /\ PendingWillBeTried
  BY DEF Init, PendingWillBeTried
<1> QED
  BY <1>1, <1>3, <1>4, <1>5, <1>6 DEF IInv

(* Once the driver is closed nothing happens.                              *)
LEMMA ClosedIsQuiet ==
  ASSUME IInv, Next
  PROVE  Open
<1>1. ASSUME virtio_device = "closed" PROVE FALSE
  <2>1. in_device = {} /\ answered = {} /\ gate = "free"
    BY <1>1 DEF IInv
  <2>2. ASSUME NEW c \in Clients, Calls(c) PROVE FALSE
    BY <1>1, <2>2 DEF Calls
  <2>3. ASSUME NEW c \in Clients,
               \/ \E n \in Needs : doAsyncReadWrite(c, n)
               \/ ReadWriteRejected(c)
               \/ DirectionRejected(c)
               \/ doSynchronizeCache(c)
        PROVE  FALSE
    BY <2>2, <2>3 DEF doAsyncReadWrite, ReadWriteRejected, DirectionRejected, doSynchronizeCache
  <2>4. ASSUME NEW r \in Structures,
               \/ blockRequestCompleted(r)
               \/ flushRequestCompleted(r)
               \/ FlushReturns(r)
               \/ DeviceAnswers(r)
        PROVE  FALSE
    BY <1>1, <2>1, <2>4
       DEF blockRequestCompleted, flushRequestCompleted, FlushReturns, DeviceAnswers
  <2>5. ~BlockCompletionReturns /\ ~endDeviceOperation
    BY <1>1, <2>1 DEF BlockCompletionReturns, endDeviceOperation
  <2> QED
    BY <2>3, <2>4, <2>5 DEF Next
<1> QED
  BY <1>1 DEF IInv, Open, Types

(* Every step is right.                                                    *)
LEMMA StepRight ==
  ASSUME IInv, [Next]_vars
  PROVE  StepIsRight
<1>1. CASE Next
  <2>1. Open
    BY <1>1, ClosedIsQuiet
  <2>2. ASSUME NEW c \in Clients,
               \/ \E n \in Needs : doAsyncReadWrite(c, n)
               \/ ReadWriteRejected(c)
               \/ DirectionRejected(c)
               \/ doSynchronizeCache(c)
        PROVE  StepIsRight
    BY <2>1, <2>2, CallsRight
  <2>3. ASSUME NEW r \in Structures, blockRequestCompleted(r) \/ FlushReturns(r)
        PROVE  StepIsRight
    BY <2>1, <2>3, EndsRight
  <2>4. ASSUME NEW r \in Structures, flushRequestCompleted(r) PROVE StepIsRight
    BY <2>1, <2>4, FlushCompletedRight
  <2>5. CASE BlockCompletionReturns
    BY <2>1, <2>5, CompletionReturnsRight
  <2>6. CASE endDeviceOperation \/ \E r \in Structures : DeviceAnswers(r)
    BY <2>1, <2>6, OthersRight
  <2> QED
    BY <1>1, <2>2, <2>3, <2>4, <2>5, <2>6 DEF Next
<1>2. CASE UNCHANGED vars
  <2>1. UNCHANGED <<request_pool, pending_requests, in_device, answered, need, user, caller,
                    gate, virtio_device, dropped>>
    BY <1>2, SMTT(60) DEF vars, queues
  <2>2. IInv'
    BY <2>1 DEF IInv, Types, Placed, Owned, Room
  <2>3. InOrder /\ (PendingWillBeTried => PendingWillBeTried')
    BY <2>1 DEF InOrder, PendingWillBeTried
  <2> QED
    BY <2>2, <2>3 DEF StepIsRight
<1> QED
  BY <1>1, <1>2

(* The invariant holds in every reachable state of the driver.             *)
THEOREM Invariance == Spec => []IInv
<1>1. IInv /\ [Next]_vars => IInv'
  BY StepRight, Zenon DEF StepIsRight
<1>2. Init => IInv
  BY InitEstablishes
<1> QED
  BY <1>1, <1>2, PTL DEF Spec

(* The members of a tuple of five sets.                                    *)
LEMMA FiveSets ==
  ASSUME NEW a, NEW b, NEW c, NEW d, NEW e, NEW t, t = <<a, b, c, d, e>>
  PROVE  /\ UNION Range(t) = a \cup b \cup c \cup d \cup e
         /\ DOMAIN t = 1 .. 5
         /\ t[1] = a /\ t[2] = b /\ t[3] = c /\ t[4] = d /\ t[5] = e
<1>1. DOMAIN t = 1 .. 5 /\ t[1] = a /\ t[2] = b /\ t[3] = c /\ t[4] = d /\ t[5] = e
  OBVIOUS
<1>2. \A i : i \in 1 .. 5 <=> i \in {1, 2, 3, 4, 5}
  OBVIOUS
<1>3. Range(t) = {a, b, c, d, e}
  BY <1>1, <1>2 DEF Range
<1> QED
  BY <1>1, <1>3

(* Every structure is in one place, a client has exactly one while its     *)
(* operation is under way, and the requests in the virtqueue fit into it;  *)
(* whichever submissions fail, for any number of clients and structures.   *)
THEOREM RequestsAlwaysAccountedFor == Spec => []RequestsAccountedFor
<1>1. IInv => RequestsAccountedFor
  <2> SUFFICES ASSUME IInv, virtio_device = "open" PROVE RequestsAccountedFor
    BY DEF RequestsAccountedFor
  <2> USE DEF Open
  <2>1. Open
    BY DEF IInv
  <2>2. PICK W : W = {r \in Structures : user[r] # NoClient /\ caller[user[r]] = "woken"}
    BY Zenon
  <2>3. PICK P : P = Range(pending_requests)
    OBVIOUS
  <2>4. P \subseteq Structures
    BY <2>1, <2>3 DEF Types, Range
  <2>5. /\ UNION Range(Places) = request_pool \cup P \cup in_device \cup answered \cup W
        /\ DOMAIN Places = 1 .. 5
        /\ Places[1] = request_pool /\ Places[2] = P /\ Places[3] = in_device
        /\ Places[4] = answered /\ Places[5] = W
    <3>1. Places = <<request_pool, P, in_device, answered, W>>
      BY <2>2, <2>3 DEF Places
    <3> QED
      BY <3>1, FiveSets
  <2>6. request_pool \cup P \cup in_device \cup answered \cup W = Structures \ dropped
    <3>1. \A r \in Structures : r \in P \cup in_device \cup answered \cup W <=> user[r] # NoClient
      BY <2>1, <2>2, <2>3, SMTT(60) DEF Placed, Owned
    <3> QED
      BY <2>1, <2>2, <2>4, <3>1 DEF Types, Placed
  <2>7. /\ request_pool \cap P = {} /\ request_pool \cap in_device = {}
        /\ request_pool \cap answered = {} /\ request_pool \cap W = {}
        /\ P \cap in_device = {} /\ P \cap answered = {} /\ P \cap W = {}
        /\ in_device \cap answered = {} /\ in_device \cap W = {} /\ answered \cap W = {}
    BY <2>1, <2>2, <2>3, <2>4, SMTT(60) DEF Types, Placed
  <2>8. \A i, j \in DOMAIN Places : i # j => Places[i] \cap Places[j] = {}
    <3> SUFFICES ASSUME NEW i \in 1 .. 5, NEW j \in 1 .. 5, i # j
                 PROVE  Places[i] \cap Places[j] = {}
      BY <2>5
    <3>1. i \in {1, 2, 3, 4, 5} /\ j \in {1, 2, 3, 4, 5}
      OBVIOUS
    <3> HIDE DEF Open
    <3> QED
      BY <2>5, <2>7, <3>1
  <2>9. \A c \in Clients :
          caller[c] \in {"waiting", "asleep", "woken"} <=>
            Cardinality({r \in Structures : user[r] = c}) = 1
    <3> SUFFICES ASSUME NEW c \in Clients
                 PROVE  caller[c] \in {"waiting", "asleep", "woken"} <=>
                          Cardinality({r \in Structures : user[r] = c}) = 1
      OBVIOUS
    <3>1. PICK R : R = {r \in Structures : user[r] = c}
      BY Zenon
    <3>2. IsFiniteSet(R)
      BY <3>1, StructuresAssumption, FS_Subset
    <3>3. Cardinality(R) = 1 <=> \E x : R = {x}
      BY <3>2, FS_Singleton, Zenon
    <3>4. c # NoClient
      BY NoClientAssumption
    <3>5. ASSUME caller[c] \in {"waiting", "asleep", "woken"} PROVE \E x : R = {x}
      <4>1. PICK x \in Structures : user[x] = c
        BY <2>1, <3>5 DEF Owned
      <4>2. R = {x}
        BY <2>1, <3>1, <3>4, <4>1 DEF Owned
      <4> QED
        BY <4>2
    <3>6. ASSUME NEW x, R = {x} PROVE caller[c] \in {"waiting", "asleep", "woken"}
      <4>1. x \in Structures /\ user[x] = c
        BY <3>1, <3>6
      <4> QED
        BY <2>1, <3>4, <4>1 DEF Owned
    <3>7. Cardinality(R) = 1 <=> caller[c] \in {"waiting", "asleep", "woken"}
      BY <3>3, <3>5, <3>6
    <3> QED
      BY <3>1, <3>7
  <2>10. /\ IsInjective(pending_requests)
         /\ request_pool = {r \in Structures : user[r] = NoClient} \ dropped
         /\ Taken(in_device \cup answered, need) <= QueueSize
    BY <2>1 DEF Placed, Room
  <2> QED
    BY <2>5, <2>6, <2>8, <2>9, <2>10, Zenon DEF RequestsAccountedFor
<1> QED
  BY <1>1, Invariance, PTL

(* While requests are pending the virtqueue holds one whose completion     *)
(* tries them again, provided that submissions fail for want of room only. *)
THEOREM PendingAlwaysTried ==
  ASSUME SubmitFaults = FALSE
  PROVE  Spec => []PendingWillBeTried
<1> DEFINE Both == IInv /\ PendingWillBeTried
<1>1. Both /\ [Next]_vars => Both'
  BY StepRight, Zenon DEF StepIsRight
<1>2. Init => Both
  BY InitEstablishes
<1> QED
  BY <1>1, <1>2, PTL DEF Spec

(* Requests reach the device in the order in which they were made.         *)
THEOREM AlwaysServedInOrder == Spec => ServedInOrder
<1>1. IInv /\ [Next]_vars => [InOrder]_vars
  BY StepRight, Zenon DEF StepIsRight
<1>2. IInv /\ [Next]_vars =>
        [\A r \in in_device' \ in_device :
           \A i \in DOMAIN pending_requests :
             pending_requests[i] = r \/ r \notin Range(pending_requests) =>
               \A j \in 1 .. i : pending_requests[j] \in in_device']_vars
  BY <1>1 DEF InOrder
<1> QED
  BY <1>2, Invariance, PTL DEF Spec, ServedInOrder

=============================================================================
