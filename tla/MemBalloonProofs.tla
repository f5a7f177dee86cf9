--------------------------- MODULE MemBalloonProofs ---------------------------
(***************************************************************************)
(* Proofs about MemBalloon, for any memory, any size of a big chunk and    *)
(* any requests of the host and failures of the queues.  They assume that  *)
(* the host does not change its mind while start runs: what happens then   *)
(* is a run of its own.                                                    *)
(***************************************************************************)
EXTENDS MemBalloon, FiniteSetTheorems, FunctionTheorems, TLAPS

Types ==
  /\ phase \in {"set_up", "running", "ended"} \cup Starting
  /\ submitted \in [Queues -> Nat] /\ used \in [Queues -> Nat]

FramesOf(pages, chunks) == UNION (pages \cup chunks)
PagesOf(frames) == {{f} : f \in frames}

(* Buffers are disjoint and have the sizes that totalPagesAllocated counts *)
(* them with.                                                              *)
BooksOf(pages, chunks) ==
  /\ IsFiniteSet(pages) /\ IsFiniteSet(chunks)
  /\ FramesOf(pages, chunks) \subseteq Frames
  /\ \A a, b \in pages \cup chunks : a # b => a \cap b = {}
  /\ \A a \in pages : \E f \in Frames : a = {f}
  /\ \A c \in chunks : Cardinality(c) = BIG_CHUNK_PAGES
  /\ Cardinality(FramesOf(pages, chunks))
       = Cardinality(chunks) * BIG_CHUNK_PAGES + Cardinality(pages)

Reserved == FramesOf(pageBuffers, bigChunkBuffers)
Books == BooksOf(pageBuffers, bigChunkBuffers)

(* The requests sent and answered, inflations first.                       *)
Requests(sentInflate, sentDeflate, usedInflate, usedDeflate) ==
  /\ submitted["inflate"] = sentInflate /\ submitted["deflate"] = sentDeflate
  /\ used["inflate"] = usedInflate /\ used["deflate"] = usedDeflate

Idle ==
  /\ Requests(0, 0, 0, 0)
  /\ inflateDeflateInProgress = FALSE
  /\ deflatingBuffers = {}
  /\ ballooned = Reserved /\ actual = totalPagesAllocated
  /\ "deflate" \notin refused

Inflating ==
  /\ inflateDeflateInProgress = TRUE
  /\ deflatingBuffers = {}
  /\ \/ Requests(1, 0, 0, 0) /\ ballooned \cup page_address_array = Reserved
     \/ Requests(0, 0, 1, 0) /\ ballooned = Reserved
  /\ "deflate" \notin refused

Deflating ==
  /\ inflateDeflateInProgress = TRUE
  /\ page_address_array = UNION deflatingBuffers
  /\ page_address_array \cap Reserved = {}
  /\ \/ Requests(0, 1, 0, 0) /\ ballooned = Reserved \cup page_address_array
     \/ Requests(0, 0, 0, 1) /\ ballooned = Reserved
  /\ "deflate" \notin refused

(* A deflation could not be sent: nothing is sent from then on.            *)
Stuck ==
  /\ Requests(0, 0, 0, 0)
  /\ inflateDeflateInProgress = TRUE
  /\ BalloonedFramesAreReserved
  /\ "deflate" \in refused

Ended ==
  /\ phase = "ended"
  /\ Requests(0, 0, 0, 0)
  /\ BalloonedFramesAreReserved

Mode == Idle \/ Inflating \/ Deflating \/ Stuck \/ Ended

QuietStart ==
  phase \in {"set_up"} \cup Starting => config_event = FALSE /\ Idle

IInv == Types /\ Books /\ Mode /\ QuietStart

-----------------------------------------------------------------------------
(* Buffers and their frames *)

(* Counting what is added and what is taken away.                          *)
LEMMA DisjointUnion ==
  ASSUME NEW A, NEW B, IsFiniteSet(A), IsFiniteSet(B), A \cap B = {}
  PROVE  IsFiniteSet(A \cup B) /\ Cardinality(A \cup B) = Cardinality(A) + Cardinality(B)
<1>1. /\ IsFiniteSet(A \cup B)
      /\ Cardinality(A \cup B) = Cardinality(A) + Cardinality(B) - Cardinality(A \cap B)
  BY FS_Union
<1>2. Cardinality(A) \in Nat /\ Cardinality(B) \in Nat /\ Cardinality(A \cap B) = 0
  BY FS_CardinalityType, FS_EmptySet, Zenon
<1> QED
  BY <1>1, <1>2

(* The sizes of a set and of what is left when a part of it is removed.    *)
LEMMA PartRemoved ==
  ASSUME NEW A, NEW B, IsFiniteSet(A), B \subseteq A
  PROVE  /\ IsFiniteSet(A \ B) /\ IsFiniteSet(B)
         /\ Cardinality(A \ B) = Cardinality(A) - Cardinality(B)
<1>1. IsFiniteSet(A \ B) /\ Cardinality(A \ B) = Cardinality(A) - Cardinality(A \cap B)
  BY FS_Difference
<1>2. A \cap B = B /\ IsFiniteSet(B)
  BY FS_Subset
<1> QED
  BY <1>1, <1>2

(* There are as many pages of one frame as frames.                         *)
LEMMA Singletons ==
  ASSUME NEW T, IsFiniteSet(T)
  PROVE  /\ IsFiniteSet({{f} : f \in T}) /\ Cardinality({{f} : f \in T}) = Cardinality(T)
         /\ UNION {{f} : f \in T} = T
<1> DEFINE S == {{f} : f \in T}
           g == [f \in T |-> {f}]
<1>1. g \in [T -> S] /\ \A a, b \in T : g[a] = g[b] => a = b
  OBVIOUS
<1>2. \A t \in S : \E f \in T : g[f] = t
  OBVIOUS
<1>3. g \in Bijection(T, S)
  BY <1>1, <1>2, Fun_IsBij, Zenon
<1>4. ExistsBijection(T, S)
  BY <1>3, Zenon DEF ExistsBijection
<1>5. IsFiniteSet(S) /\ Cardinality(S) = Cardinality(T)
  BY <1>4, FS_Bijection
<1>6. UNION S = T
  OBVIOUS
<1> QED
  BY <1>5, <1>6

(* Frames are finitely many; a chunk is never a page.                      *)
LEMMA BooksFacts ==
  ASSUME NEW pages, NEW chunks, BooksOf(pages, chunks)
  PROVE  /\ IsFiniteSet(FramesOf(pages, chunks))
         /\ pages \cap chunks = {}
         /\ Cardinality(pages) \in Nat /\ Cardinality(chunks) \in Nat
         /\ BIG_CHUNK_PAGES \in Nat /\ BIG_CHUNK_PAGES > 1
<1>1. IsFiniteSet(FramesOf(pages, chunks))
  BY FramesAssumption, FS_Subset, Zenon DEF BooksOf
<1>2. BIG_CHUNK_PAGES \in Nat /\ BIG_CHUNK_PAGES > 1
  BY ChunkAssumption
<1>3. ASSUME NEW x \in pages \cap chunks PROVE FALSE
  <2>1. Cardinality(x) = BIG_CHUNK_PAGES
    BY DEF BooksOf
  <2>2. PICK f : x = {f}
    BY Zenon DEF BooksOf
  <2>3. Cardinality(x) = 1
    BY <2>2, FS_Singleton, Zenon
  <2> QED
    BY <2>1, <2>3, <1>2
<1>4. Cardinality(pages) \in Nat /\ Cardinality(chunks) \in Nat
  BY FS_CardinalityType DEF BooksOf
<1> QED
  BY <1>1, <1>2, <1>3, <1>4

(* Single pages of free frames join the buffers.                           *)
LEMMA AddPages ==
  ASSUME NEW pages, NEW chunks, BooksOf(pages, chunks),
         NEW T, T \subseteq Frames \ FramesOf(pages, chunks),
         NEW S, S = PagesOf(T)
  PROVE  /\ BooksOf(pages \cup S, chunks)
         /\ FramesOf(pages \cup S, chunks) = FramesOf(pages, chunks) \cup T
<1> DEFINE F == FramesOf(pages, chunks)
<1>0. S = {{f} : f \in T}
  BY DEF PagesOf
<1>1. /\ IsFiniteSet(F) /\ Cardinality(pages) \in Nat /\ Cardinality(chunks) \in Nat
      /\ BIG_CHUNK_PAGES \in Nat
  BY BooksFacts
<1>2. IsFiniteSet(T) /\ Cardinality(T) \in Nat
  BY FramesAssumption, FS_Subset, FS_CardinalityType
<1>3. IsFiniteSet(S) /\ Cardinality(S) = Cardinality(T) /\ UNION S = T
  BY <1>0, <1>2, Singletons, Zenon
<1>4. FramesOf(pages \cup S, chunks) = F \cup T
  BY <1>0, Zenon DEF FramesOf
<1>5. \A a \in pages \cup chunks : a \subseteq F
  BY DEF FramesOf
<1>6. pages \cap S = {}
  BY <1>0, <1>5
<1>7. /\ IsFiniteSet(pages \cup S)
      /\ Cardinality(pages \cup S) = Cardinality(pages) + Cardinality(T)
  <2>1. IsFiniteSet(pages)
    BY DEF BooksOf
  <2>2. IsFiniteSet(S) /\ Cardinality(S) = Cardinality(T)
    BY <1>3
  <2> QED
    BY ONLY <1>6, <2>1, <2>2, DisjointUnion
<1>8. Cardinality(F \cup T) = Cardinality(F) + Cardinality(T)
  <2>1. F \cap T = {}
    OBVIOUS
  <2> QED
    BY <1>1, <1>2, <2>1, DisjointUnion, Zenon
<1>9. \A a, b \in (pages \cup S) \cup chunks : a # b => a \cap b = {}
  <2>1. \A a, b \in pages \cup chunks : a # b => a \cap b = {}
    BY DEF BooksOf
  <2>2. \A a \in pages \cup chunks, b \in S : a \cap b = {} /\ b \cap a = {}
    BY <1>0, <1>5
  <2>3. \A a, b \in S : a # b => a \cap b = {}
    <3>1. SUFFICES ASSUME NEW a \in S, NEW b \in S, a # b PROVE a \cap b = {}
      OBVIOUS
    <3>2. PICK f, g : a = {f} /\ b = {g}
      BY ONLY <1>0, a \in S, b \in S, Zenon
    <3> QED
      BY ONLY <3>1, <3>2
  <2> QED
    BY ONLY <2>1, <2>2, <2>3
<1>10. \A a \in pages \cup S : \E f \in Frames : a = {f}
  BY <1>0 DEF BooksOf
<1>11. Cardinality(F \cup T)
         = Cardinality(chunks) * BIG_CHUNK_PAGES + Cardinality(pages \cup S)
  <2>1. Cardinality(F) = Cardinality(chunks) * BIG_CHUNK_PAGES + Cardinality(pages)
    BY DEF BooksOf
  <2> HIDE DEF F
  <2> QED
    BY ONLY <1>1, <1>2, <1>7, <1>8, <2>1
<1>12. F \cup T \subseteq Frames
  BY DEF BooksOf
<1> HIDE DEF F
<1>13. BooksOf(pages \cup S, chunks)
  <2>1. IsFiniteSet(chunks) /\ \A c \in chunks : Cardinality(c) = BIG_CHUNK_PAGES
    BY DEF BooksOf
  <2> QED
    BY ONLY <1>4, <1>7, <1>9, <1>10, <1>11, <1>12, <2>1, Zenon DEF BooksOf
<1> QED
  BY <1>4, <1>13 DEF F

(* A big chunk of free frames joins the buffers.                           *)
LEMMA AddChunk ==
  ASSUME NEW pages, NEW chunks, BooksOf(pages, chunks),
         NEW T, T \subseteq Frames \ FramesOf(pages, chunks),
         Cardinality(T) = BIG_CHUNK_PAGES
  PROVE  /\ BooksOf(pages, chunks \cup {T})
         /\ FramesOf(pages, chunks \cup {T}) = FramesOf(pages, chunks) \cup T
<1> DEFINE F == FramesOf(pages, chunks)
<1>1. /\ IsFiniteSet(F) /\ Cardinality(pages) \in Nat /\ Cardinality(chunks) \in Nat
      /\ BIG_CHUNK_PAGES \in Nat /\ BIG_CHUNK_PAGES > 1
  BY BooksFacts
<1>2. IsFiniteSet(T)
  BY FramesAssumption, FS_Subset
<1>3. FramesOf(pages, chunks \cup {T}) = F \cup T
  BY DEF FramesOf
<1>4. \A a \in pages \cup chunks : a \subseteq F
  BY DEF FramesOf
<1>5. T \notin chunks
  <2>1. T # {}
    BY <1>1, FS_EmptySet
  <2> QED
    BY <1>4, <2>1
<1>6. /\ IsFiniteSet(chunks \cup {T})
      /\ Cardinality(chunks \cup {T}) = Cardinality(chunks) + 1
  BY <1>5, FS_AddElement DEF BooksOf
<1>7. Cardinality(F \cup T) = Cardinality(F) + BIG_CHUNK_PAGES
  <2>1. F \cap T = {}
    OBVIOUS
  <2> QED
    BY <1>1, <1>2, <2>1, DisjointUnion
<1>8. \A a, b \in pages \cup (chunks \cup {T}) : a # b => a \cap b = {}
  BY <1>4 DEF BooksOf
<1>9. \A c \in chunks \cup {T} : Cardinality(c) = BIG_CHUNK_PAGES
  BY DEF BooksOf
<1>10. Cardinality(F \cup T)
         = Cardinality(chunks \cup {T}) * BIG_CHUNK_PAGES + Cardinality(pages)
  <2>1. Cardinality(F) = Cardinality(chunks) * BIG_CHUNK_PAGES + Cardinality(pages)
    BY DEF BooksOf
  <2>2. \A a, b \in Nat : (a + 1) * b = a * b + b
    OBVIOUS
  <2>3. \A a, b, c, x, y : a \in Nat /\ b \in Nat /\ c \in Nat /\ x = a * b + c /\ y = x + b =>
           y = (a + 1) * b + c
    BY <2>2
  <2> HIDE DEF F
  <2> QED
    BY <1>1, <1>6, <1>7, <2>1, <2>3
<1>11. F \cup T \subseteq Frames
  BY DEF BooksOf
<1> HIDE DEF F
<1>12. BooksOf(pages, chunks \cup {T})
  BY <1>3, <1>6, <1>8, <1>9, <1>10, <1>11, Zenon DEF BooksOf
<1> QED
  BY <1>3, <1>12 DEF F

(* Single pages leave the buffers.                                         *)
LEMMA TakePages ==
  ASSUME NEW pages, NEW chunks, BooksOf(pages, chunks), NEW P, P \subseteq pages
  PROVE  /\ BooksOf(pages \ P, chunks)
         /\ FramesOf(pages \ P, chunks) = FramesOf(pages, chunks) \ UNION P
         /\ UNION P \subseteq FramesOf(pages, chunks)
<1> DEFINE F == FramesOf(pages, chunks)
           T == UNION P
<1>1. /\ IsFiniteSet(F) /\ Cardinality(pages) \in Nat /\ Cardinality(chunks) \in Nat
      /\ BIG_CHUNK_PAGES \in Nat /\ pages \cap chunks = {}
  BY BooksFacts
<1>2. T \subseteq F
  BY DEF FramesOf
<1>3. FramesOf(pages \ P, chunks) = F \ T
  BY <1>1 DEF FramesOf, BooksOf
<1>4. /\ IsFiniteSet(T) /\ Cardinality(T) \in Nat
      /\ Cardinality(F \ T) = Cardinality(F) - Cardinality(T)
  BY <1>1, <1>2, PartRemoved, FS_CardinalityType
<1>5. P = {{f} : f \in T}
  BY DEF BooksOf
<1>6. Cardinality(P) = Cardinality(T)
  BY <1>4, <1>5, Singletons, Zenon
<1>7. /\ IsFiniteSet(pages \ P)
      /\ Cardinality(pages \ P) = Cardinality(pages) - Cardinality(T)
  BY <1>6, PartRemoved DEF BooksOf
<1>8. Cardinality(F \ T)
        = Cardinality(chunks) * BIG_CHUNK_PAGES + Cardinality(pages \ P)
  <2>1. Cardinality(F) = Cardinality(chunks) * BIG_CHUNK_PAGES + Cardinality(pages)
    BY DEF BooksOf
  <2> HIDE DEF F, T
  <2> QED
    BY <1>1, <1>4, <1>7, <2>1
<1> HIDE DEF F, T
<1>9. BooksOf(pages \ P, chunks)
  <2>1. F \ T \subseteq Frames
    BY DEF BooksOf, F
  <2>2. IsFiniteSet(chunks) /\ \A c \in chunks : Cardinality(c) = BIG_CHUNK_PAGES
    BY DEF BooksOf
  <2>3. \A a, b \in (pages \ P) \cup chunks : a # b => a \cap b = {}
    BY DEF BooksOf
  <2>4. \A a \in pages \ P : \E f \in Frames : a = {f}
    BY DEF BooksOf
  <2> QED
    BY <1>3, <1>7, <1>8, <2>1, <2>2, <2>3, <2>4, Zenon DEF BooksOf
<1> QED
  BY <1>2, <1>3, <1>9, Zenon DEF F, T

(* A big chunk leaves the buffers.                                         *)
LEMMA TakeChunk ==
  ASSUME NEW pages, NEW chunks, BooksOf(pages, chunks), NEW T \in chunks
  PROVE  /\ BooksOf(pages, chunks \ {T})
         /\ FramesOf(pages, chunks \ {T}) = FramesOf(pages, chunks) \ T
         /\ T \subseteq FramesOf(pages, chunks)
<1> DEFINE F == FramesOf(pages, chunks)
<1>1. /\ IsFiniteSet(F) /\ Cardinality(pages) \in Nat /\ Cardinality(chunks) \in Nat
      /\ BIG_CHUNK_PAGES \in Nat /\ pages \cap chunks = {}
  BY BooksFacts
<1>2. T \subseteq F
  BY DEF FramesOf
<1>3. FramesOf(pages, chunks \ {T}) = F \ T
  BY <1>1 DEF FramesOf, BooksOf
<1>4. Cardinality(F \ T) = Cardinality(F) - BIG_CHUNK_PAGES
  BY <1>1, <1>2, PartRemoved, Zenon DEF BooksOf
<1>5. /\ IsFiniteSet(chunks \ {T})
      /\ Cardinality(chunks \ {T}) = Cardinality(chunks) - 1
  BY FS_RemoveElement DEF BooksOf
<1>6. Cardinality(F \ T)
        = Cardinality(chunks \ {T}) * BIG_CHUNK_PAGES + Cardinality(pages)
  <2>1. Cardinality(F) = Cardinality(chunks) * BIG_CHUNK_PAGES + Cardinality(pages)
    BY DEF BooksOf
  <2>2. \A a, b \in Nat : (a - 1) * b = a * b - b
    OBVIOUS
  <2>3. \A a, b, c, x, y : a \in Nat /\ b \in Nat /\ c \in Nat /\ x = a * b + c /\ y = x - b =>
           y = (a - 1) * b + c
    BY <2>2
  <2> HIDE DEF F
  <2> QED
    BY <1>1, <1>4, <1>5, <2>1, <2>3
<1> HIDE DEF F
<1>7. BooksOf(pages, chunks \ {T})
  <2>1. F \ T \subseteq Frames
    BY DEF BooksOf, F
  <2>2. IsFiniteSet(pages) /\ \A c \in chunks \ {T} : Cardinality(c) = BIG_CHUNK_PAGES
    BY DEF BooksOf
  <2>3. \A a, b \in pages \cup (chunks \ {T}) : a # b => a \cap b = {}
    BY DEF BooksOf
  <2>4. \A a \in pages : \E f \in Frames : a = {f}
    BY DEF BooksOf
  <2> QED
    BY <1>3, <1>5, <1>6, <2>1, <2>2, <2>3, <2>4, Zenon DEF BooksOf
<1> QED
  BY <1>2, <1>3, <1>7 DEF F

-----------------------------------------------------------------------------
(* The comparison *)

(* An inflation: the frames asked for are free ones.                       *)
LEMMA Inflation ==
  ASSUME Types, Books, ballooned = Reserved, "deflate" \notin refused,
         submitted["inflate"] = 0, submitted["deflate"] = 0,
         ballooned' = ballooned, actual' = totalPagesAllocated,
         used'["inflate"] = 0, used'["deflate"] = 0,
         NEW by, inflateMemBalloon(by, {})
  PROVE  Books' /\ (Idle \/ Inflating)' /\ submitted' \in [Queues -> Nat]
<1>1. PICK pages, chunks :
        /\ InflateWith(pages, chunks)
        /\ BooksOf(pageBuffers \cup pages, bigChunkBuffers \cup chunks)
        /\ FramesOf(pageBuffers \cup pages, bigChunkBuffers \cup chunks)
             = Reserved \cup UNION (pages \cup chunks)
  <2> DEFINE free == Frames \ UNION (pageBuffers \cup bigChunkBuffers \cup {})
  <2>1. free = Frames \ FramesOf(pageBuffers, bigChunkBuffers)
    BY Zenon DEF FramesOf
  <2> HIDE DEF free
  <2>2. CASE \E chunks \in Allocations(BIG_CHUNK_PAGES, BIG_CHUNK_PAGES, {}) :
               InflateWith({}, chunks)
    <3>0. BIG_CHUNK_PAGES # 1
      BY ChunkAssumption
    <3>1. PICK T \in SUBSET free :
            Cardinality(T) = BIG_CHUNK_PAGES /\ InflateWith({}, {T})
      BY <2>2, <3>0, Zenon DEF Allocations, free
    <3>2. /\ BooksOf(pageBuffers, bigChunkBuffers \cup {T})
          /\ FramesOf(pageBuffers, bigChunkBuffers \cup {T}) = Reserved \cup T
      BY <2>1, <3>1, AddChunk DEF Books, Reserved
    <3>3. pageBuffers \cup {} = pageBuffers /\ UNION ({} \cup {T}) = T
      OBVIOUS
    <3>4. /\ InflateWith({}, {T})
          /\ BooksOf(pageBuffers \cup {}, bigChunkBuffers \cup {T})
          /\ FramesOf(pageBuffers \cup {}, bigChunkBuffers \cup {T})
               = Reserved \cup UNION ({} \cup {T})
      BY ONLY <3>1, <3>2, <3>3
    <3> QED
      BY ONLY <3>4, Zenon
  <2>3. CASE \E pages \in Allocations(by, 1, {}) : InflateWith(pages, {})
    <3>1. PICK T \in SUBSET free : InflateWith({{f} : f \in T}, {})
      BY <2>3, Zenon DEF Allocations, free
    <3>5. PICK S : S = PagesOf(T)
      OBVIOUS
    <3>0. T \subseteq Frames \ FramesOf(pageBuffers, bigChunkBuffers)
      BY <2>1, <3>1
    <3>2. /\ BooksOf(pageBuffers \cup S, bigChunkBuffers)
          /\ FramesOf(pageBuffers \cup S, bigChunkBuffers) = Reserved \cup T
      <4>1. BooksOf(pageBuffers, bigChunkBuffers)
        BY DEF Books
      <4> QED
        BY ONLY <3>0, <3>5, <4>1, AddPages, SMTT(60) DEF Reserved
    <3>3. bigChunkBuffers \cup {} = bigChunkBuffers /\ UNION (S \cup {}) = T
      BY <3>5 DEF PagesOf
    <3>4. InflateWith(S, {})
      BY <3>1, <3>5 DEF PagesOf
    <3>6. /\ BooksOf(pageBuffers \cup S, bigChunkBuffers \cup {})
          /\ FramesOf(pageBuffers \cup S, bigChunkBuffers \cup {})
               = Reserved \cup UNION (S \cup {})
      BY ONLY <3>2, <3>3, Zenon
    <3> QED
      BY ONLY <3>4, <3>6, Zenon
  <2> QED
    BY <2>2, <2>3, Zenon DEF inflateMemBalloon
<1>2. deflatingBuffers' = {}
  BY DEF inflateMemBalloon
<1>3. CASE Submit("inflate") /\ pageBuffers' = pageBuffers \cup pages
           /\ bigChunkBuffers' = bigChunkBuffers \cup chunks
           /\ page_address_array' = UNION (pages \cup chunks)
           /\ inflateDeflateInProgress' = TRUE
  <2>1. Books' /\ Reserved' = Reserved \cup page_address_array'
    BY <1>1, <1>3, Zenon DEF Books, Reserved
  <2>2. /\ submitted' = [submitted EXCEPT !["inflate"] = 1] /\ refused' = refused
        /\ submitted' \in [Queues -> Nat]
    BY <1>3 DEF Submit, Types, Queues
  <2>3. submitted'["inflate"] = 1 /\ submitted'["deflate"] = 0
    BY <2>2 DEF Types, Queues
  <2>4. Inflating'
    BY <1>2, <1>3, <2>1, <2>2, <2>3, Zenon DEF Inflating, Requests
  <2> QED
    BY <2>1, <2>2, <2>4, Zenon
<1>4. CASE Refused("inflate") /\ inflateDeflateInProgress' = FALSE
           /\ UNCHANGED <<pageBuffers, bigChunkBuffers>>
  <2>1. Books' /\ Reserved' = Reserved /\ totalPagesAllocated' = totalPagesAllocated
    BY <1>4, Zenon DEF Books, Reserved, totalPagesAllocated
  <2>2. submitted' = submitted /\ "deflate" \notin refused'
    BY <1>4 DEF Refused
  <2>3. Idle'
    BY <1>2, <1>4, <2>1, <2>2, Zenon DEF Idle, Requests
  <2> QED
    BY <2>1, <2>2, <2>3, Zenon DEF Types
<1> QED
  BY <1>1, <1>3, <1>4, Zenon DEF InflateWith

(* A deflation: its frames are out of the arrays, and the driver's still.  *)
LEMMA Deflation ==
  ASSUME Types, ballooned = Reserved, "deflate" \notin refused,
         submitted["inflate"] = 0, submitted["deflate"] = 0,
         ballooned' = ballooned,
         used'["inflate"] = 0, used'["deflate"] = 0,
         NEW pages, NEW chunks, DeflateWith(pages, chunks, {}),
         Books', Reserved' = Reserved \ UNION (pages \cup chunks),
         UNION (pages \cup chunks) \subseteq Reserved
  PROVE  Books' /\ (Deflating \/ Stuck)' /\ submitted' \in [Queues -> Nat]
<1> USE DEF DeflateWith
<1>1. /\ deflatingBuffers' = pages \cup chunks
      /\ page_address_array' = UNION deflatingBuffers'
      /\ page_address_array' = UNION (pages \cup chunks)
      /\ inflateDeflateInProgress' = TRUE
  OBVIOUS
<1>2. /\ page_address_array' \cap Reserved' = {}
      /\ ballooned' = Reserved' \cup page_address_array'
  BY <1>1
<1>3. CASE Submit("deflate")
  <2>1. /\ submitted' = [submitted EXCEPT !["deflate"] = 1] /\ refused' = refused
        /\ submitted' \in [Queues -> Nat]
    BY <1>3 DEF Submit, Types, Queues
  <2>2. submitted'["deflate"] = 1 /\ submitted'["inflate"] = 0
    BY <2>1 DEF Types, Queues
  <2>3. Deflating'
    BY <1>1, <1>2, <2>1, <2>2, Zenon DEF Deflating, Requests
  <2> QED
    BY <2>1, <2>3, Zenon
<1>4. CASE Refused("deflate")
  <2>1. submitted' = submitted /\ "deflate" \in refused'
    BY <1>4 DEF Refused
  <2>2. BalloonedFramesAreReserved'
    BY <1>1, <1>2 DEF BalloonedFramesAreReserved, Reserved, FramesOf
  <2>3. Stuck'
    BY <1>1, <2>1, <2>2, Zenon DEF Stuck, Requests
  <2> QED
    BY <2>1, <2>3, Zenon DEF Types
<1> QED
  BY <1>3, <1>4

(* inflateDeflateIfNecessary with nothing under way: whatever it decides,  *)
(* the books are right and there is one request at most.                   *)
LEMMA Comparison ==
  ASSUME Types, Books, ballooned = Reserved, "deflate" \notin refused,
         submitted["inflate"] = 0, submitted["deflate"] = 0,
         ballooned' = ballooned, actual' = totalPagesAllocated,
         used'["inflate"] = 0, used'["deflate"] = 0,
         inflateDeflateIfNecessary(FALSE, {})
  PROVE  Books' /\ Mode' /\ submitted' \in [Queues -> Nat]
<1> USE DEF inflateDeflateIfNecessary, MustWait
<1>1. CASE /\ inflateDeflateInProgress' = FALSE /\ deflatingBuffers' = {}
           /\ UNCHANGED <<pageBuffers, bigChunkBuffers, requests>>
  <2>1. Books' /\ Reserved' = Reserved /\ totalPagesAllocated' = totalPagesAllocated
    BY <1>1, Zenon DEF Books, Reserved, totalPagesAllocated
  <2>2. submitted' = submitted /\ refused' = refused
    BY <1>1 DEF requests
  <2>3. Idle'
    BY <1>1, <2>1, <2>2, Zenon DEF Idle, Requests
  <2> QED
    BY <2>1, <2>2, <2>3, Zenon DEF Mode, Types
<1>2. ASSUME NEW by, inflateMemBalloon(by, {})
      PROVE  Books' /\ Mode' /\ submitted' \in [Queues -> Nat]
  BY <1>2, Inflation, Zenon DEF Mode
<1>3. ASSUME NEW by, deflateMemBalloon(by, {})
      PROVE  Books' /\ Mode' /\ submitted' \in [Queues -> Nat]
  <2>1. ASSUME NEW chunk \in bigChunkBuffers, DeflateWith({}, {chunk}, {})
        PROVE  Books' /\ Mode' /\ submitted' \in [Queues -> Nat]
    <3>1. /\ BooksOf(pageBuffers, bigChunkBuffers \ {chunk})
          /\ FramesOf(pageBuffers, bigChunkBuffers \ {chunk}) = Reserved \ chunk
          /\ chunk \subseteq Reserved
      BY TakeChunk, Zenon DEF Books, Reserved
    <3>2. /\ pageBuffers' = pageBuffers /\ bigChunkBuffers' = bigChunkBuffers \ {chunk}
          /\ UNION ({} \cup {chunk}) = chunk
      BY <2>1 DEF DeflateWith
    <3>3. Books' /\ Reserved' = Reserved \ UNION ({} \cup {chunk})
      BY <3>1, <3>2, Zenon DEF Books, Reserved
    <3> QED
      BY <2>1, <3>1, <3>2, <3>3, Deflation, Zenon DEF Mode
  <2>2. ASSUME NEW pages \in SUBSET pageBuffers, DeflateWith(pages, {}, {})
        PROVE  Books' /\ Mode' /\ submitted' \in [Queues -> Nat]
    <3>1. /\ BooksOf(pageBuffers \ pages, bigChunkBuffers)
          /\ FramesOf(pageBuffers \ pages, bigChunkBuffers) = Reserved \ UNION pages
          /\ UNION pages \subseteq Reserved
      BY TakePages, Zenon DEF Books, Reserved
    <3>2. /\ pageBuffers' = pageBuffers \ pages /\ bigChunkBuffers' = bigChunkBuffers
          /\ pages \cup {} = pages
      BY <2>2 DEF DeflateWith
    <3>3. Books' /\ Reserved' = Reserved \ UNION (pages \cup {})
      BY <3>1, <3>2, Zenon DEF Books, Reserved
    <3> QED
      BY <2>2, <3>1, <3>2, <3>3, Deflation, Zenon DEF Mode
  <2> QED
    BY <1>2, <1>3, <2>1, <2>2, Zenon DEF deflateMemBalloon
<1> QED
  BY <1>1, <1>2, <1>3, Zenon

-----------------------------------------------------------------------------
(* Nothing is sent before start's own comparison.                          *)
LEMMA InitEstablishes == Init => IInv
<1> SUFFICES ASSUME Init PROVE IInv
  OBVIOUS
<1>1. IsFiniteSet({}) /\ Cardinality({}) = 0
  BY FS_EmptySet
<1>2. FramesOf({}, {}) = {}
  BY DEF FramesOf
<1>3. 0 * BIG_CHUNK_PAGES + 0 = 0
  BY ChunkAssumption
<1>4. Reserved = {} /\ totalPagesAllocated = 0
  BY <1>1, <1>2, <1>3, Zenon DEF Init, Reserved, totalPagesAllocated
<1>5. Books
  BY <1>1, <1>2, <1>3, Zenon DEF Init, Books, BooksOf
<1>6. Types
  BY DEF Init, Types, Starting
<1>7. Requests(0, 0, 0, 0)
  BY DEF Init, Requests, Queues
<1>8. Idle
  BY <1>4, <1>7, Zenon DEF Init, Idle
<1> QED
  BY <1>5, <1>6, <1>8, Zenon DEF Init, IInv, Mode, QuietStart

(* The configuration change and the end of start: they compare if nothing  *)
(* is under way, and do nothing otherwise.                                 *)
LEMMA ComparisonOrWait ==
  ASSUME Types, Books, Mode, phase # "ended",
         inflateDeflateIfNecessary(inflateDeflateInProgress, deflatingBuffers),
         UNCHANGED <<used, actual, ballooned>>
  PROVE  Books' /\ Mode' /\ submitted' \in [Queues -> Nat]
<1>1. CASE Idle
  BY <1>1, Comparison, Zenon DEF Idle, Requests
<1>2. CASE inflateDeflateInProgress = TRUE
  <2>1. UNCHANGED <<buffers, inflateDeflateInProgress, requests>>
    BY <1>2 DEF inflateDeflateIfNecessary, MustWait, buffers
  <2> QED
    BY <2>1, Zenon
    DEF Books, Mode, Idle, Inflating, Deflating, Stuck, Ended, Requests, Reserved,
        BalloonedFramesAreReserved, totalPagesAllocated, buffers, requests, Types
<1> QED
  BY <1>1, <1>2, Zenon DEF Mode, Inflating, Deflating, Stuck, Ended

(* One step per action.                                                    *)
LEMMA StepPreserves ==
  ASSUME EarlyChanges = FALSE, IInv, [Next]_vars
  PROVE  IInv'
<1> USE DEF IInv
<1>1. CASE StartDevice \/ AllocateArrays \/ ClearInProgress
  <2>1. Idle /\ config_event = FALSE
    BY <1>1
    DEF StartDevice, AllocateArrays, ClearInProgress, StartStep, QuietStart, Starting
  <2>2. Idle' /\ Books' /\ config_event' = FALSE
    BY <1>1, <2>1, Zenon
    DEF StartDevice, AllocateArrays, ClearInProgress, StartStep, Idle, Books, Reserved,
        totalPagesAllocated, Requests, buffers, requests, hostVars
  <2>3. Types'
    BY <1>1, Zenon
    DEF StartDevice, AllocateArrays, ClearInProgress, StartStep, Types, Starting, requests
  <2> QED
    BY <2>2, <2>3, Zenon DEF Mode, QuietStart
<1>2. CASE FirstComparison
  <2>1. Books' /\ Mode' /\ submitted' \in [Queues -> Nat]
    BY <1>2, ComparisonOrWait DEF FirstComparison, StartStep, hostVars
  <2> QED
    BY <1>2, <2>1 DEF FirstComparison, StartStep, Types, QuietStart, Starting
<1>3. CASE ConfigChange
  <2>1. phase = "running"
    BY <1>3 DEF ConfigChange, QuietStart
  <2>2. Books' /\ Mode' /\ submitted' \in [Queues -> Nat]
    BY <1>3, <2>1, ComparisonOrWait DEF ConfigChange
  <2> QED
    BY <1>3, <2>1, <2>2 DEF ConfigChange, Types, QuietStart, Starting
<1>4. CASE InflateRequestCompleted
  <2> USE <1>4 DEF InflateRequestCompleted, Answered
  <2>1. Inflating /\ Requests(0, 0, 1, 0) /\ ballooned = Reserved
    BY DEF Mode, Idle, Inflating, Deflating, Stuck, Ended, Requests
  <2>2. used' \in [Queues -> Nat] /\ used'["inflate"] = 0 /\ used'["deflate"] = 0
    BY <2>1 DEF Types, Requests, Queues
  <2>3. Books' /\ Mode' /\ submitted' \in [Queues -> Nat]
    BY <2>1, <2>2, Comparison, Zenon
    DEF Inflating, Requests, ActualWritten, hostVars
  <2>4. phase \notin {"set_up"} \cup Starting
    BY <2>1 DEF QuietStart, Idle, Inflating
  <2> QED
    BY <2>2, <2>3, <2>4, SMTT(60) DEF Types, QuietStart
<1>5. CASE DeflateRequestCompleted
  <2> USE <1>5 DEF DeflateRequestCompleted, Answered
  <2>1. Deflating /\ Requests(0, 0, 0, 1) /\ ballooned = Reserved
    BY DEF Mode, Idle, Inflating, Deflating, Stuck, Ended, Requests
  <2>2. used' \in [Queues -> Nat] /\ used'["inflate"] = 0 /\ used'["deflate"] = 0
    BY <2>1 DEF Types, Requests, Queues
  <2>3. Books' /\ Mode' /\ submitted' \in [Queues -> Nat]
    BY <2>1, <2>2, Comparison, Zenon
    DEF Deflating, Requests, ActualWritten, hostVars
  <2>4. phase \notin {"set_up"} \cup Starting
    BY <2>1 DEF QuietStart, Idle, Deflating
  <2> QED
    BY <2>2, <2>3, <2>4 DEF Types, QuietStart
<1>6. CASE End
  <2> USE <1>6 DEF End
  <2>1. BalloonedFramesAreReserved
    BY DEF Mode, Idle, Inflating, Deflating, Stuck, Ended, BalloonedFramesAreReserved,
           Reserved, FramesOf
  <2>2. BalloonedFramesAreReserved' /\ Books'
    BY <2>1, Zenon DEF BalloonedFramesAreReserved, Books, buffers, hostVars
  <2>3. Types' /\ Requests(0, 0, 0, 0)'
    BY DEF Types, Requests, Queues
  <2> QED
    BY <2>2, <2>3, Zenon DEF Mode, Ended, QuietStart, Starting
<1>7. ASSUME NEW n \in 0 .. MaxRequested, HostChanges(n) PROVE IInv'
  <2>1. phase = "running"
    BY <1>7 DEF HostChanges
  <2> QED
    BY <1>7, <2>1, Zenon
    DEF HostChanges, Types, Books, Mode, Idle, Inflating, Deflating, Stuck, Ended, Requests,
        Reserved, BalloonedFramesAreReserved, totalPagesAllocated, buffers, requests,
        QuietStart, Starting
<1>8. ASSUME NEW queue \in Queues, HostAnswers(queue) PROVE IInv'
  <2> USE <1>8 DEF HostAnswers
  <2>1. Types'
    BY DEF Types
  <2>2. Books' /\ Reserved' = Reserved
    BY Zenon DEF Books, Reserved, buffers
  <2>3. phase \notin {"set_up"} \cup Starting
    BY DEF QuietStart, Idle, Requests, Queues
  <2>4. CASE Inflating
    <3>1. queue = "inflate" /\ Requests(1, 0, 0, 0)
      BY <2>4 DEF Inflating, Requests, Queues
    <3>2. Requests(0, 0, 1, 0)'
      BY <3>1 DEF Requests, Types, Queues
    <3>3. ballooned' = Reserved'
      BY <2>2, <2>4, <3>1 DEF Inflating, Requests
    <3>4. Inflating'
      BY <2>4, <3>2, <3>3, Zenon DEF Inflating, buffers
    <3> QED
      BY <2>1, <2>2, <2>3, <3>4, Zenon DEF Mode, QuietStart
  <2>5. CASE Deflating
    <3>1. queue = "deflate" /\ Requests(0, 1, 0, 0)
      BY <2>5 DEF Deflating, Requests, Queues
    <3>2. Requests(0, 0, 0, 1)'
      BY <3>1 DEF Requests, Types, Queues
    <3>3. ballooned' = Reserved'
      BY <2>2, <2>5, <3>1 DEF Deflating, Requests
    <3>4. Deflating'
      BY <2>2, <2>5, <3>2, <3>3, Zenon DEF Deflating, buffers
    <3> QED
      BY <2>1, <2>2, <2>3, <3>4, Zenon DEF Mode, QuietStart
  <2>6. ~Requests(0, 0, 0, 0)
    BY DEF Requests, Queues
  <2> QED
    BY <2>4, <2>5, <2>6, Zenon DEF Mode, Idle, Stuck, Ended
<1>9. CASE UNCHANGED vars
  BY <1>9, Zenon
  DEF vars, Types, Books, Mode, Idle, Inflating, Deflating, Stuck, Ended, Requests, Reserved,
      BalloonedFramesAreReserved, totalPagesAllocated, buffers, requests, hostVars,
      QuietStart
<1> QED
  BY <1>1, <1>2, <1>3, <1>4, <1>5, <1>6, <1>7, <1>8, <1>9, Zenon DEF Next, Start

(* The inductive invariant holds in every state.                           *)
THEOREM Invariance ==
  ASSUME EarlyChanges = FALSE
  PROVE  Spec => []IInv
<1>1. IInv /\ [Next]_vars => IInv'
  BY StepPreserves, Zenon
<1> QED
  BY <1>1, InitEstablishes, PTL DEF Spec

(* The guest never gets a frame back that the host still counts as its     *)
(* own: deflatingBuffers keeps what deflateMemBalloon took out of the      *)
(* arrays until deflateRequestCompleted, and a request that cannot be sent *)
(* frees nothing the host has.                                             *)
THEOREM BalloonedFramesStayReserved ==
  ASSUME EarlyChanges = FALSE
  PROVE  Spec => []BalloonedFramesAreReserved
<1>1. IInv => BalloonedFramesAreReserved
  BY DEF IInv, Mode, Idle, Inflating, Deflating, Stuck, Ended, BalloonedFramesAreReserved,
         Reserved, FramesOf
<1> QED
  BY <1>1, Invariance, PTL

(* The flag inflateDeflateInProgress keeps the shared address array to one *)
(* request (the early return of inflateDeflateIfNecessary).                *)
THEOREM OneRequestAlways ==
  ASSUME EarlyChanges = FALSE
  PROVE  Spec => []OneRequestAtATime
<1>1. IInv => OneRequestAtATime
  BY DEF IInv, Mode, Idle, Inflating, Deflating, Stuck, Ended, Requests, OneRequestAtATime,
         Outstanding
<1> QED
  BY <1>1, Invariance, PTL

(* What the completions write back is the size of the balloon, and the     *)
(* host has as many frames, whatever chunks and pages it came in.          *)
THEOREM ActualAlwaysTrue ==
  ASSUME EarlyChanges = FALSE
  PROVE  Spec => []ActualIsTrue
<1>1. IInv => ActualIsTrue
  <2> SUFFICES ASSUME IInv, phase = "running", Outstanding = 0, "deflate" \notin refused
               PROVE  actual = totalPagesAllocated /\ Cardinality(ballooned) = actual
    BY DEF ActualIsTrue
  <2>1. Idle
    BY DEF IInv, Mode, Inflating, Deflating, Stuck, Ended, Requests, Outstanding
  <2>2. ballooned = Reserved /\ actual = totalPagesAllocated
    BY <2>1 DEF Idle
  <2>3. Cardinality(Reserved) = totalPagesAllocated
    BY DEF IInv, Books, BooksOf, Reserved, totalPagesAllocated
  <2> QED
    BY <2>2, <2>3
<1> QED
  BY <1>1, Invariance, PTL

=============================================================================
