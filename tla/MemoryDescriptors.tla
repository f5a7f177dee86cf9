-------------------------- MODULE MemoryDescriptors --------------------------
(***************************************************************************)
(* The driver's own memory descriptors, as network packets, block requests *)
(* and SCSI tasks use them.  PJMbufMemoryDescriptor describes a chain of   *)
(* mbufs and remembers in which mbuf the last answer lay;                  *)
(* SSDCMultiSubrangeMemoryDescriptor joins ranges of other descriptors to  *)
(* one buffer, in an array that stays the caller's own.  IODMACommand asks *)
(* either for physical segments, from the front to the back, and gives the *)
(* answers to the device.                                                  *)
(*                                                                         *)
(* A pooled structure (virtio_net_packet, VirtioBlockDeviceRequest) owns   *)
(* one combined descriptor and is used again and again.  An address is a   *)
(* number, a descriptor of I/O Kit the sequence of its physical addresses. *)
(***************************************************************************)
EXTENDS Integers, Sequences, FiniteSetsExt

CONSTANTS
  PageSize,
  PageMaps,     \* possible maps from virtual to physical pages
  Chains,       \* mbuf chains: sequences of [data, len], data being virtual
  DataBuffers,  \* buffers of a transfer: sequences of physical addresses
  Own,          \* the structures' own memory: "mem", "header", "status" and
                \* "task", each a sequence of physical addresses
  Parts,        \* [offset, length] of what "mem" and "task" contain:
                \* "packet_header", "to_device" and "from_device"
  MaxPrepares   \* bound: users that hold the combined descriptor prepared

ASSUME PageAssumption == PageSize \in Nat \ {0}

(* The bytes of an mbuf are in mapped pages.                               *)
ASSUME ChainsAssumption ==
  \A chain \in Chains :
    /\ chain \in Seq([data : Nat, len : Nat])
    /\ \A map \in PageMaps : \A i \in DOMAIN chain :
         \A v \in chain[i].data .. chain[i].data + chain[i].len - 1 : map[v \div PageSize] \in Nat

ASSUME BuffersAssumption == \A bytes \in DataBuffers : bytes \in Seq(Nat)

Mbuf == "mbuf_md"
Data == "buffer"
Descriptors == DOMAIN Own \cup {Data, Mbuf}
NoAnswer == [offset |-> 0, address |-> 0, length |-> 0, asked |-> FALSE]

VARIABLES
  structure,     \* "none", "pooled" or "in_use"
  kind,          \* "packet", "request" or "task"
  page_map,      \* where the pages of mbufs are in physical memory
  mbuf, cur_mbuf, cur_mbuf_begin,    \* of mbuf_md; cur_mbuf as a position
  data,          \* the buffer of the transfer
  array,         \* the caller's array of ranges, which subranges points to
  num_subranges,
  references,    \* on each descriptor, taken by the combined one
  prepare_count, \* of each descriptor
  users,         \* successful prepare() calls not yet followed by complete()
  position,      \* how far IODMACommand has come
  answer         \* the last answer of getPhysicalSegment

mbufVars == <<mbuf, cur_mbuf, cur_mbuf_begin>>
rangeVars == <<array, num_subranges, references>>
prepareVars == <<prepare_count, users>>
walkVars == <<position, answer>>
memoryVars == <<structure, kind, page_map, data, mbufVars, rangeVars, prepareVars, walkVars>>

MemoryInit ==
  /\ structure = "none" /\ kind = "packet"
  /\ page_map \in PageMaps
  /\ mbuf = <<>> /\ cur_mbuf = 1 /\ cur_mbuf_begin = 0
  /\ data = <<>>
  /\ array = <<>> /\ num_subranges = 0
  /\ references = [md \in Descriptors |-> 0]
  /\ prepare_count = [md \in Descriptors |-> 0] /\ users = 0
  /\ position = 0 /\ answer = NoAnswer

-----------------------------------------------------------------------------
(* PJMbufMemoryDescriptor *)

(* w[i] + ... + w[j], added up one after the other.                        *)
Total(w, i, j) ==
  LET upTo[n \in 0 .. j] == IF n < i THEN 0 ELSE upTo[n - 1] + w[n]
  IN  upTo[j]

(* Bytes in the mbufs i .. j of a chain.                                   *)
LengthOf(chain, i, j) == Total([k \in DOMAIN chain |-> chain[k].len], i, j)
mbufChainLen(chain) == LengthOf(chain, 1, Len(chain))

mbuf_data_to_physical(v) == (page_map[v \div PageSize] * PageSize) + (v % PageSize)

(* A descriptor that is still prepared is left as it is.                   *)
initWithMbuf(chain) ==
  IF prepare_count[Mbuf] # 0 THEN UNCHANGED mbufVars
  ELSE mbuf' = chain /\ cur_mbuf' = 1 /\ cur_mbuf_begin' = 0

\* Mutated form: always on from the mbuf of the last answer.
SearchForward(offset) == [at |-> cur_mbuf, begin |-> cur_mbuf_begin]

(* Where the search for the mbuf that contains offset starts.              *)
SearchFrom(offset) ==
  IF offset < cur_mbuf_begin THEN [at |-> 1, begin |-> 0]
  ELSE [at |-> cur_mbuf, begin |-> cur_mbuf_begin]

(* The mbuf in which it ends; empty ones are passed over.  None is left    *)
(* only if the chain was changed from outside.                             *)
MbufWith(offset) ==
  LET from == SearchFrom(offset)
      Behind(i) == from.begin + LengthOf(mbuf, from.at, i)
      found == {i \in from.at .. Len(mbuf) : offset < Behind(i)}
  IN  IF found = {} THEN [at |-> 1, begin |-> 0, left |-> FALSE]
      ELSE [at |-> Min(found), left |-> TRUE,
            begin |-> Behind(Min(found)) - mbuf[Min(found)].len]

(* From v on, page by page while they follow each other in memory.         *)
Extent(v, remain) ==
  LET breaks == {b \in v + 1 .. v + remain - 1 :
                   b % PageSize = 0 /\ mbuf_data_to_physical(b) # mbuf_data_to_physical(v) + (b - v)}
  IN  IF breaks = {} THEN remain ELSE Min(breaks) - v

(* The answer of mbuf_md, once the search has ended in the mbuf m.         *)
MbufSegment(m, offset) ==
  IF ~m.left THEN [address |-> 0, length |-> 0]
  ELSE LET v == mbuf[m.at].data + (offset - m.begin)
       IN  [address |-> mbuf_data_to_physical(v),
            length |-> Extent(v, mbuf[m.at].len - (offset - m.begin))]

(* getPhysicalSegment of mbuf_md moves the place it remembers.             *)
MbufGetPhysicalSegment(offset) ==
  LET m == MbufWith(offset) IN
  IF mbuf = <<>> \/ offset >= mbufChainLen(mbuf) THEN UNCHANGED mbufVars
  ELSE cur_mbuf' = m.at /\ cur_mbuf_begin' = m.begin /\ UNCHANGED mbuf

-----------------------------------------------------------------------------
(* SSDCMultiSubrangeMemoryDescriptor *)

Ranges == SubSeq(array, 1, num_subranges)
Named(ranges, md) == Cardinality({i \in DOMAIN ranges : ranges[i].md = md})

RangeStart(ranges, i) == Total([k \in DOMAIN ranges |-> ranges[k].length], 1, i - 1)
RangesLength(ranges) == RangeStart(ranges, Len(ranges) + 1)

(* The caller writes the array and calls initWithDescriptorRanges without  *)
(* copying: what that releases are the first num_subranges entries of the  *)
(* array as they are now.                                                  *)
initWithDescriptorRanges(ranges) ==
  LET written == ranges \o SubSeq(array, Len(ranges) + 1, Len(array)) IN
  /\ array' = written
  /\ num_subranges' = Len(ranges)
  /\ references' = [md \in Descriptors |->
       references[md] - Named(SubSeq(written, 1, num_subranges), md) + Named(ranges, md)]

(* The same with no ranges; the array stays as it is.                      *)
ReleaseRanges ==
  /\ num_subranges' = 0
  /\ references' = [md \in Descriptors |-> references[md] - Named(Ranges, md)]
  /\ UNCHANGED array

(* The first range that reaches beyond offset, or 0.                       *)
RangeAt(offset) ==
  LET hit == {i \in DOMAIN Ranges : offset < RangeStart(Ranges, i + 1)}
  IN  IF hit = {} THEN 0 ELSE Min(hit)

BytesOf(md) == IF md = Data THEN data ELSE Own[md]

(* I/O Kit's own getPhysicalSegment: as far as the addresses run on.       *)
BufferSegment(bytes, offset) ==
  LET breaks == {k \in offset + 2 .. Len(bytes) : bytes[k] # bytes[k - 1] + 1}
  IN  [address |-> bytes[offset + 1],
       length |-> (IF breaks = {} THEN Len(bytes) ELSE Min(breaks) - 1) - offset]

Clipped(length, range) == IF length > range.length THEN range.length ELSE length

(* The answer of the combined descriptor from its range i.                 *)
SegmentIn(i, offset) ==
  LET within == offset - RangeStart(Ranges, i) + Ranges[i].offset
      seg == IF Ranges[i].md = Mbuf THEN MbufSegment(MbufWith(within), within)
             ELSE BufferSegment(BytesOf(Ranges[i].md), within)
  IN  [address |-> seg.address, length |-> Clipped(seg.length, Ranges[i])]

(* getPhysicalSegment at the place IODMACommand has come to.  Only a range *)
(* of mbuf_md moves mbuf_md's own place.                                   *)
getPhysicalSegment ==
  LET i == RangeAt(position)
      seg == IF i = 0 THEN [address |-> 0, length |-> 0] ELSE SegmentIn(i, position)
  IN
  /\ structure = "in_use"
  /\ position < RangesLength(Ranges)
  /\ answer' = [offset |-> position, address |-> seg.address, length |-> seg.length, asked |-> TRUE]
  /\ position' = position + seg.length
  /\ IF i # 0 /\ Ranges[i].md = Mbuf
       THEN MbufGetPhysicalSegment(position - RangeStart(Ranges, i) + Ranges[i].offset)
       ELSE UNCHANGED mbufVars
  /\ UNCHANGED <<structure, kind, page_map, data, rangeVars, prepareVars>>

(* The descriptor is handed to an IODMACommand once more.                  *)
WalkAgain ==
  /\ structure = "in_use" /\ position > 0
  /\ position' = 0 /\ answer' = NoAnswer
  /\ UNCHANGED <<structure, kind, page_map, data, mbufVars, rangeVars, prepareVars>>

(* Counts with the first n ranges prepared, or completed, once more.       *)
PrepareFirst(count, n) == [md \in Descriptors |-> count[md] + Named(SubSeq(Ranges, 1, n), md)]
CompleteFirst(count, n) == [md \in Descriptors |-> count[md] - Named(SubSeq(Ranges, 1, n), md)]

\* Mutated form: members already prepared stay so.
UndoNot(count, n) == count

Undo(count, n) == CompleteFirst(count, n)

prepare ==
  /\ structure = "in_use" /\ users < MaxPrepares
  /\ prepare_count' = PrepareFirst(prepare_count, num_subranges)
  /\ users' = users + 1
  /\ UNCHANGED <<structure, kind, page_map, data, mbufVars, rangeVars, walkVars>>

(* The member failing is one of I/O Kit's; mbuf_md fails without an mbuf.  *)
prepareFails ==
  /\ structure = "in_use" /\ users < MaxPrepares
  /\ \E failing \in 1 .. num_subranges :
       /\ Ranges[failing].md = Mbuf => mbuf = <<>>
       /\ prepare_count' = Undo(PrepareFirst(prepare_count, failing - 1), failing - 1)
  /\ UNCHANGED <<structure, kind, page_map, data, mbufVars, rangeVars, users, walkVars>>

complete ==
  /\ structure = "in_use" /\ users > 0
  /\ prepare_count' = CompleteFirst(prepare_count, num_subranges)
  /\ users' = users - 1
  /\ UNCHANGED <<structure, kind, page_map, data, mbufVars, rangeVars, walkVars>>

-----------------------------------------------------------------------------
(* The users *)

(* allocPacket, virtio_block_device_request_create and the SCSI pools.     *)
Create(k) ==
  /\ structure = "none"
  /\ structure' = "pooled" /\ kind' = k
  /\ UNCHANGED <<page_map, data, mbufVars, rangeVars, prepareVars, walkVars>>

TakenFromPool(k) == structure = "pooled" /\ kind = k /\ structure' = "in_use"

Part(md, name) == [md |-> md, offset |-> Parts[name].offset, length |-> Parts[name].length]
Whole(md, bytes) == [md |-> md, offset |-> 0, length |-> Len(bytes)]

addPacketToQueue(chain) ==
  /\ TakenFromPool("packet")
  /\ initWithMbuf(chain)
  /\ initWithDescriptorRanges(<<Part("mem", "packet_header"),
                                [md |-> Mbuf, offset |-> 0, length |-> mbufChainLen(chain)]>>)
  /\ UNCHANGED <<kind, page_map, data, prepareVars, walkVars>>

(* The debugger's packet: a single mbuf, used up to pktSize, within a page.*)
sendPacket(m, pktSize) ==
  /\ TakenFromPool("packet")
  /\ pktSize <= m.len /\ (m.data % PageSize) + m.len <= PageSize
  /\ initWithMbuf(<<m>>)
  /\ initWithDescriptorRanges(<<Part("mem", "packet_header"),
                                [md |-> Mbuf, offset |-> 0, length |-> pktSize]>>)
  /\ UNCHANGED <<kind, page_map, data, prepareVars, walkVars>>

(* The parts lie in the structures' memory.                                *)
ASSUME OwnAssumption ==
  /\ {"mem", "header", "status", "task"} \subseteq DOMAIN Own
  /\ \A md \in DOMAIN Own : Own[md] \in Seq(Nat)
  /\ \A p \in {<<"mem", "packet_header">>, <<"task", "to_device">>, <<"task", "from_device">>} :
       LET part == Parts[p[2]] IN
       /\ part.offset \in Nat /\ part.length \in Nat
       /\ part.offset + part.length <= Len(Own[p[1]])

DataRange(bytes, offset, length) ==
  /\ offset + length <= Len(bytes)
  /\ data' = bytes

doAsyncReadWriteOnWorkLoop(bytes, length, write) ==
  LET buffer == [md |-> Data, offset |-> 0, length |-> length] IN
  /\ TakenFromPool("request")
  /\ DataRange(bytes, 0, length)
  /\ initWithDescriptorRanges(IF write THEN <<Whole("header", Own["header"]), buffer>>
                                       ELSE <<buffer, Whole("status", Own["status"])>>)
  /\ UNCHANGED <<kind, page_map, mbufVars, prepareVars, walkVars>>

ProcessParallelTaskInGate(bytes, offset, length, part) ==
  /\ TakenFromPool("task")
  /\ DataRange(bytes, offset, length)
  /\ initWithDescriptorRanges(<<Part("task", part), [md |-> Data, offset |-> offset, length |-> length]>>)
  /\ UNCHANGED <<kind, page_map, mbufVars, prepareVars, walkVars>>

ProcessParallelTaskNoData ==
  /\ TakenFromPool("task")
  /\ initWithDescriptorRanges(<<Part("task", "to_device")>>)
  /\ UNCHANGED <<kind, page_map, data, mbufVars, prepareVars, walkVars>>

\* Mutated form: the ranges of the last use stay.
FinishKeepingRanges ==
  /\ structure = "in_use" /\ users = 0
  /\ structure' = "pooled"
  /\ IF kind = "packet" THEN initWithMbuf(<<>>) ELSE UNCHANGED mbufVars
  /\ data' = <<>> /\ position' = 0 /\ answer' = NoAnswer
  /\ UNCHANGED <<kind, page_map, rangeVars, prepareVars>>

(* The submission failed or has completed, and everybody has let go.       *)
Finish ==
  /\ structure = "in_use" /\ users = 0
  /\ structure' = "pooled"
  /\ ReleaseRanges
  /\ IF kind = "packet" THEN initWithMbuf(<<>>) ELSE UNCHANGED mbufVars
  /\ data' = <<>> /\ position' = 0 /\ answer' = NoAnswer
  /\ UNCHANGED <<kind, page_map, prepareVars>>

(* flushPacketPool and virtio_block_device_request_free.                   *)
Free ==
  /\ structure = "pooled"
  /\ structure' = "none"
  /\ ReleaseRanges
  /\ UNCHANGED <<kind, page_map, data, mbufVars, prepareVars, walkVars>>

MemoryNext ==
  \/ \E k \in {"packet", "request", "task"} : Create(k)
  \/ \E chain \in Chains :
       \/ addPacketToQueue(chain)
       \/ \E pktSize \in 1 .. PageSize : Len(chain) = 1 /\ sendPacket(chain[1], pktSize)
  \/ \E bytes \in DataBuffers : \E length \in 0 .. Len(bytes) :
       \/ \E write \in BOOLEAN : doAsyncReadWriteOnWorkLoop(bytes, length, write)
       \/ \E offset \in 0 .. Len(bytes) - length : \E part \in {"to_device", "from_device"} :
            ProcessParallelTaskInGate(bytes, offset, length, part)
  \/ ProcessParallelTaskNoData
  \/ getPhysicalSegment \/ WalkAgain
  \/ prepare \/ prepareFails \/ complete
  \/ Finish \/ Free

MemorySpec == MemoryInit /\ [][MemoryNext]_memoryVars

-----------------------------------------------------------------------------
(* Properties *)

(* The sequences, one after the other.                                     *)
Joined(seqs) ==
  LET upTo[n \in 0 .. Len(seqs)] == IF n = 0 THEN <<>> ELSE upTo[n - 1] \o seqs[n]
  IN  upTo[Len(seqs)]

(* The physical addresses of all bytes, one after the other, worked out    *)
(* without segments.                                                       *)
MbufBytes == Joined([i \in DOMAIN mbuf |->
               [k \in 1 .. mbuf[i].len |-> mbuf_data_to_physical(mbuf[i].data + k - 1)]])
AllBytes == Joined([i \in DOMAIN Ranges |->
              SubSeq(IF Ranges[i].md = Mbuf THEN MbufBytes ELSE BytesOf(Ranges[i].md),
                     Ranges[i].offset + 1, Ranges[i].offset + Ranges[i].length)])

(* A part of a buffer ends where one of the segments in it does, or is of  *)
(* one segment: so does all memory that is physically contiguous.          *)
PartEndsWithSegment(bytes, offset, length) ==
  LET Break(k) == bytes[k] # bytes[k - 1] + 1
      end == offset + length
  IN  (end < Len(bytes) /\ \E k \in offset + 2 .. end : Break(k)) => Break(end + 1)

RangesEndWithSegments ==
  \A i \in DOMAIN Ranges : Ranges[i].md # Mbuf =>
    PartEndsWithSegment(BytesOf(Ranges[i].md), Ranges[i].offset, Ranges[i].length)

(* The end of the range that contains offset.                              *)
RangeEnd(offset) == RangeStart(Ranges, RangeAt(offset) + 1)

(* Every answer of getPhysicalSegment is a nonempty run of the bytes of    *)
(* the ranges as far as the range goes in which it starts, whatever chains *)
(* the mbuf descriptor described and whatever place it had come to.  It    *)
(* ends with that range, so that a walk gives the device exactly the bytes *)
(* of the ranges, if every range ends with a segment.  A part of a         *)
(* scattered buffer need not, and then an answer may run on beyond the     *)
(* range: line 149 cuts it to the length of the whole range.               *)
SegmentsAreTheBytes ==
  answer.asked =>
    /\ answer.length > 0
    /\ \A k \in 1 .. answer.length :
         answer.offset + k <= RangeEnd(answer.offset) =>
           AllBytes[answer.offset + k] = answer.address + k - 1
    /\ RangesEndWithSegments => answer.offset + answer.length <= RangeEnd(answer.offset)

(* prepare() prepares every member or none: after a failure at any member, *)
(* and after any mix of prepare() and complete(), each member is prepared  *)
(* once for every user and range, and a pooled structure not at all.       *)
PreparedAllOrNone ==
  \A md \in Descriptors : prepare_count[md] = users * Named(Ranges, md)

(* The combined descriptor holds one reference for every range it names    *)
(* now, although the array it would release from is the caller's and is    *)
(* written before initWithDescriptorRanges is told.                        *)
ReferencesMatchRanges ==
  \A md \in Descriptors : references[md] = Named(Ranges, md)

=============================================================================
