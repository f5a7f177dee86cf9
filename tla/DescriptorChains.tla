--------------------------- MODULE DescriptorChains ---------------------------
(***************************************************************************)
(* Descriptor management of one virtqueue (VirtioLegacyPCIDevice.cpp): the *)
(* list of unused descriptors and the chains of submitted requests share   *)
(* the links VirtioBuffer::next_desc.  submitBuffersToVirtqueue takes      *)
(* descriptors off the unused list, links them into a chain and publishes  *)
(* it; processCompletedRequestsInVirtqueue walks a completed chain and     *)
(* puts its descriptors back.                                              *)
(*                                                                         *)
(* Here the rings are abstracted to the set of published heads: the device *)
(* may complete any of them.  Virtqueue.tla adds the rings.  Every handler *)
(* is one step because all of them run in the work loop's gate.            *)
(***************************************************************************)
EXTENDS Integers, FiniteSets

CONSTANTS
  NumEntries,        \* num_entries, the size of the descriptor table
  Requests,          \* the completion references clients pass in
  RequestShapes,     \* <<segments of readable buffer, of writable buffer>>
  TableSizes,        \* entries of an indirect table; 0: direct descriptors
  DMAFaults          \* the ways IODMACommand may fail in this instance

(* The failures of IODMACommand the callers in submitBuffers... can see.   *)
PrepareReadable == "prepare_readable" \* setMemoryDescriptor, readable buffer
PrepareWritable == "prepare_writable" \* setMemoryDescriptor, writable buffer
GenAfterSome    == "gen_after_some"   \* genIOVMSegments, after some segments
GenBeforeAny    == "gen_before_any"   \* genIOVMSegments, before any segment
PrepareTable    == "prepare_table"    \* setMemoryDescriptor, indirect table
AllFaults == {PrepareReadable, PrepareWritable, GenAfterSome, GenBeforeAny,
              PrepareTable}

ASSUME NumEntriesAssumption == NumEntries \in Nat \ {0}
ASSUME ShapesAssumption == RequestShapes \subseteq Nat \X Nat
ASSUME TableSizesAssumption == TableSizes \subseteq Nat
ASSUME FaultsAssumption == DMAFaults \subseteq AllFaults

VARIABLES
  indirect_desc_per_request,      \* 0 if the queue uses no indirect descriptors
  next_desc,                      \* VirtioBuffer::next_desc
  first_unused_descriptor_index,
  num_unused_descriptors,
  completion,                     \* VirtioBuffer::completion
  dma_cmd_used,                   \* descriptors whose dma_cmd_used is set
  dma_mapped,                     \* descriptors whose DMA commands hold a buffer
  descriptor_table,               \* what the device reads
  in_flight,                      \* heads published and not yet processed
  pending,                        \* the clients' view: shape of each request
  result                          \* return value if the last step was a submit

listVars == <<next_desc, first_unused_descriptor_index, num_unused_descriptors>>
dmaVars == <<dma_cmd_used, dma_mapped>>
vars == <<indirect_desc_per_request, listVars, completion, dmaVars,
          descriptor_table, in_flight, pending, result>>

Desc == 0 .. NumEntries - 1
Indirect == indirect_desc_per_request > 0  \* queue->indirect_descriptors
NoDesc == -1
NoRequest == "no_completion"
Idle == <<0, 0>>

(***************************************************************************)
(* A segment as its descriptor describes it: the request and buffer it     *)
(* belongs to, its position in that buffer, the DEVICE_WRITABLE flag.  A   *)
(* descriptor table entry holds one segment, or all of them when the entry *)
(* is INDIRECT; next is NoDesc when the NEXT flag is clear.                *)
(***************************************************************************)
Segment(r, shape, i) ==
  [request |-> r, position |-> i, writable |-> i > shape[1]]

Segments(r, shape) == [i \in 1 .. shape[1] + shape[2] |-> Segment(r, shape, i)]

NoEntry == [segs |-> <<>>, next |-> NoDesc]

(* setupVirtqueue: every descriptor is on the unused list, in index order, *)
(* and the queue uses indirect descriptors if the client asked for them    *)
(* and the device offers them.                                             *)
Init ==
  /\ indirect_desc_per_request \in TableSizes
  /\ next_desc = [d \in Desc |-> IF d = NumEntries - 1 THEN NoDesc ELSE d + 1]
  /\ first_unused_descriptor_index = 0
  /\ num_unused_descriptors = NumEntries
  /\ completion = [d \in Desc |-> NoRequest]
  /\ dma_cmd_used = {}
  /\ dma_mapped = {}
  /\ descriptor_table = [d \in Desc |-> NoEntry]
  /\ in_flight = {}
  /\ pending = [r \in Requests |-> Idle]
  /\ result = "none"

-----------------------------------------------------------------------------
Elements(c) == {c[i] : i \in DOMAIN c}

(* p is what k calls of reserveNewDescriptor return, one after the other.  *)
IsUnusedPrefix(p, k) ==
  /\ p \in [1 .. k -> Desc]
  /\ p[1] = first_unused_descriptor_index
  /\ \A i \in 1 .. k - 1 : p[i + 1] = next_desc[p[i]]

(***************************************************************************)
(* next_desc once outputVringDescSegment has emitted e segments on the     *)
(* descriptors p.  Linking p[i] to p[i+1] restores the link they had on    *)
(* the unused list, so the one lasting change is the end of the chain.  A  *)
(* reserved descriptor that got no segment keeps its old link.             *)
(***************************************************************************)
\* Mutated form: the last descriptor keeps its link.
LinkedUnterminated(next, p, e) == next

Linked(next, p, e) == IF e = 0 THEN next ELSE [next EXCEPT ![p[e]] = NoDesc]

(* c is the sequence of n descriptors the cleanup loops visit from head h. *)
IsWalk(next, h, c, n) ==
  /\ c \in [1 .. n -> Desc]
  /\ c[1] = h
  /\ \A i \in 1 .. n - 1 : c[i + 1] = next[c[i]]
  /\ next[c[n]] = NoDesc

(* next_desc after returnUnusedDescriptor on c[1], ..., c[n]; the unused   *)
(* list then starts at c[n].                                               *)
\* Mutated form: the returned descriptor is not linked to the list.
ReturnedAlone(next, first, c, n) ==
  [next EXCEPT ![c[1]] = NoDesc]

Returned(next, first, c, n) ==
  [d \in Desc |->
     IF \E i \in 1 .. n : c[i] = d
     THEN LET i == CHOOSE j \in 1 .. n : c[j] = d
          IN  IF i = 1 THEN first ELSE c[i - 1]
     ELSE next[d]]

(* fill_vring_descriptor for the segments of a request on descriptors p.   *)
\* Mutated form: the flags are added to the old ones.
FilledKeepingNext(r, shape, p, e) ==
  [d \in Desc |->
     IF \E i \in 1 .. e : p[i] = d
     THEN LET i == CHOOSE j \in 1 .. e : p[j] = d
          IN  [segs |-> <<Segment(r, shape, i)>>,
               next |-> IF i = e THEN descriptor_table[d].next ELSE p[i + 1]]
     ELSE descriptor_table[d]]

FilledDirect(r, shape, p, e) ==
  [d \in Desc |->
     IF \E i \in 1 .. e : p[i] = d
     THEN LET i == CHOOSE j \in 1 .. e : p[j] = d
          IN  [segs |-> <<Segment(r, shape, i)>>,
               next |-> IF i = e THEN NoDesc ELSE p[i + 1]]
     ELSE descriptor_table[d]]

(* The entry that describes the indirect table of a request.               *)
\* Mutated form: the second buffer starts at the first entry again.
FilledFromStart(r, shape, d) ==
  [descriptor_table EXCEPT ![d] =
     [segs |-> [i \in 1 .. shape[2] |-> Segment(r, shape, shape[1] + i)],
      next |-> NoDesc]]

FilledIndirect(r, shape, d) ==
  [descriptor_table EXCEPT ![d] = [segs |-> Segments(r, shape), next |-> NoDesc]]

(* The completion goes to the first descriptor of either buffer's chain.   *)
\* Mutated form: set for a readable buffer only.
CompletionOfReadable(r, shape, first) ==
  IF shape[1] > 0 THEN [completion EXCEPT ![first] = r] ELSE completion

CompletionSet(r, shape, first) == [completion EXCEPT ![first] = r]

-----------------------------------------------------------------------------
(* submitBuffersToVirtqueueDirect *)

MinDescsRequired(shape) ==
  (IF shape[1] > 0 THEN 1 ELSE 0) + (IF shape[2] > 0 THEN 1 ELSE 0)

(* max_segments for the readable buffer leaves one descriptor for the      *)
(* writable one; both are computed before their first descriptor is taken. *)
MaxReadable(shape) ==
  num_unused_descriptors - (IF shape[2] > 0 THEN 1 ELSE 0)

MaxWritable(shape) == num_unused_descriptors - shape[1]

RejectedDirect(shape) ==
  \/ MinDescsRequired(shape) > NumEntries
  \/ MinDescsRequired(shape) = 0
  \/ MinDescsRequired(shape) > num_unused_descriptors

(* The early returns, before any descriptor is taken. *)
RejectDirect(r, shape) ==
  /\ RejectedDirect(shape)
  /\ result' = IF MinDescsRequired(shape) > NumEntries THEN "Unsupported"
               ELSE IF MinDescsRequired(shape) = 0 THEN "BadArgument"
               ELSE "Busy"
  /\ UNCHANGED <<listVars, completion, dmaVars, descriptor_table, in_flight,
                 pending>>

Readable(shape, p) == IF shape[1] > 0 THEN {p[1]} ELSE {}
Writable(shape, p) == IF shape[2] > 0 THEN {p[shape[1] + 1]} ELSE {}

(* Both buffers fit: the chain is published and the request is under way.  *)
AcceptDirect(r, shape) ==
  LET k == shape[1] + shape[2] IN
  /\ ~RejectedDirect(shape)
  /\ shape[1] <= MaxReadable(shape)
  /\ shape[2] <= MaxWritable(shape)
  /\ \E p \in [1 .. k -> Desc] :
       /\ IsUnusedPrefix(p, k)
       /\ next_desc' = Linked(next_desc, p, k)
       /\ first_unused_descriptor_index' = next_desc[p[k]]
       /\ num_unused_descriptors' = num_unused_descriptors - k
       /\ completion' = CompletionSet(r, shape, p[1])
       /\ dma_cmd_used' = dma_cmd_used \cup Readable(shape, p) \cup Writable(shape, p)
       /\ dma_mapped' = dma_mapped \cup Readable(shape, p) \cup Writable(shape, p)
       /\ descriptor_table' = FilledDirect(r, shape, p, k)
       /\ in_flight' = in_flight \cup {p[1]}
  /\ pending' = [pending EXCEPT ![r] = shape]
  /\ result' = "Success"

(* The readable buffer cannot be prepared: its descriptor is put straight  *)
(* back, with dma_cmd_used still set.                                      *)
FailPrepareReadable(r, shape) ==
  LET d == first_unused_descriptor_index IN
  /\ PrepareReadable \in DMAFaults
  /\ ~RejectedDirect(shape)
  /\ shape[1] > 0
  /\ completion' = CompletionSet(r, shape, d)
  /\ dma_cmd_used' = dma_cmd_used \cup {d}
  /\ result' = "Error"
  /\ UNCHANGED <<listVars, dma_mapped, descriptor_table, in_flight, pending>>

(***************************************************************************)
(* The other ways a buffer can fail, as the number of descriptors reserved *)
(* and the number that received a segment by then.  A buffer with more     *)
(* segments than max_segments is cut short there.                          *)
(***************************************************************************)
GenFailures(segs, max, before, writable) ==
  LET Failure(k, e, prep) == [reserved |-> before + k, emitted |-> before + e,
                              writable |-> writable, prepared |-> prep]
  IN  (IF segs > max THEN {Failure(max, max, TRUE)} ELSE {})
      \cup (IF GenAfterSome \in DMAFaults
            THEN {Failure(k, k, TRUE) : k \in {j \in 1 .. segs : j <= max}} ELSE {})
      \cup (IF GenBeforeAny \in DMAFaults THEN {Failure(1, 0, TRUE)} ELSE {})
      \cup (IF writable /\ PrepareWritable \in DMAFaults
            THEN {Failure(1, 0, FALSE)} ELSE {})

DirectFailures(shape) ==
  (IF shape[1] > 0 THEN GenFailures(shape[1], MaxReadable(shape), 0, FALSE) ELSE {})
  \cup
  (IF shape[2] > 0 /\ shape[1] <= MaxReadable(shape)
   THEN GenFailures(shape[2], MaxWritable(shape), shape[1], TRUE) ELSE {})

(* dma_cmd_used when the cleanup loop starts; only the writable buffer's   *)
(* loop looks at the flags of the descriptors it returns.                  *)
\* Mutated form: the readable buffer is not flagged.
FlaggedWritableOnly(shape, p, f) ==
  IF f.writable /\ ~f.prepared THEN dma_cmd_used \cup {p[shape[1] + 1]}
  ELSE dma_cmd_used \ {p[f.reserved]}

FlaggedAtFailure(shape, p, f) ==
  IF ~f.writable THEN dma_cmd_used \ {p[1]}
  ELSE IF f.prepared
       THEN (dma_cmd_used \cup Readable(shape, p)) \ {p[shape[1] + 1]}
       ELSE dma_cmd_used \cup Readable(shape, p) \cup {p[shape[1] + 1]}

(* The failed buffer itself is released before the loop.                   *)
MappedAtFailure(shape, p, f) ==
  IF f.writable THEN dma_mapped \cup Readable(shape, p) ELSE dma_mapped

(* The descriptors reached from the first one are put back one by one.     *)
CleanUpDirect(r, shape, f, p, c, n) ==
  LET next == Linked(next_desc, p, f.emitted)
      flagged == FlaggedAtFailure(shape, p, f)
      cleared == IF f.writable THEN flagged \cap Elements(c) ELSE {}
  IN
  /\ IsWalk(next, p[1], c, n)
  /\ next_desc' = Returned(next, next_desc[p[f.reserved]], c, n)
  /\ first_unused_descriptor_index' = c[n]
  /\ num_unused_descriptors' = num_unused_descriptors - f.reserved + n
  /\ completion' = CompletionSet(r, shape, p[1])
  /\ dma_cmd_used' = flagged \ cleared
  /\ dma_mapped' = MappedAtFailure(shape, p, f) \ cleared
  /\ descriptor_table' = FilledDirect(r, shape, p, f.emitted)

FailDirect(r, shape) ==
  /\ ~RejectedDirect(shape)
  /\ \E f \in DirectFailures(shape) :
       \E p \in [1 .. f.reserved -> Desc] :
         /\ IsUnusedPrefix(p, f.reserved)
         /\ \E n \in 1 .. NumEntries : \E c \in [1 .. n -> Desc] :
              CleanUpDirect(r, shape, f, p, c, n)
  /\ result' = "Error"
  /\ UNCHANGED <<in_flight, pending>>

-----------------------------------------------------------------------------
(* submitBuffersToVirtqueueIndirect: one descriptor, whose table holds all *)
(* segments.  The early returns after line 901 keep the descriptor.        *)

RejectedIndirect(shape) ==
  \/ first_unused_descriptor_index = NoDesc
  \/ MinDescsRequired(shape) > indirect_desc_per_request
  \/ MinDescsRequired(shape) = 0

RejectIndirect(r, shape) ==
  /\ RejectedIndirect(shape)
  /\ IF first_unused_descriptor_index = NoDesc
     THEN /\ result' = "Busy"
          /\ UNCHANGED listVars
     ELSE /\ result' = IF MinDescsRequired(shape) = 0 THEN "BadArgument"
                       ELSE "Unsupported"
          /\ first_unused_descriptor_index' = next_desc[first_unused_descriptor_index]
          /\ num_unused_descriptors' = num_unused_descriptors - 1
          /\ UNCHANGED next_desc
  /\ UNCHANGED <<completion, dmaVars, descriptor_table, in_flight, pending>>

(* The readable buffer may use all but one entry if a writable one follows;*)
(* the writable one may use the rest.                                      *)
FitsTable(shape) ==
  /\ shape[1] <= indirect_desc_per_request - (IF shape[2] > 0 THEN 1 ELSE 0)
  /\ shape[2] <= indirect_desc_per_request - shape[1]

AcceptIndirect(r, shape) ==
  LET d == first_unused_descriptor_index IN
  /\ ~RejectedIndirect(shape)
  /\ FitsTable(shape)
  /\ next_desc' = Linked(next_desc, <<d>>, 1)
  /\ first_unused_descriptor_index' = next_desc[d]
  /\ num_unused_descriptors' = num_unused_descriptors - 1
  /\ completion' = CompletionSet(r, shape, d)
  /\ dma_cmd_used' = dma_cmd_used \cup {d}
  /\ dma_mapped' = dma_mapped \cup {d}
  /\ descriptor_table' = FilledIndirect(r, shape, d)
  /\ in_flight' = in_flight \cup {d}
  /\ pending' = [pending EXCEPT ![r] = shape]
  /\ result' = "Success"

\* Mutated form: the descriptor is not put back.
FailIndirectKeeping(r, shape) ==
  LET d == first_unused_descriptor_index IN
  /\ ~RejectedIndirect(shape)
  /\ ~FitsTable(shape) \/ DMAFaults # {}
  /\ first_unused_descriptor_index' = next_desc[d]
  /\ num_unused_descriptors' = num_unused_descriptors - 1
  /\ result' = "Error"
  /\ UNCHANGED <<next_desc, completion, dmaVars, descriptor_table, in_flight,
                 pending>>

\* Mutated form: buffers that do not fit the table are reported as Busy.
FailIndirectBusy(r, shape) ==
  LET d == first_unused_descriptor_index IN
  /\ ~RejectedIndirect(shape)
  /\ ~FitsTable(shape) \/ DMAFaults # {}
  /\ dma_cmd_used' = dma_cmd_used \cup {d}
  /\ result' = "Busy"
  /\ UNCHANGED <<listVars, completion, dma_mapped, descriptor_table, in_flight,
                 pending>>

(* Any later failure unmaps the buffers and puts the descriptor back, with *)
(* dma_cmd_used still set.  A failed setMemoryDescriptor of a buffer shows *)
(* as a failure of the genIOVMSegments that follows it.  Line 961 never    *)
(* sees a short result with kIOReturnSuccess, which line 967 would return: *)
(* the table is physically contiguous (line 364), so that one segment      *)
(* covers it.                                                              *)
FailIndirect(r, shape) ==
  LET d == first_unused_descriptor_index IN
  /\ ~RejectedIndirect(shape)
  /\ ~FitsTable(shape) \/ DMAFaults # {}
  /\ dma_cmd_used' = dma_cmd_used \cup {d}
  /\ result' = "Error"
  /\ UNCHANGED <<listVars, completion, dma_mapped, descriptor_table, in_flight,
                 pending>>

-----------------------------------------------------------------------------
(* A client never reuses a completion reference that is still pending.     *)
SubmitDirect(r, shape) ==
  /\ ~Indirect
  /\ pending[r] = Idle
  /\ \/ RejectDirect(r, shape)
     \/ AcceptDirect(r, shape)
     \/ FailPrepareReadable(r, shape)
     \/ FailDirect(r, shape)
  /\ UNCHANGED indirect_desc_per_request

SubmitIndirect(r, shape) ==
  /\ Indirect
  /\ pending[r] = Idle
  /\ \/ RejectIndirect(r, shape)
     \/ AcceptIndirect(r, shape)
     \/ FailIndirect(r, shape)
  /\ UNCHANGED indirect_desc_per_request

(***************************************************************************)
(* One turn of the loop in processCompletedRequestsInVirtqueue for head h: *)
(* the chain is walked and returned, then the completion action is called. *)
(* What the action does (usually another submit) is the next step.         *)
(***************************************************************************)
\* Mutated form: the block for indirect queues is missing.
ReleasedUnlessIndirect(c) == IF Indirect THEN {} ELSE dma_cmd_used \cap Elements(c)

Released(c) == dma_cmd_used \cap Elements(c)

CountReturned(n) == num_unused_descriptors + n

CompleteRequest(h) ==
  /\ \E n \in 1 .. NumEntries : \E c \in [1 .. n -> Desc] :
       /\ IsWalk(next_desc, h, c, n)
       /\ next_desc' = Returned(next_desc, first_unused_descriptor_index, c, n)
       /\ first_unused_descriptor_index' = c[n]
       /\ num_unused_descriptors' = CountReturned(n)
       /\ dma_cmd_used' = dma_cmd_used \ Elements(c)
       /\ dma_mapped' = dma_mapped \ Released(c)
  /\ in_flight' = in_flight \ {h}
  /\ pending' = [pending EXCEPT ![completion[h]] = Idle]
  /\ result' = "none"
  /\ UNCHANGED <<indirect_desc_per_request, completion, descriptor_table>>

Next ==
  \/ \E r \in Requests, shape \in RequestShapes : SubmitDirect(r, shape)
  \/ \E r \in Requests, shape \in RequestShapes : SubmitIndirect(r, shape)
  \/ \E h \in in_flight : CompleteRequest(h)

Spec == Init /\ [][Next]_vars
-----------------------------------------------------------------------------
(* The descriptors reached from h along the links next: the least set that *)
(* holds h and is closed under next.  It is empty for h = NoDesc.          *)
Reach(next, h) ==
  {d \in Desc : \A S \in SUBSET Desc :
     (h \in S \cup {NoDesc} /\ \A x \in S : next[x] \in S \cup {NoDesc}) => d \in S}

Unused == Reach(next_desc, first_unused_descriptor_index)
Chain(h) == Reach(next_desc, h)

(* From h the links lead to the end marker, not into a cycle.              *)
Terminated(h) == h = NoDesc \/ \E d \in Chain(h) : next_desc[d] = NoDesc

(* "If >= 0, an unused descriptor table entry, with all others chained     *)
(* along next_desc" (VirtioDevice.h:162): the unused list is a chain that  *)
(* ends, num_unused_descriptors is its length, and together with the       *)
(* chains of the requests in flight it covers every descriptor once.       *)
(* Submission, its cleanup loops and completion all relink the one array.  *)
DescriptorsPartitioned ==
  /\ Terminated(first_unused_descriptor_index)
  /\ Cardinality(Unused) = num_unused_descriptors
  /\ \A h \in in_flight : Terminated(h) /\ Chain(h) \cap Unused = {}
  /\ \A g, h \in in_flight : g # h => Chain(g) \cap Chain(h) = {}
  /\ Unused \cup UNION {Chain(h) : h \in in_flight} = Desc

(* The device, which follows the NEXT links of the descriptor table from a *)
(* published head, finds exactly the segments of the request, in order and *)
(* with the readable ones first, on the descriptors that the driver's own  *)
(* chain will return; links left in the table by earlier requests on the   *)
(* same descriptors never show.                                            *)
DeviceSeesRequests ==
  \A h \in in_flight :
    LET r == completion[h]
        segs == Segments(r, pending[r])
    IN  IF Indirect
        THEN descriptor_table[h] = [segs |-> segs, next |-> NoDesc]
        ELSE \E c \in [DOMAIN segs -> Desc] :
               /\ c[1] = h
               /\ \A i \in DOMAIN segs : descriptor_table[c[i]] =
                    [segs |-> <<segs[i]>>,
                     next |-> IF i + 1 \in DOMAIN segs THEN c[i + 1] ELSE NoDesc]
               /\ Elements(c) = Chain(h)

(* Each pending request has exactly one chain in flight, whose first       *)
(* descriptor carries its completion ("Only the completion of the first    *)
(* descriptor in the chain for a request is used", VirtioDevice.h:127), so *)
(* it completes once, and no completion that was not submitted is called.  *)
OneChainPerRequest ==
  /\ \A g, h \in in_flight : completion[g] = completion[h] => g = h
  /\ {completion[h] : h \in in_flight} = {r \in Requests : pending[r] # Idle}

(* While the device may access a request's buffers their DMA commands hold *)
(* them, flagged by dma_cmd_used so that completion will release them; and *)
(* no descriptor on the unused list holds a buffer of a finished or failed *)
(* request.                                                                *)
BuffersHeldWhileInFlight ==
  /\ dma_mapped \subseteq dma_cmd_used \ Unused
  /\ \A h \in in_flight :
       LET shape == pending[completion[h]] IN
       /\ h \in dma_mapped
       /\ ~Indirect /\ shape[1] > 0 /\ shape[2] > 0 =>
            \E d \in Chain(h) \ {h} : d \in dma_mapped /\
               descriptor_table[d].segs[1].position = shape[1] + 1

(* "clean up, return descriptors to unused list" (lines 776 and 839): a    *)
(* submission that does not succeed leaves the set of unused descriptors   *)
(* as it was and queues nothing.                                           *)
FailedSubmitReturnsDescriptors ==
  [][result' \notin {"none", "Success"} =>
       /\ Unused' = Unused
       /\ num_unused_descriptors' = num_unused_descriptors
       /\ in_flight' = in_flight]_vars

Contract == INSTANCE VirtioDevice WITH
  outstanding <- {r \in Requests : pending[r] # Idle},
  answer <- result

(* submitBuffersToVirtqueue and the calls of completion actions, seen from *)
(* the client, are those of VirtioDevice.h: an accepted request completes  *)
(* once, a refused one has no effect, and Busy is returned only while      *)
(* there is a request whose completion frees descriptors.  So failed       *)
(* submissions do not use the table up, if their buffers are not empty and *)
(* the indirect table has an entry for each: the returns of lines 913 to   *)
(* 920 keep a descriptor.                                                  *)
ImplementsVirtioDevice == Contract!Spec

=============================================================================
