------------------------------ MODULE MemBalloon ------------------------------
(***************************************************************************)
(* The memory balloon driver (VirtioMemBalloonDevice.cpp).  The host asks  *)
(* for a number of pages through the configuration space; the driver       *)
(* reserves page frames and hands them over (inflate) or takes them back   *)
(* (deflate), one request at a time, through one shared array of page      *)
(* addresses, and after each request compares again.  Memory comes in big  *)
(* chunks and in single pages.                                             *)
(*                                                                         *)
(* Everything but start and the device runs in the work loop's gate.       *)
(***************************************************************************)
EXTENDS Integers, FiniteSets

CONSTANTS
  Frames,           \* the page frames of the machine
  BIG_CHUNK_PAGES,  \* frames in a big chunk: 512 in the code
  MaxRequested,     \* the host asks for at most this many pages
  MaxHostChanges,   \* bound on the changes the host makes
  Faults,           \* requests that may fail: subset of Queues
  EarlyChanges      \* whether the host may change its mind during start

Queues == {"inflate", "deflate"}

(* The allocator always finds frames: the largest request, the pages kept  *)
(* while it is reached, and one chunk.                                     *)
ASSUME ChunkAssumption == BIG_CHUNK_PAGES \in Nat \ {0, 1}
ASSUME FramesAssumption ==
  /\ MaxRequested \in Nat
  /\ IsFiniteSet(Frames)
  /\ Cardinality(Frames) >= MaxRequested + BIG_CHUNK_PAGES
ASSUME BoundAssumption == MaxHostChanges \in Nat
ASSUME BalloonFaultsAssumption == Faults \subseteq Queues
ASSUME EarlyAssumption == EarlyChanges \in BOOLEAN

VARIABLES
  phase,                     \* how far start has come, or that it is over
  pageBuffers,               \* single pages, each a set of one frame
  bigChunkBuffers,           \* big chunks, each a set of frames
  deflatingBuffers,          \* buffers being given back
  inflateDeflateInProgress,
  refused,                   \* history: requests that failed to be sent
  page_address_array,        \* frames whose addresses the shared array holds
  submitted, used,           \* requests the device has, and has answered
  num_pages, actual,         \* the two configuration fields
  ballooned,                 \* frames the host believes it was given
  config_event,              \* a configuration change to be delivered
  host_changes

buffers == <<pageBuffers, bigChunkBuffers, deflatingBuffers>>
requests == <<page_address_array, submitted, refused>>
hostVars == <<num_pages, ballooned, config_event, host_changes>>
vars == <<phase, buffers, inflateDeflateInProgress, requests, used, actual,
          hostVars>>

totalPagesAllocated ==
  Cardinality(bigChunkBuffers) * BIG_CHUNK_PAGES + Cardinality(pageBuffers)

(* start, when startDevice is about to be called.                          *)
Init ==
  /\ phase = "set_up"
  /\ pageBuffers = {} /\ bigChunkBuffers = {} /\ deflatingBuffers = {}
  /\ inflateDeflateInProgress = FALSE
  /\ refused = {}
  /\ page_address_array = {}
  /\ submitted = [q \in Queues |-> 0] /\ used = [q \in Queues |-> 0]
  /\ num_pages \in 0 .. MaxRequested
  /\ actual = 0
  /\ ballooned = {}
  /\ config_event = FALSE
  /\ host_changes = 0

-----------------------------------------------------------------------------
(* The operators below take the buffers that are being given back as their *)
(* caller leaves them.                                                     *)

Submit(queue) ==
  /\ submitted' = [submitted EXCEPT ![queue] = @ + 1]
  /\ UNCHANGED refused

Refused(queue) ==
  /\ queue \in Faults
  /\ refused' = refused \cup {queue}
  /\ UNCHANGED submitted

(* virtio_mem_balloon_create_reserved_buffer, n frames in buffers of size. *)
(* Memory is plentiful and wired memory has physical addresses.  Frames of *)
(* a chunk that left the arrays but is never freed are not seen again:     *)
(* their names stand for other frames from then on.                        *)
Allocations(n, size, deflating) ==
  LET free == Frames \ UNION (pageBuffers \cup bigChunkBuffers \cup deflating)
      frames == {T \in SUBSET free : Cardinality(T) = n}
  IN  IF size = 1 THEN {{{f} : f \in T} : T \in frames} ELSE {{T} : T \in frames}

(* The first buffers_created addresses are erased: one for a chunk.        *)
LeftInArray(chunks) ==
  IF chunks = {} THEN {{}} ELSE {UNION chunks \ {f} : f \in UNION chunks}

(* The end of inflateMemBalloon: submit, or undo the allocation.           *)
InflateWith(pages, chunks) ==
  \/ /\ pageBuffers' = pageBuffers \cup pages
     /\ bigChunkBuffers' = bigChunkBuffers \cup chunks
     /\ page_address_array' = UNION (pages \cup chunks)
     /\ Submit("inflate")
     /\ inflateDeflateInProgress' = TRUE
  \/ /\ Refused("inflate")
     /\ page_address_array' \in LeftInArray(chunks)
     /\ inflateDeflateInProgress' = FALSE
     /\ UNCHANGED <<pageBuffers, bigChunkBuffers>>

inflateMemBalloon(by, deflating) ==
  /\ \/ /\ by >= BIG_CHUNK_PAGES
        /\ \E chunks \in Allocations(BIG_CHUNK_PAGES, BIG_CHUNK_PAGES, deflating) :
             InflateWith({}, chunks)
     \/ /\ by < BIG_CHUNK_PAGES
        /\ \E pages \in Allocations(by, 1, deflating) : InflateWith(pages, {})
  /\ deflatingBuffers' = deflating

\* Mutated form: the buffers are freed when the request is sent.
DeflateWithFreeing(pages, chunks, deflating) ==
  /\ pageBuffers' = pageBuffers \ pages
  /\ bigChunkBuffers' = bigChunkBuffers \ chunks
  /\ deflatingBuffers' = deflating
  /\ page_address_array' = UNION (pages \cup chunks)
  /\ inflateDeflateInProgress' = TRUE
  /\ Submit("deflate")

(* The end of deflateMemBalloon.  Nothing is undone if the submit fails.   *)
DeflateWith(pages, chunks, deflating) ==
  /\ pageBuffers' = pageBuffers \ pages
  /\ bigChunkBuffers' = bigChunkBuffers \ chunks
  /\ deflatingBuffers' = deflating \cup pages \cup chunks
  /\ page_address_array' = UNION (pages \cup chunks)
  /\ inflateDeflateInProgress' = TRUE
  /\ Submit("deflate") \/ Refused("deflate")

AtMost(a, b) == IF a <= b THEN a ELSE b

(* Line 349: so many pages more, and a whole chunk can be given back.      *)
FillUp(by) == BIG_CHUNK_PAGES - by

deflateMemBalloon(by, deflating) ==
  LET wholeChunk == by >= BIG_CHUNK_PAGES /\ bigChunkBuffers # {}
      enoughPages == by <= Cardinality(pageBuffers)
  IN
  \/ /\ wholeChunk
     /\ \E chunk \in bigChunkBuffers : DeflateWith({}, {chunk}, deflating)
  \/ /\ ~wholeChunk /\ ~enoughPages
     /\ inflateMemBalloon(FillUp(by), deflating)
  \/ /\ ~wholeChunk /\ enoughPages
     /\ \E pages \in SUBSET pageBuffers :
          /\ Cardinality(pages) = AtMost(by, BIG_CHUNK_PAGES)
          /\ DeflateWith(pages, {}, deflating)

\* Mutated form: a request under way is not looked for.
NeverWait(inProgress) == FALSE

(* The early return at line 141.                                           *)
MustWait(inProgress) == inProgress

(* Compare what the host asks for with what it has; inProgress is the flag *)
(* as the caller leaves it.                                                *)
inflateDeflateIfNecessary(inProgress, deflating) ==
  LET total == totalPagesAllocated IN
  \/ /\ MustWait(inProgress) \/ total = num_pages
     /\ inflateDeflateInProgress' = inProgress
     /\ deflatingBuffers' = deflating
     /\ UNCHANGED <<pageBuffers, bigChunkBuffers, requests>>
  \/ /\ ~MustWait(inProgress) /\ total < num_pages
     /\ inflateMemBalloon(num_pages - total, deflating)
  \/ /\ ~MustWait(inProgress) /\ total > num_pages
     /\ deflateMemBalloon(total - num_pages, deflating)

-----------------------------------------------------------------------------
(* start.  The device runs, and can report changes, from startDevice on.   *)

Starting == {"no_arrays", "arrays", "cleared"}

StartStep(from, to) ==
  /\ phase = from
  /\ phase' = to
  /\ UNCHANGED <<used, actual, hostVars>>

StartDevice ==
  /\ StartStep("set_up", "no_arrays")
  /\ UNCHANGED <<buffers, inflateDeflateInProgress, requests>>

AllocateArrays ==
  /\ StartStep("no_arrays", "arrays")
  /\ UNCHANGED <<buffers, inflateDeflateInProgress, requests>>

ClearInProgress ==
  /\ StartStep("arrays", "cleared")
  /\ inflateDeflateInProgress' = FALSE
  /\ UNCHANGED <<buffers, requests>>

FirstComparison ==
  /\ StartStep("cleared", "running")
  /\ inflateDeflateIfNecessary(inflateDeflateInProgress, deflatingBuffers)

-----------------------------------------------------------------------------
(* The handlers, in the gate *)

(* deviceConfigChangeAction.  Without the arrays it dereferences null.     *)
ConfigChange ==
  /\ config_event
  /\ phase \in Starting \cup {"running"}
  /\ config_event' = FALSE
  /\ IF phase = "no_arrays"
     THEN /\ phase' = "null_dereference"
          /\ UNCHANGED <<buffers, inflateDeflateInProgress, requests>>
     ELSE /\ inflateDeflateIfNecessary(inflateDeflateInProgress, deflatingBuffers)
          /\ UNCHANGED phase
  /\ UNCHANGED <<used, actual, num_pages, ballooned, host_changes>>

Answered(queue) ==
  /\ used[queue] > 0
  /\ used' = [used EXCEPT ![queue] = @ - 1]
  /\ UNCHANGED <<phase, hostVars>>

\* Mutated form: the old value is written back.
ActualBefore == actual

(* Both completions write the new size back before they compare again.     *)
ActualWritten == totalPagesAllocated

InflateRequestCompleted ==
  /\ Answered("inflate")
  /\ actual' = ActualWritten
  /\ inflateDeflateIfNecessary(FALSE, deflatingBuffers)

\* Mutated form: no comparison after the request.
DeflateCompletedOnly ==
  /\ Answered("deflate")
  /\ actual' = ActualWritten
  /\ inflateDeflateInProgress' = FALSE
  /\ deflatingBuffers' = {}
  /\ UNCHANGED <<pageBuffers, bigChunkBuffers, requests>>

DeflateRequestCompleted ==
  /\ Answered("deflate")
  /\ actual' = ActualWritten
  /\ inflateDeflateIfNecessary(FALSE, {})

(* endDeviceOperation, from stop or didTerminate: the queues are gone and  *)
(* no completion is called.                                                *)
End ==
  /\ phase = "running"
  /\ phase' = "ended"
  /\ submitted' = [q \in Queues |-> 0] /\ used' = [q \in Queues |-> 0]
  /\ UNCHANGED <<buffers, inflateDeflateInProgress, page_address_array, refused,
                 actual, hostVars>>

-----------------------------------------------------------------------------
(* The host.  The configuration change reaches the driver in the end       *)
(* (InterruptDelivery); several changes may be reported as one.            *)

HostChanges(n) ==
  /\ host_changes < MaxHostChanges
  /\ phase \in {"running"} \cup (IF EarlyChanges THEN Starting ELSE {})
  /\ host_changes' = host_changes + 1
  /\ num_pages' = n
  /\ config_event' = TRUE
  /\ UNCHANGED <<phase, buffers, inflateDeflateInProgress, requests, used,
                 actual, ballooned>>

(* The device reads the array when it takes the request.                   *)
HostAnswers(queue) ==
  /\ submitted[queue] > 0
  /\ submitted' = [submitted EXCEPT ![queue] = @ - 1]
  /\ used' = [used EXCEPT ![queue] = @ + 1]
  /\ ballooned' = IF queue = "inflate" THEN ballooned \cup page_address_array
                  ELSE ballooned \ page_address_array
  /\ UNCHANGED <<phase, buffers, inflateDeflateInProgress, page_address_array,
                 refused, actual, num_pages, config_event, host_changes>>

-----------------------------------------------------------------------------
Start == StartDevice \/ AllocateArrays \/ ClearInProgress \/ FirstComparison

Next ==
  \/ Start
  \/ ConfigChange
  \/ InflateRequestCompleted
  \/ DeflateRequestCompleted
  \/ End
  \/ \E n \in 0 .. MaxRequested : HostChanges(n)
  \/ \E queue \in Queues : HostAnswers(queue)

Spec == Init /\ [][Next]_vars

(* start runs to its end, notifications and completions are delivered, and *)
(* the host answers the requests it is given.                              *)
Fairness ==
  /\ WF_vars(Start)
  /\ WF_vars(ConfigChange)
  /\ WF_vars(InflateRequestCompleted)
  /\ WF_vars(DeflateRequestCompleted)
  /\ \A queue \in Queues : WF_vars(HostAnswers(queue))

FairSpec == Spec /\ Fairness

-----------------------------------------------------------------------------
Outstanding == submitted["inflate"] + submitted["deflate"]
               + used["inflate"] + used["deflate"]

(* The guest never gets to use a frame the host thinks it was given: every *)
(* such frame belongs to a buffer the driver still holds, also while a     *)
(* deflation is answered but not yet completed.                            *)
BalloonedFramesAreReserved ==
  ballooned \subseteq UNION (pageBuffers \cup bigChunkBuffers \cup deflatingBuffers)

(* The shared page_address_array belongs to one request at a time: "check  *)
(* if an inflate/deflate request is in progress, and if so, return         *)
(* immediately" (line 140).                                                *)
OneRequestAtATime == Outstanding <= 1

(* Between requests the host reads the true size of the balloon, and its   *)
(* own books agree, unless a deflation failed.                             *)
ActualIsTrue ==
  phase = "running" /\ Outstanding = 0 /\ "deflate" \notin refused =>
    actual = totalPagesAllocated /\ Cardinality(ballooned) = actual

(* The balloon gets to the size the host asked for last, and stays there,  *)
(* unless a request failed.                                                *)
ReachesRequestedSize ==
  <>[](phase = "ended" \/ refused # {} \/ actual = num_pages)

=============================================================================
