# TLA+ models of the virtio drivers for OS X

This directory holds TLA+ specifications of the drivers under `src/`, the TLC
models that check them on small instances, and proofs checked by TLAPS. It is
kept beside the code: a change to a function named in `PROJECT.json` under "map"
calls for a look at the definition that models it.

1. [The system](#the-system)
2. [Modules](#modules)
3. [Runs](#runs)
4. [Assumptions about the environment](#assumptions-about-the-environment)
5. [Fairness](#fairness)
6. [Proofs](#proofs)
7. [Where code and comments disagree](#where-code-and-comments-disagree)
8. [What is not modelled](#what-is-not-modelled)
9. [Plan](#plan)

## The system

`VirtioFamily` is a transport (`VirtioLegacyPCIDevice`, with the interface
`VirtioDevice`) and client drivers that open it; `virtio-net` is the ethernet
driver. A transport object maps the registers of a PCI device, negotiates
features, allocates *virtqueues*, and takes requests from the client. A request
is at most one buffer the device reads and one it writes. The buffers are
described by entries of a descriptor table, linked into a chain; the index of
the first entry is put into the *available ring*. The device returns it through
the *used ring*, and raises an interrupt unless the driver asked it not to. A
filter in interrupt context masks the queues and signals the work loop, which
empties the used rings and calls the completion the client passed in.

| Part | State | Operations | What is hard |
|---|---|---|---|
| Descriptors of a queue | `next_desc` links, first and number of unused, completions, DMA commands | submit (direct, indirect), complete | one array of links serves the unused list and all chains; five kinds of failure part-way through a submission |
| Rings | two rings, free-running 16-bit indices, the last index handled | publish, process with nested submissions, poll with a limit | wrap-around, out-of-order completion, completion actions that submit to the queue being processed |
| Interrupts | ISR, `NO_INTERRUPT` per queue, `received_config_change`, per-queue request | filter, action, processing, `setVirtqueueInterruptsEnabled` | device, filter and work loop run at once without a lock |
| Set-up and tear-down | register map, queues, event source, work loop, device status | start, open, set up, run, fail, close, terminate | handlers use what the control thread frees; each step may fail |
| Memory balloon | pages, chunks, pages being returned, in-progress flag, a shared address array | inflate, deflate, configuration change, completions | the host changes its mind at any time; one request at a time; refused requests |
| Block device | pool of requests, pending queue, sleeping threads | read/write, flush, completions, shutdown | a bounded queue, deferral and wake-up, ordering |
| SCSI controller | pools of memory descriptors, event buffers, targets | tasks, management functions, events, terminate | pool limits, answers on one queue crossing events on another, hot-plug |
| Modern PCI transport | capability list, usable structures, event sources, work loops | probe, start, stop | links and contents come from the device, cycles included; set-up fails part-way |
| Memory descriptors | ranges of other descriptors, place in an mbuf chain, prepare counts, references | reuse, `getPhysicalSegment`, prepare, complete, release | a place kept from the last query; an array of ranges that stays the caller's; a member that cannot be prepared |
| Ethernet driver | driver state, device, output queue, reserved packet | start, enable, disable, output, receive, polled debugger entries, stop | two clients come and go independently; stall and wake-up; a packet shared with the device |

The hazards this makes for, with the source line where each one bites and the
property that would notice, are listed in `PROJECT.json` under "hazards".

## Modules

| Module | Models | Built on |
|---|---|---|
| `VirtioDevice` | what the class promises a client about one queue: accepted requests complete once, refused ones have no effect, `Busy` only with another request outstanding | |
| `DescriptorChains` | descriptor management of one queue; published chains are a set | implements `VirtioDevice` |
| `Virtqueue` | the same with both rings and the processing loop | extends and implements `DescriptorChains`, implements `VirtioDevice` with its fairness |
| `InterruptDelivery` | device, filter, work loop and clients over several queues; rings are counts | |
| `DeviceLifecycle` | the control thread against filter and handler | |
| `MemBalloon`, `BlockDevice`, `SCSIController` | one client driver each | |
| `PCITransport` | the modern transport: capability walk, interrupt set-up and shutdown | |
| `NetworkInterface` | the ethernet driver's state machine, its output queue and the debugger's packet | |
| `MemoryDescriptors` | the two memory descriptor classes and their users | |
| `DescriptorChainsProofs`, `VirtqueueProofs`, `InterruptDeliveryProofs`, `MemBalloonProofs`, `BlockDeviceProofs`, `SCSIControllerProofs` | theorems | extend the module they are named after; `VirtqueueProofs` also extends `DescriptorChainsProofs` |
| `TransportProofs` | theorems about both transports | extends `DeviceLifecycle` and `PCITransport` |
| `VirtioNetProofs` | theorems about the Ethernet driver and its memory descriptors | extends `NetworkInterface` and `MemoryDescriptors` |
| `MC...` | constants of the TLC models | extend the module they are named after |

The modules are layers. `VirtioDevice` is the contract clients rely on.
`DescriptorChains` implements it with the requests that are
not idle as `outstanding` and `result` as `answer` (`ImplementsVirtioDevice`,
with DMA failures);
`Virtqueue` keeps what `DescriptorChains` promises and, with its fairness, that
every accepted request is completed (`KeepsVirtioDevicePromise`). That `Busy`
means an outstanding request is what the block driver's pending queue rests on.
`InterruptDelivery` shows that every used entry is processed, and the client
drivers rest on both: in them a submitted request is in the device, then
answered, then completed, in any order and at any delay.

Variables and actions have the names of the fields and functions they stand for;
"map" gives the lines. Where a function is one action, it runs in the work
loop's gate as a whole. Where it is several (`InterruptDelivery`,
`DeviceLifecycle`, the processing loop of `Virtqueue`, `start` of the balloon)
another thread or the device can act between the steps.

Definitions under the comment "Mutated form" are not used by the
specifications. Each is a plausible mistake in the definition that follows it,
and "mutants" in `PROJECT.json` says which property notices when it is put in
place. They keep the properties honest: one that no mistake can break says
nothing.

### DescriptorChains

`SubmitDirect` and `SubmitIndirect` are `submitBuffersToVirtqueue` with every
early return. A submission that is accepted takes descriptors off the unused
list (`IsUnusedPrefix`), links them (`Linked`), writes the table the device
reads (`FilledDirect`, `FilledIndirect`) and stores the completion on the head.
One that fails stops at a place `DMAFaults` allows and runs the cleanup code of
that place. `CompleteRequest` is the part of
`processCompletedRequestsInVirtqueue` that walks a chain and puts it back.
Buffers are abstracted to the number of segments they produce.

### Virtqueue

`AddToRing` is `virtio_virtqueue_add_descriptor_to_ring`; `StartProcessing`,
`Look`, `MoreElements`, `HandleElement`, `CallbackReturns` and `StoreLastHead`
are the loop of `processCompletedRequestsInVirtqueue`, with the client free to
submit while its completion action runs. `DeviceTake` and `DeviceReturn` are the
device. `IndexWrap` stands for 2^16: the assumption that `NumEntries` divides it
and is smaller is what `setupVirtqueue`'s power-of-two test provides.

### InterruptDelivery

One action for each access to state that is shared between threads: the device
publishes an entry and then reads the flag; the filter reads the ISR (which
clears it), notes a configuration change or masks queue by queue, then signals;
the work loop tests, clears and calls for a configuration change, and for each
queue reads the head, unmasks, reads again and handles. A ring is the number of
entries not yet processed. `before_enable` is a history variable: entries that
were already there when a client switched interrupts on raise no interrupt, and
the code does not look for them.

### DeviceLifecycle

`pc` is the control thread, with `failDevice` as a subroutine (`return_to`).
`resetDevice`, `requestFeatures`, `setupVirtqueue`, `beginHandlingInterrupts`
and `startDevice` may fail wherever the code returns early; the client then
fails and closes the device as all clients in this code base do. `failDevice`
without a map writes its status byte elsewhere; `DeviceStoppedBeforeFree` says
that this happens only when the device was already told.

Not everything that is allocated is released. `temp_event_sources` counts the
second event source that `beginHandlingInterrupts` creates and keeps in a local
variable (line 1260); `indirect_tables` counts, per queue, the sets of indirect
tables and of the DMA commands for them and for second buffers that
`setupVirtqueue` allocates (lines 363 to 370) and `destroy_virtqueue` leaves.
`WhatCloseLeaves` says that a closed device is otherwise as it was before, and
bounds both counts by one for each opening.

### MemBalloon

Frames, pages and chunks are sets; `BIG_CHUNK_PAGES` is 512 in the code.
`inflateDeflateIfNecessary` is one operator used by the configuration change,
by both completions and by the end of `start`. The host changes `num_pages`,
takes the frames of an inflation and gives up those of a deflation.
`refused` is a history variable of submissions that failed.

### BlockDevice

A request structure is in the pool, pending, in the device, answered, or with a
thread that was woken. The virtqueue is a count of free descriptors, and
submission answers as `submitBuffersToVirtqueueDirect` does: `Busy` below two
free descriptors, an error if there are fewer than the request needs.
`blockRequestCompleted` is two steps, because the client's own completion,
called in between, may start another request.

### SCSIController

Tasks and management functions hold items of the pools while the device has
them. `indirect` says whether the queues use indirect descriptors; a function
then takes one entry of the control queue instead of two (`RoomInControlQueue`).
The pools hold one item per entry, so with direct descriptors the queue refuses
functions long before the pools are empty. With indirect ones a full queue means
empty pools: the next function gets a null pointer and uses it
(`FunctionWithoutItem`, line 652), and the model ends there. The SCSI family is
told no limit for functions, so nothing prevents it; `ItemForEveryRequest` says
up to where the pools suffice.

`eventCompleted` handles one event and posts its buffer again; an event
that finds no posted buffer is lost (`missed`). The device reports that by a bit
in the type of a later event, which line 228 compares as a whole: that event has
no effect either. `targets` is what I/O Kit was
told by `CreateTargetForID` and `DestroyTargetForID`, `device_targets` what
there is. A task sent to a target that is gone is answered with BAD_TARGET.

### PCITransport

`WalkStep` is one turn of `djt_iopcidevice_iterate_capabilities`; the operators
named after the `setup...` functions are the checks of one virtio structure. The
configuration space belongs to the device: what is at an offset is chosen when
it is first read and then stays, so that all lists and all cycles over the
offsets occur. The reference definition `OnList` follows the same links without
a trail. `SetupVector` and `SetupPin` are the loop and the last part of
`setupInterruptHandlers`; a failing `start` calls `stop`. One thing is left
behind by the code and allowed by `HandlersTakenDown`: the event source of the
pin-based interrupt when its work loop could not be created.

No virtqueue operation exists in this transport yet, so nothing more of it can
be modelled.

### MemoryDescriptors

One pooled structure (a packet, a block request or a SCSI task) is created, used
any number of times and freed. `addPacketToQueue`, `sendPacket`,
`doAsyncReadWriteOnWorkLoop` and `ProcessParallelTaskInGate` are the parts of
those functions that describe memory; `Finish` is what completions and failed
submissions do to the descriptors. `getPhysicalSegment` is asked from front to
back, as `IODMACommand` does, and again from the front at any time. Addresses are
numbers and pages are small; `AllBytes` is the reference, computed byte by byte.

Line 149 of `SSDCMultiSubrangeMemoryDescriptor.cpp` cuts a segment to the length
of the whole range instead of what is left of it. For a transfer of a part of a
scattered buffer that ends inside a later segment, the answer is too long.
Both drivers let such transfers through (`VirtioBlockDevice.cpp:440`,
`VirtioSCSIController.cpp:436`), and so does the model. `SegmentsAreTheBytes`
says of every answer that it is right up to the end of its range; that it ends
there, and a walk gives the device exactly the bytes of the ranges, it says if
all ranges end with a segment (`RangesEndWithSegments`). Without that condition
TLC finds an answer that is too long in four steps, by a read of three bytes into
a buffer of two segments of two. What the device then gets depends on whether
`IODMACommand` cuts the segment itself, which is not visible in `src/`.

No client in `src/` calls `prepare` and `complete` of a combined descriptor; the
model lets up to `MaxPrepares` users call them, in pairs, before `Finish`.

### NetworkInterface

`driver_state` has the values of `DriverState`, the failure codes of one
operation taken as one. `Disable` is `disable` for the interface;
`StopClients` and `StopDevice` are `stop` before and after the detaching of the
clients, between which a completion can still arrive. Rings are counts; the
debugger's packet is followed by itself, with its contents as a bit that changes
with each `sendPacket`.

A driver in `EnableFailed` is left out of `DeviceMatchesState` because the code
leaves that state in two ways: with the device closed (`enablePartial` failed)
or running (`createMediumTable` failed, line 860). No call but `stop` is accepted
then, and `stop` does not close the device. Similarly `start` keeps the device
open when there is no work loop, and `disablePartial` and `stop` leave
`debugger_transmit_packet_in_use` set when the packet was in the ring, so that
every later `sendPacket` is refused until the driver is loaded again.

The driver is in the middle of a port from its own rings to `VirtioDevice`:
`releaseSentPacket` and `handleReceivedPacket` are declared and called but have
no body. They are taken to do for one packet what the loops of
`releaseSentPackets` and `handleReceivedPackets` do. As the code stands nothing
but `releaseSentPackets` clears a stall, and `transmitQueueCompletion` does not
call it, so no liveness of the output queue is stated.

## Runs

All passing runs are exhaustive for their constants.

| Run | Checks | Instance |
|---|---|---|
| `chains_handled` | unused list and chains partition the table; the device sees what was submitted; one chain per request; buffers are held while in flight; a failed submission takes nothing; the contract `VirtioDevice` is implemented | 4 descriptors, 4 requests, shapes up to three segments a side, direct or indirect tables, the three faults whose cleanup is complete |
| `rings` | every chain is in one place and no ring is overrun, `DescriptorChains` and the fair `VirtioDevice` are implemented | 2 entries, indices modulo 4, 2 requests, limits 0 and 1 |
| `interrupts` | masking ends, no used entry and no configuration change is lost, all are handled in the end | 2 queues of 2, 2 client calls |
| `teardown` | filter and handler see only what is there, the device stops before its memory goes, closing leaves the second event source and the indirect tables at most, taking down ends | 2 queues, 2 openings |
| `balloon` | frames the host holds stay reserved, one request at a time, the reported size is true, the size settles at what was asked for last | chunks of 3, up to 4 pages, 7 frames, 2 changes, submissions may fail |
| `block_requests` | structures are accounted for, pending requests will be tried, order, operations end | 3 clients, 3 structures, 5 descriptors, requests of 2 to 4 |
| `scsi` | pool items are accounted for and suffice but for a full indirect control queue, a stable target stays, gone targets are forgotten | 2 tasks of which 1 at a time, 3 functions on a control queue of 2, direct or indirect, 2 targets, 3 changes, 1 event buffer |
| `pci` | probe accepts exactly the lists that end and notes exactly the usable structures, the walk ends, no handler is left | 3 capability offsets and a bad one, 6 contents, 2 vectors, each step of `start` may fail |
| `memory` | answers are right up to the end of their range and end with it if ranges end with segments, prepare is all or nothing, references match the ranges | pages of 4 bytes, contiguous and scattered, 4 mbuf chains with empty and page-crossing mbufs, 3 buffers, 2 users |
| `net` | the device runs exactly in the enabled states, no output without a running device, the debugger's packet is not overwritten | 2 packets in each ring, output queue of 2 |

The violation runs are described [below](#where-code-and-comments-disagree).

Why the bounds are enough for what is asked. In `chains_handled` a request of
four segments takes the whole table, and every pair of requests that fits
occurs, in any order of completion, so links left by earlier chains appear in
every position. Indices of `rings` wrap every two times round the ring, with the
ring full and empty on either side of the wrap. In `interrupts` two queues are
the least with which the handler can be at one while something happens at the
other, and two client calls are an enabling and a disabling or polling in
between. In `teardown` the second opening starts from what the first one left.
In `balloon` a chunk of three and a target of up to four pages make all
of: pages only, a chunk only, both, and the detour by which less than a chunk is
given back. In `block_requests` there are more requests than the queue can hold,
in `scsi` more tasks than the limit and more functions than the control queue or
its pools can hold; three changes are the least with which an event is missed and
a later one says so. Two tasks in the device at once, with all of this, are out of
TLC's reach; they are covered by the proofs. Three offsets in `pci` make cycles of one, two and
three, entered at once or after a tail, so that the trail moves before it
catches one; the contents fail each kind of check by the least amount. In `net`
two packets fill the transmit ring with and without the debugger's, so that the
queue stalls in both. The chains of `memory` have an empty mbuf first and in the
middle, an mbuf over three pages, and more than one chain for one descriptor.

`chains_handled` and `chains_unhandled` use symmetry of the requests and a view
that leaves out links and table entries of descriptors that nothing can reach,
which no action reads before it writes them. The view keeps `pending` and
`result`, which the contract is about; the temporal properties of the two runs,
the implementation of `VirtioDevice` among them, are about initial states and
single steps.

`CHECK_DEADLOCK FALSE` is set where the system may stop: a device that was
stopped, a driver that was shut down, a bounded host that is done.

## Assumptions about the environment

* `OSSynchronizeIO` and the gate order memory accesses between driver and
  device; accesses are sequentially consistent.
* The interrupt is a level: it is asserted while the ISR is not zero.
* Everything the code runs "in the gate" is atomic with respect to other code
  in the gate. `commandSleep` gives up the gate.
* I/O Kit starts, terminates and stops services one after the other; a client's
  `didTerminate` and `stop` come before its provider's.
* `disable()` of the event source lets no new filter call begin and waits for a
  running one; `removeEventSource` runs in the gate.
* The device follows the protocol: it returns each chain it took once, does not
  write to buffers it has returned, and reads the interrupt flag after it
  published an entry.
* The output queue takes no more packets than its capacity, `stop` of it returns
  after the last `outputPacket`, and `start` ends a stall.
* `IODMACommand` asks for segments in order, each at the end of the one before,
  and I/O Kit's own descriptors answer with the longest contiguous run.
* The debugger's packet is one mbuf that does not cross a page.
* The network stack enables and disables only clients that are attached; both
  happen in the gate. The debugger's polled entries run with everything else
  halted, between two steps of the gate.
* Register access with a null memory map goes to the processor's I/O ports, as
  `IOPCIDevice::ioRead8` and its like document.

## Fairness

The device decides about each interrupt it owes, and answers requests it took
(for the liveness of completion; nothing else could be promised). For `rings` this
means: it takes what is in the available ring, returns each chain it holds, and
the used ring is looked at again and again, for the reason `InterruptDelivery`
gives. An interrupt that is asserted is taken; a signalled work loop runs; a
function that began returns. The gate is not fair, so an action that waits for it has strong
fairness only where other users of the gate are finite in number or must give
it up to wait for it (block completions). The thread that probes a PCI device
waits for nobody. No fairness is assumed of clients, of
the host changing its mind, of opening or of terminating.

In `SCSIController` the family is assumed to send something to each target it
was told of (it probes them), which is how the controller hears of a target that
vanished before its creation was handled.

## Proofs

| Module | Theorems | For all | Hypotheses |
|---|---|---|---|
| `DescriptorChainsProofs` | all six properties of `chains_handled`, the implementation of `VirtioDevice` among them | table sizes, requests, shapes, direct and indirect tables | `CleanedUpCases` |
| `VirtqueueProofs` | `RingsHoldInFlight`, the implementation of `DescriptorChains` and so of the safety part of `VirtioDevice` | ring sizes, numbers of wraps | `CleanedUpCases` |
| `InterruptDeliveryProofs` | the three safety properties of `interrupts` | numbers and sizes of queues, client calls | |
| `TransportProofs` | the three safety properties of `teardown` | numbers of queues and openings | |
| | the two safety properties of `pci` | capability lists and their contents, numbers of vectors, failures of `start` | |
| `MemBalloonProofs` | the three safety properties of `balloon` | chunk sizes, frames, requested sizes, refused submissions | `EarlyChanges = FALSE` |
| `BlockDeviceProofs` | the three safety properties of `block_requests` | clients, structures, queue sizes, needs | `SubmitFaults = FALSE`, for `PendingWillBeTried` only |
| `SCSIControllerProofs` | the three safety properties of `scsi` | tasks, functions, targets, events, queue sizes | |
| `VirtioNetProofs` | the three properties of `net` | sizes of rings and output queue | |
| | the three properties of `memory` | page sizes and maps, mbuf chains, buffers, structures, numbers of users | |

Each rests on the named assumptions of the module it is about and on an
inductive invariant that TLC checked on the run's instance before it was proved.
The hypotheses hold of the constants of the passing runs. They leave out behaviour
of the code that breaks the property; for the DMA failures and for
configuration changes during `start` the violation runs show it.

`DescriptorChainsProofs`. One array of links holds the unused list and all
chains, so a link that is written for one may be read through another. The
invariant `Shared` says there are lists, given by explicit sequences of
descriptors (`IsList`), one for the unused descriptors and one for each chain in
flight, that cover the table and do not meet; the property
`DescriptorsPartitioned`, which follows links, is derived from it
(`ListsPartition`). A sequence as witness makes the steps local: taking a prefix
of a list leaves a list (`IsFollowed`), putting one in front of another makes
one, and links outside the descriptors written do not matter (`SameBut`).
Statements about all positions of a list are shown by looking at the least
position where they fail (`Least`). `Shared` is not enough for the other
properties: `OneChainPerRequest`, `DeviceSeesRequests` and
`BuffersHeldWhileInFlight` are conjuncts of the invariant, because a completion
finds what it has to release through the head's completion, the table and the
flags on the chain. `CleanedUpCases` leaves out the two DMA failures whose cleanup
is incomplete (run `chains_unhandled`) and requests that
`submitBuffersToVirtqueueIndirect` turns away for the size of their table, or for
having no buffer, after their descriptor was taken. `ImplementsContract` goes step
by step: an accepted submission is a `Submit` of `VirtioDevice`, a failed one a
refusal (with `Busy` only when something is outstanding, which follows from the
partition: no free descriptor means a chain in flight), a completion a
completion.

`VirtqueueProofs` adds the rings. `Queue(ring, from, to, S)` says that between
two indices a ring holds each head of `S` once; `Enqueue` and `Dequeue` are its
two operations. Free-running indices are what makes this need proof: slots are
remainders by the ring size and indices by 2^16, and two slots differ because the
ring size divides the wrap (`SlotsDiffer`, `SlotWraps`). A slot is free for a new
head because heads in flight differ and the new one is none of them
(`FreeSlot`). What the invariant needs beyond the property is `CursorBehind`: the
head index that the processing loop read before its callbacks ran is not ahead of
the ring, so that the entry it takes next was really put there by the device
(`NextElementInFlight`). That is also what turns a turn of the loop into a
`CompleteRequest` of `DescriptorChains`.

`MemBalloonProofs`. The invariant `Mode` lists what the driver, its two queues and
the host's books can be in together: idle, inflating, deflating, stuck after a
refused deflation, ended. `Books` counts frames, so that the size the driver
computes from chunks and pages is the number of frames (cardinalities of
disjoint unions). `QuietStart` says that nothing is under way during `start`,
which is what a configuration change handled there breaks (run `balloon_race`,
and the hypothesis).

`BlockDeviceProofs`. `Placed` says of each structure, by its client's state, in
which queue it can be; `Owned` ties clients and structures; `Room` says that
requests in the virtqueue fit into it. The last needs facts about a sum over a
set that changes (`Taken`), for which the module shows that the fold behind it is
defined for finite sets, does not depend on the order, and adds up
(`TakenWithout`, `TakenSame`). `PendingWillBeTried` then comes down to: what does
not fit does not fit *beside something*, since every request fits into an empty
queue (`DoesNotFitAlone`). If a submission can fail for another reason, the
request put back may find the queue empty, and nothing will try it again; hence
the hypothesis of that theorem.

`VirtioNetProofs`, the memory descriptors. `SegmentsAreTheBytes` compares
what `getPhysicalSegment` answers with the addresses of all bytes put one after
the other (`Joined`); where a byte is found there is a sum of lengths
(`JoinedPlaces`; `IntervalTotal` and `IntervalSplit` are what it needs to know of
sums). The argument has three layers:

* an answer is a run of bytes: `Extent` goes from page to page while they follow
  each other in memory, so that addresses within it go up by one (`ExtentRun`,
  by division with remainder), and I/O Kit's own answers do likewise
  (`BufferRun`);
* the mbuf the search ends in is the one with the byte, whatever place was
  remembered, because that place is always the start of an mbuf of the chain
  described now (`PlaceIsStart`, `SearchFinds`);
* cutting an answer leaves it right (`CutIsRight`, `BufferBytes`,
  `ChainBytesRight`), so it agrees with the bytes up to the end of its range. If
  all ranges end with a segment it does not reach beyond, although the code cuts
  it to the length of the whole range and not to what is left. This needs the
  invariant `HaltsAtSegments`: under that condition, inside a range a walk halts
  only where memory breaks. An answer from there on ends at the next break, and a
  range that contains a break ends with one, so nothing is left to cut
  (`CutAnswer`, `BufferAnswer`, `MbufAnswer`, `AnswerRight`).

`PreparedAllOrNone` and `ReferencesMatchRanges` need `NothingLeft`: the array is
the caller's and is written before `initWithDescriptorRanges` releases what it
names, which is right only since a structure from the pool names nothing
(`RangesTaken`). `PreparedAllOrNone` in turn is what `PlaceIsStart` rests on:
`initWithMbuf` ignores the new chain while the descriptor is prepared
(`MbufTaken`).

The assumptions: `PageSize` is positive (`PageAssumption`), the bytes of mbufs
are in mapped pages (`ChainsAssumption`), buffers are sequences of addresses
(`BuffersAssumption`), and the parts of the structures' own memory lie within it
(`OwnAssumption`).

`SCSIControllerProofs`. `Owned` says for one pool that the items taken and the
users that are busy correspond one to one; three lemmas (taking, answering,
returning) serve all four pools. `ItemForEveryRequest` follows by counting; for
the functions it needs `ControlRoom`, that functions under way fit into the control
queue with the entries each of them takes. `StableTargetsStay` needs
`NothingAgainstStable`: no event or BAD_TARGET answer that is still under way
speaks of a target that was there all the time.

`InterruptDeliveryProofs` proves, for any number of queues, any queue size and
any number of client calls:

* `MaskingIsTemporary`: a queue whose client wants interrupts is masked only
  while the handler is due or has yet to unmask it;
* `CompletionsNeverLost`: a used entry newer than the moment interrupts were
  switched on has a device check, an asserted interrupt, the filter or the
  handler on its way to it;
* `ConfigChangesNeverLost`: the same for configuration changes.

The inductive invariant `IInv` is the conjunction of these with `TypeOK` and `WellPlaced`,
which ties the program counters together: where the filter and the work loop are
says which queue index is meaningful, and that the handler's caller is set
whenever it runs. The three properties support one another: when the work loop
finds a ring empty and returns, the entry that arrives next must raise an
interrupt, so the queue must not be masked (`MaskedOnlyUntilHandled`); and a
masked queue is safe only because the handler that will unmask it looks at the
ring afterwards (`NoLostCompletion`). Neither is inductive alone. The proof of
`NextPreservesIInv` has one step per action and under it one per conjunct. The
assumptions are the three named ones of `InterruptDelivery`.

`TransportProofs` proves of `DeviceLifecycle`, for any number of queues and any
number of openings:

* `HandlersAlwaysSeeLiveState`, `DeviceAlwaysStoppedBeforeFree` and
  `WhatCloseAlwaysLeaves`: the three safety invariants of the run `teardown`.

Its invariant is a table by program counter: what is mapped (`Mapped`), which
queues exist (`QueuesKnown`), which states the event source can be in
(`SourceKnown`), and that everything after `failDevice` finds the status 128
(`StatusKnown`). `pc` alone is not enough, because `failDevice` is a subroutine:
`Failing` and `return_to` carry what its caller knew across it. The handlers are
tied to the control thread by `HandlersKnown`: the filter runs only while the
event source is enabled, or while `disable()` waits for it; the handler only
while the source is on the work loop. The counts of what is never released have an
invariant of their own (`UnreleasedInv`): each is behind `opens` wherever a client
has yet to add to it.

Of `PCITransport` it proves, for any configuration space and any number of
vectors:

* `ProbeAlwaysRight`: probe accepts a device exactly if its list of capabilities
  ends and there is an interrupt, and in either case it has noted exactly the
  usable structures on the list as far as that was read;
* `HandlersAlwaysTakenDown`: after `stop`, and after a `start` that failed
  anywhere, no handler is left.

The invariant of the walk (`WalkKnown`) says that the offsets it came by form a
path along the links from the first one (`Path`), that the trail is on it, and
that the contents looked at are those of the path (`Examined`). What is left is
about lists: a path that meets itself stays among the offsets it has, so that no
end can be reached from it, and a list that never ends has more links than there
are offsets and so meets itself. `OnList`, the reference without a trail, is
shown to be the set of offsets of the path. The handlers' invariant says where
something can be set up at all: on the first `num_sources` vectors, or on the
pin if there are none, which are the two places `shutdownInterruptHandlers`
looks at.

`VirtioNetProofs`, the driver and its clients, proves, for any sizes of rings and output queue:

* `DeviceAlwaysMatchesState`, `OutputAlwaysToRunningDevice` and
  `DebuggerPacketAlwaysStable`: the three properties of the run `net`.

The second needs more than it says: a cleared stall starts the output queue of a
closed device, so it is the capacity and the backlog that have to be zero outside
the two states with an enabled interface (`QueueKnown`). `StopKnown` is what keeps
`stop` from closing the device under a client.

The assumptions of `NetworkInterface` and `DeviceLifecycle` are the named ones of
the modules: the bound on openings is a natural number, all sizes are positive
ones.

Statements that would be inductions over data (lists, sums, positions in a
sequence) are shown by looking at the least number for which they fail
(`SmallestExists`), since the induction rules of the library are out of the
provers' reach.

Checked by TLC only, on the instances above: the liveness properties
(`CompletionsProcessed`, `ConfigChangesDelivered`, `TakingDownEnds`,
`ReachesRequestedSize`, `OperationsEnd`, `GoneTargetsForgotten`, `WalkEnds`,
`KeepsVirtioDevicePromise`). TLAPS proves nothing about fairness or `ENABLED`.
Every other property of a passing run has a theorem.

## Where code and comments disagree

Each has a run that TLC ends with a violation, and an entry under "findings".

* `chains_unhandled`: when segment generation fails before its first segment,
  the cleanup walks links of the unused list; when the writable buffer cannot be
  prepared it misses a descriptor.
* `balloon_race`: a configuration change handled during `start` leads to two
  requests over one shared array.

Seven more were met while modelling and follow from a look at the code; they are
part of the models and listed under "hazards", without a run of their own:

* a block request that does not fit is refused with an error unless fewer than
  two descriptors are free, though the header calls pending requests those "that
  will not fit" (`VirtioBlockDevice.h:43`);
* `failDevice` followed by `close` writes the status byte through a map that was
  released;
* `completion_limit` of `processCompletedRequestsInVirtqueue` has no effect and
  the number of handled requests is always reported as 0, because `total_handled`
  is never added to (line 1106), though `virtio_net.cpp:1023` asks for one packet
  and looks at the result;
* the last segment of a partial transfer may be too long (see
  [MemoryDescriptors](#memorydescriptors));
* `destroy_virtqueue` is to "free any resources allocated for the queue"
  (`VirtioLegacyPCIDevice.cpp:491`), but releases the first DMA command of each
  descriptor only: the indirect tables and the DMA commands for them and for
  second buffers stay, and so does the second event source of line 1260, from one
  start of a client to the next (see [DeviceLifecycle](#devicelifecycle));
* with indirect descriptors, a task management function sent while the control
  queue is full uses a null pointer (see [SCSIController](#scsicontroller));
* the leftovers of the ethernet driver and of the modern transport named above.

## What is not modelled

* Contents of buffers, byte layouts of configuration structures, log output,
  property tables.
* `virtio-net`: offloading and the layout of packets (`addPacketToQueue` beyond
  its need for descriptors), the packet pool, link status, the media table.
* `VirtioNetworkDevice.cpp`, `PJCommandGate.cpp`: not part of any build target.
* Copied ranges of `SSDCMultiSubrangeMemoryDescriptor` (`copy_ranges`), which no
  caller asks for; directions and tags of descriptors.
* Weak memory ordering (see the assumptions).

## Plan

1. Ethernet driver: offload headers and the packet pool; the receive path of the
   old rings where the port keeps it.
2. `vring_mem_size` as an operator, against the layout of `virtio_ring.h`.
