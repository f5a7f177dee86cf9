------------------------------ MODULE Virtqueue ------------------------------
(***************************************************************************)
(* One virtqueue with its rings (VirtioLegacyPCIDevice.cpp).  The driver   *)
(* puts the heads of chains into the available ring, the device takes them *)
(* in that order and returns them in any order through the used ring, and  *)
(* processCompletedRequestsInVirtqueue works through the used ring, calls  *)
(* the completion actions, which may submit again, and looks at the ring   *)
(* until it is empty.  Ring indices run freely and wrap at 16 bits.        *)
(*                                                                         *)
(* The descriptors are those of DescriptorChains, whose specification this *)
(* one implements.                                                         *)
(***************************************************************************)
EXTENDS DescriptorChains

CONSTANTS
  IndexWrap,        \* ring indices are taken modulo this: 2^16 in the code
  CompletionLimits  \* completion_limit of the calls; 0 means no limit

(* A queue size is a power of two of at most 2^15 (setupVirtqueue refuses  *)
(* any other), so it divides the wrap and a full ring differs from an      *)
(* empty one.                                                              *)
ASSUME IndexWrapAssumption ==
  /\ IndexWrap \in Nat
  /\ IndexWrap > NumEntries
  /\ IndexWrap % NumEntries = 0
ASSUME LimitsAssumption == CompletionLimits \subseteq Nat

VARIABLES
  available_ring, available_head,   \* available_ring->ring and head_index
  used_ring, used_head,             \* used_ring->ring and head_index
  used_ring_last_head_index,
  device_next,                      \* the device's position in available_ring
  device_held,                      \* heads the device has taken
  loop,                             \* where processCompletedRequests... is
  nextUsedRingIndex, currentUsedRingHeadIndex,
  completion_limit, total_handled

availVars == <<available_ring, available_head>>
usedVars == <<used_ring, used_head>>
deviceVars == <<device_next, device_held>>
loopVars == <<loop, nextUsedRingIndex, currentUsedRingHeadIndex,
              completion_limit, total_handled>>
ringVars == <<vars, availVars, usedVars, used_ring_last_head_index, deviceVars,
              loopVars>>

Index == 0 .. IndexWrap - 1
Plus(i, n) == (i + n) % IndexWrap
Distance(from, to) == (to - from) % IndexWrap
\* Mutated form: num_entries - 1 taken for a mask.
SlotMasked(i) == i % (NumEntries - 1)

Slot(i) == i % NumEntries

RingInit ==
  /\ Init
  /\ available_ring = [s \in Desc |-> 0] /\ available_head = 0
  /\ used_ring = [s \in Desc |-> 0] /\ used_head = 0
  /\ used_ring_last_head_index = 0
  /\ device_next = 0 /\ device_held = {}
  /\ loop = "idle"
  /\ nextUsedRingIndex = 0 /\ currentUsedRingHeadIndex = 0
  /\ completion_limit = 0 /\ total_handled = 0

-----------------------------------------------------------------------------
\* Mutated form: the head index stops at its largest value.
AddToRingSaturating(head) ==
  /\ available_ring' = [available_ring EXCEPT ![Slot(available_head)] = head]
  /\ available_head' = IF available_head = IndexWrap - 1 THEN available_head
                       ELSE available_head + 1

(* virtio_virtqueue_add_descriptor_to_ring with the chain's first          *)
(* descriptor, which is the one that headed the unused list.               *)
AddToRing(head) ==
  /\ available_ring' = [available_ring EXCEPT ![Slot(available_head)] = head]
  /\ available_head' = Plus(available_head, 1)

(* submitBuffersToVirtqueue, from a client in the gate or from a           *)
(* completion action.                                                      *)
Submit(r, shape) ==
  /\ loop \in {"idle", "callback"}
  /\ SubmitDirect(r, shape) \/ SubmitIndirect(r, shape)
  /\ IF result' = "Success" THEN AddToRing(first_unused_descriptor_index)
                            ELSE UNCHANGED availVars
  /\ UNCHANGED <<usedVars, used_ring_last_head_index, deviceVars, loopVars>>

(* The device, as the rings let it behave.                                 *)
DeviceTake ==
  /\ device_next # available_head
  /\ device_held' = device_held \cup {available_ring[Slot(device_next)]}
  /\ device_next' = Plus(device_next, 1)
  /\ UNCHANGED <<vars, availVars, usedVars, used_ring_last_head_index, loopVars>>

DeviceReturn(h) ==
  /\ h \in device_held
  /\ device_held' = device_held \ {h}
  /\ used_ring' = [used_ring EXCEPT ![Slot(used_head)] = h]
  /\ used_head' = Plus(used_head, 1)
  /\ UNCHANGED <<vars, availVars, used_ring_last_head_index, device_next, loopVars>>

-----------------------------------------------------------------------------
(* processCompletedRequestsInVirtqueue *)

LimitReached == completion_limit # 0 /\ total_handled >= completion_limit

StartProcessing(limit) ==
  /\ loop = "idle"
  /\ loop' = "look"
  /\ completion_limit' = limit
  /\ UNCHANGED <<vars, availVars, usedVars, used_ring_last_head_index,
                 deviceVars, nextUsedRingIndex, currentUsedRingHeadIndex,
                 total_handled>>

(* Lines 1110 to 1122: look at the head index, and once more before        *)
(* giving up (clearing NO_INTERRUPT in between: InterruptDelivery).        *)
Look ==
  /\ loop \in {"look", "look_again"}
  /\ LET none == used_head = used_ring_last_head_index \/ LimitReached IN
     \/ /\ none /\ loop = "look"
        /\ loop' = "look_again"
        /\ UNCHANGED <<nextUsedRingIndex, currentUsedRingHeadIndex,
                       completion_limit, total_handled>>
     \/ /\ none /\ loop = "look_again"
        /\ loop' = "idle"
        /\ nextUsedRingIndex' = 0 /\ currentUsedRingHeadIndex' = 0
        /\ completion_limit' = 0 /\ total_handled' = 0
     \/ /\ ~none
        /\ loop' = "elements"
        /\ nextUsedRingIndex' = used_ring_last_head_index
        /\ currentUsedRingHeadIndex' = used_head
        /\ UNCHANGED <<completion_limit, total_handled>>
  /\ UNCHANGED <<vars, availVars, usedVars, used_ring_last_head_index, deviceVars>>

MoreElements == nextUsedRingIndex # currentUsedRingHeadIndex /\ ~LimitReached

(* One turn of the for loop up to and including the call of the completion *)
(* action.  The loop adds nothing to total_handled, so a completion limit  *)
(* is never reached.                                                       *)
HandleElement ==
  /\ loop = "elements"
  /\ MoreElements
  /\ CompleteRequest(used_ring[Slot(nextUsedRingIndex)])
  /\ loop' = "callback"
  /\ nextUsedRingIndex' = Plus(nextUsedRingIndex, 1)
  /\ UNCHANGED <<availVars, usedVars, used_ring_last_head_index, deviceVars,
                 currentUsedRingHeadIndex, completion_limit, total_handled>>

CallbackReturns ==
  /\ loop = "callback"
  /\ loop' = "elements"
  /\ UNCHANGED <<vars, availVars, usedVars, used_ring_last_head_index,
                 deviceVars, nextUsedRingIndex, currentUsedRingHeadIndex,
                 completion_limit, total_handled>>

(* Line 1152, after the for loop.                                          *)
\* Mutated form: the head is read once more and stored.
StoreCurrentHead ==
  /\ loop = "elements"
  /\ ~MoreElements
  /\ used_ring_last_head_index' = used_head
  /\ loop' = "look"
  /\ UNCHANGED <<vars, availVars, usedVars, deviceVars, nextUsedRingIndex,
                 currentUsedRingHeadIndex, completion_limit, total_handled>>

StoreLastHead ==
  /\ loop = "elements"
  /\ ~MoreElements
  /\ used_ring_last_head_index' = nextUsedRingIndex
  /\ loop' = "look"
  /\ UNCHANGED <<vars, availVars, usedVars, deviceVars, nextUsedRingIndex,
                 currentUsedRingHeadIndex, completion_limit, total_handled>>

-----------------------------------------------------------------------------
Process ==
  \/ Look
  \/ HandleElement
  \/ CallbackReturns
  \/ StoreLastHead

RingNext ==
  \/ \E r \in Requests, shape \in RequestShapes : Submit(r, shape)
  \/ DeviceTake
  \/ \E h \in device_held : DeviceReturn(h)
  \/ \E limit \in CompletionLimits : StartProcessing(limit)
  \/ Process

RingSpec == RingInit /\ [][RingNext]_ringVars

(* The device works through what it is given, the used ring is looked at   *)
(* again and again (InterruptDelivery says why), and a pass runs to its    *)
(* end.                                                                    *)
RingFairness ==
  /\ WF_ringVars(DeviceTake)
  /\ \A h \in Desc : WF_ringVars(DeviceReturn(h))
  /\ WF_ringVars(\E limit \in CompletionLimits : StartProcessing(limit))
  /\ WF_ringVars(Process)

FairRingSpec == RingSpec /\ RingFairness

-----------------------------------------------------------------------------
(* The next used entry to be handled.                                      *)
UsedCursor == IF loop \in {"elements", "callback"} THEN nextUsedRingIndex
              ELSE used_ring_last_head_index

(* The entries of a ring between two indices, oldest first.                *)
Window(ring, from, to) ==
  [i \in 1 .. Distance(from, to) |-> ring[Slot(from + i - 1)]]

Offered == Window(available_ring, device_next, available_head)
Finished == Window(used_ring, UsedCursor, used_head)

Repeats(s) == \E i, j \in DOMAIN s : i # j /\ s[i] = s[j]

(* Every chain in flight is in exactly one place: waiting in the available *)
(* ring, held by the device, or waiting in the used ring; and the rings    *)
(* hold nothing else.  Across the wrap of the indices no entry is          *)
(* overwritten before it is read, none is read twice, although             *)
(* used_ring_last_head_index is stored only after all callbacks ran and    *)
(* the callbacks submit into the same rings.                               *)
RingsHoldInFlight ==
  /\ ~Repeats(Offered) /\ ~Repeats(Finished)
  /\ Elements(Offered) \cap Elements(Finished) = {}
  /\ (Elements(Offered) \cup Elements(Finished)) \cap device_held = {}
  /\ Elements(Offered) \cup Elements(Finished) \cup device_held = in_flight

(* Seen without its rings the queue behaves as DescriptorChains says.      *)
ImplementsDescriptorChains == Spec

(* With a device that works through its ring and a used ring that is       *)
(* looked at again and again, the client finds the whole promise of        *)
(* VirtioDevice.h kept: every accepted request is completed, exactly once, *)
(* whatever order the device answers in and whatever the completion        *)
(* actions submit in between.                                              *)
KeepsVirtioDevicePromise == Contract!FairSpec

=============================================================================
