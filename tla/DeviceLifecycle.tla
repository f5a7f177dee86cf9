--------------------------- MODULE DeviceLifecycle ---------------------------
(***************************************************************************)
(* A legacy virtio device from its probing to its end                      *)
(* (VirtioLegacyPCIDevice.cpp), with the client drivers that open it.  The *)
(* control thread (I/O Kit starts, terminates and stops one service after  *)
(* the other) maps registers, sets queues up, enables interrupts and takes *)
(* all of it down again, while the interrupt filter and the work loop use  *)
(* what it builds and destroys.                                            *)
(*                                                                         *)
(* Register access needs the map of BAR 0.  Without a map, ioWrite8 and    *)
(* its like address the processor's I/O ports instead of the device.       *)
(***************************************************************************)
EXTENDS Integers

CONSTANTS
  NumQueues,  \* queues a client asks for
  MaxOpens    \* bound on the times a client is started

ASSUME QueuesAssumption == NumQueues \in Nat \ {0}
ASSUME OpensAssumption == MaxOpens \in Nat

Ids == 0 .. NumQueues - 1

VARIABLES
  pc,                 \* where the control thread is
  return_to,          \* where failDevice returns to
  pci_device,         \* the PCI device is open
  iomap,              \* pci_virtio_header_iomap is not null
  status,             \* the device status register
  queues,             \* memory of the queues set up so far, by queue
  virtqueues,         \* whether this->virtqueues is published
  address,            \* queues whose memory the device was told of
  intr_event_source,  \* "null", "created", "added" or "enabled"
  work_loop,          \* work_loop is not null
  filter,             \* the interrupt filter: "idle", "reads" or "masks"
  masking,            \* the queue whose flag the filter is about to set
  signalled,          \* the work loop is to call interruptAction
  action,             \* interruptAction: "idle" or "handles"
  handling,           \* the queue interruptAction is about to look at
  temp_event_sources, \* second event sources, to which nothing points
  indirect_tables,    \* by queue, the sets of indirect tables that exist
  opens

memory == <<queues, virtqueues, address>>
interrupts == <<intr_event_source, work_loop>>
handlers == <<filter, masking, signalled, action, handling>>
unreleased == <<temp_event_sources, indirect_tables>>
rest == <<pci_device, unreleased, opens>>
vars == <<pc, return_to, iomap, status, memory, interrupts, handlers,
          rest>>

(* The object is new: every pointer is null.  The firmware may have used   *)
(* the device.                                                             *)
Init ==
  /\ pc = "start" /\ return_to = "none"
  /\ pci_device = FALSE /\ iomap = FALSE
  /\ status \in {0, 7}
  /\ queues = {} /\ virtqueues = FALSE /\ address = {}
  /\ intr_event_source = "null" /\ work_loop = FALSE
  /\ filter = "idle" /\ masking = 0 /\ signalled = FALSE
  /\ action = "idle" /\ handling = 0
  /\ temp_event_sources = 0 /\ indirect_tables = [q \in Ids |-> 0]
  /\ opens = 0

-----------------------------------------------------------------------------
(* Steps of the control thread *)

(* A step from one label to another that leaves the handlers alone.        *)
Go(from, to) ==
  /\ pc = from
  /\ pc' = to
  /\ UNCHANGED <<return_to, handlers>>

(* A call of failDevice that returns to label.                             *)
Fail(from, label) ==
  /\ pc = from
  /\ pc' = "fail_write"
  /\ return_to' = label
  /\ UNCHANGED <<handlers>>

(* Reset, status 1 and 1|2.  The result is ignored by every caller; a      *)
(* device that does not report 0 keeps its state.                          *)
resetDevice ==
  \/ status' = 3 /\ address' = {}
  \/ UNCHANGED <<status, address>>

(* start: open and map the device, read its features, fail it again.       *)
StartOpens ==
  \/ /\ Go("start", "start_map")
     /\ pci_device' = TRUE
     /\ UNCHANGED <<iomap, status, memory, interrupts, unreleased, opens>>
  \/ /\ Go("start", "stopped")
     /\ UNCHANGED <<iomap, status, memory, interrupts, rest>>

StartMaps ==
  \/ /\ Go("start_map", "start_reset")
     /\ iomap' = TRUE
     /\ UNCHANGED <<status, memory, interrupts, rest>>
  \/ /\ Go("start_map", "stopped")
     /\ pci_device' = FALSE
     /\ UNCHANGED <<iomap, status, memory, interrupts, unreleased, opens>>

StartResets ==
  /\ Fail("start_reset", "registered")
  /\ resetDevice
  /\ UNCHANGED <<iomap, queues, virtqueues, interrupts, rest>>

-----------------------------------------------------------------------------
(* The start of a client: the same calls in every client *)

(* handleOpen.                                                             *)
ClientOpens ==
  /\ opens < MaxOpens
  /\ ~iomap
  /\ opens' = opens + 1
  /\ \/ Go("registered", "client_reset") /\ iomap' = TRUE
     \/ Go("registered", "registered") /\ UNCHANGED iomap
  /\ UNCHANGED <<status, memory, interrupts, pci_device, unreleased>>

ClientResets ==
  /\ Go("client_reset", "features")
  /\ resetDevice
  /\ UNCHANGED <<iomap, queues, virtqueues, interrupts, rest>>

requestFeatures ==
  /\ Go("features", "setup") \/ Fail("features", "close")
  /\ UNCHANGED <<iomap, status, memory, interrupts, rest>>

(* The indirect tables of a queue, with the DMA commands for them and for  *)
(* second buffers, if the queue uses them (use_indirect).  They are all    *)
(* allocated here and released nowhere, not even if a later descriptor     *)
(* cannot be given its own.                                                *)
AllocateIndirectTables(q) ==
  indirect_tables' \in {indirect_tables, [indirect_tables EXCEPT ![q] = @ + 1]}

(* One pass of the loop of setupVirtqueues: setupVirtqueue allocates the   *)
(* memory and tells the device where it is, or releases the memory.        *)
setupVirtqueue(q) ==
  /\ q \notin queues /\ \A j \in Ids : j < q => j \in queues
  /\ \/ /\ Go("setup", "setup")
        /\ queues' = queues \cup {q}
        /\ address' = address \cup {q}
        /\ UNCHANGED virtqueues
     \/ /\ Fail("setup", "destroy_setup")
        /\ UNCHANGED memory
  /\ AllocateIndirectTables(q)
  /\ UNCHANGED <<iomap, status, interrupts, pci_device, temp_event_sources, opens>>

PublishQueues ==
  /\ Go("setup", "begin")
  /\ queues = Ids
  /\ virtqueues' = TRUE
  /\ UNCHANGED <<iomap, status, queues, address, interrupts, rest>>

(* After a failed setup the queues before it are destroyed, and the client *)
(* fails the device again.  Here as in DestroyVirtqueue the first DMA      *)
(* command of each descriptor and the memory of the rings go, and the      *)
(* indirect tables stay.                                                   *)
DestroySetup ==
  /\ Fail("destroy_setup", "close")
  /\ queues' = {}
  /\ UNCHANGED <<iomap, status, virtqueues, address, interrupts, rest>>

(* beginHandlingInterrupts, whose result startDevice ignores.  A second    *)
(* event source is created next to the first, or fails to be, and is only  *)
(* known to a local variable.                                              *)
CreateEventSource ==
  /\ \/ /\ Go("begin", "take_loop")
        /\ intr_event_source' = "created"
        /\ temp_event_sources' \in {temp_event_sources, temp_event_sources + 1}
     \/ /\ Go("begin", "driver_ok")
        /\ UNCHANGED <<intr_event_source, temp_event_sources>>
  /\ UNCHANGED <<iomap, status, memory, work_loop, pci_device, indirect_tables, opens>>

TakeWorkLoop ==
  /\ \/ Go("take_loop", "add") /\ work_loop' = TRUE
     \/ Go("take_loop", "driver_ok") /\ UNCHANGED work_loop
  /\ UNCHANGED <<iomap, status, memory, intr_event_source, rest>>

AddEventSource ==
  /\ \/ Go("add", "enable") /\ intr_event_source' = "added"
     \/ Go("add", "driver_ok") /\ intr_event_source' = "null"
  /\ UNCHANGED <<iomap, status, memory, work_loop, rest>>

EnableEventSource ==
  /\ Go("enable", "driver_ok")
  /\ intr_event_source' = "enabled"
  /\ UNCHANGED <<iomap, status, memory, work_loop, rest>>

(* The end of startDevice.                                                 *)
DriverOK ==
  /\ Go("driver_ok", "running")
  /\ status' = 7
  /\ UNCHANGED <<iomap, memory, interrupts, rest>>

-----------------------------------------------------------------------------
(* The end *)

\* Mutated form: the registers are unmapped first.
ClientUnmapsFirst ==
  /\ Fail("running", "close")
  /\ iomap' = FALSE
  /\ UNCHANGED <<status, memory, interrupts, rest>>

(* endDeviceOperation of a client, from stop or didTerminate.              *)
ClientEnds ==
  /\ Fail("running", "close")
  /\ UNCHANGED <<iomap, status, memory, interrupts, rest>>

(* handleClose.                                                            *)
CloseFails ==
  /\ virtqueues
  /\ Fail("close", "destroy")
  /\ UNCHANGED <<iomap, status, memory, interrupts, rest>>

DestroyVirtqueue(q) ==
  /\ q \in queues /\ \A j \in queues : q <= j
  /\ Go("destroy", "destroy")
  /\ queues' = queues \ {q}
  /\ UNCHANGED <<iomap, status, virtqueues, address, interrupts, rest>>

FreeQueueArray ==
  /\ queues = {}
  /\ Go("destroy", "close")
  /\ virtqueues' = FALSE
  /\ UNCHANGED <<iomap, status, queues, address, interrupts, rest>>

CloseUnmaps ==
  /\ ~virtqueues
  /\ Go("close", "registered")
  /\ iomap' = FALSE
  /\ UNCHANGED <<status, memory, interrupts, rest>>

(* closePCIDevice, from didTerminate and again from stop.                  *)
Terminate ==
  /\ pc = "registered"
  /\ pc' = "end_disable" /\ return_to' = "did_terminate"
  /\ UNCHANGED <<iomap, status, memory, interrupts, handlers, rest>>

ClosePCIDevice ==
  /\ \/ /\ pc = "did_terminate"
        /\ pc' = "end_disable" /\ return_to' = "stop"
     \/ /\ pc = "stop"
        /\ pc' = "stopped" /\ UNCHANGED return_to
  /\ pci_device' = FALSE
  /\ UNCHANGED <<iomap, status, memory, interrupts, handlers, unreleased, opens>>

-----------------------------------------------------------------------------
(* failDevice and endHandlingInterrupts *)

FailWritesStatus ==
  /\ pc = "fail_write"
  /\ pc' = "end_disable"
  /\ status' = (IF iomap THEN 128 ELSE status)
  /\ UNCHANGED <<return_to, iomap, memory, interrupts, handlers, rest>>

(* disable: no filter starts any more, and one that is running on another  *)
(* processor is waited for.                                                *)
DisableEventSource ==
  /\ pc = "end_disable"
  /\ \/ /\ intr_event_source = "null"
        /\ pc' = "end_release"
        /\ UNCHANGED intr_event_source
     \/ /\ intr_event_source # "null"
        /\ pc' = "end_wait"
        /\ intr_event_source' =
             (IF intr_event_source = "enabled" THEN "added" ELSE intr_event_source)
  /\ UNCHANGED <<return_to, iomap, status, memory, work_loop, handlers, rest>>

\* Mutated form: a running filter is not waited for.
FilterNotWaitedFor ==
  /\ pc = "end_wait"
  /\ pc' = (IF work_loop THEN "end_remove" ELSE "null_dereference")
  /\ UNCHANGED <<return_to, iomap, status, memory, interrupts, handlers, rest>>

(* An event source without a work loop (TakeWorkLoop failed) is removed    *)
(* through a null pointer.                                                 *)
FilterIsOver ==
  /\ pc = "end_wait"
  /\ filter = "idle"
  /\ pc' = (IF work_loop THEN "end_remove" ELSE "null_dereference")
  /\ UNCHANGED <<return_to, iomap, status, memory, interrupts, handlers, rest>>

(* removeEventSource runs in the gate: interruptAction is over by then.    *)
RemoveEventSource ==
  /\ pc = "end_remove"
  /\ action = "idle"
  /\ pc' = "end_release"
  /\ intr_event_source' = "null"
  /\ signalled' = FALSE
  /\ UNCHANGED <<return_to, iomap, status, memory, work_loop, filter, masking,
                 action, handling, rest>>

\* Mutated form: released only with an event source.
KeepWorkLoop ==
  /\ pc = "end_release"
  /\ pc' = (IF return_to \in {"did_terminate", "stop"} THEN return_to ELSE "fail_unmap")
  /\ UNCHANGED <<return_to, iomap, status, memory, interrupts, handlers, rest>>

ReleaseWorkLoop ==
  /\ pc = "end_release"
  /\ pc' = (IF return_to \in {"did_terminate", "stop"} THEN return_to ELSE "fail_unmap")
  /\ work_loop' = FALSE
  /\ UNCHANGED <<return_to, iomap, status, memory, intr_event_source, handlers, rest>>

FailUnmaps ==
  /\ pc = "fail_unmap"
  /\ pc' = return_to
  /\ iomap' = FALSE
  /\ UNCHANGED <<return_to, status, memory, interrupts, handlers, rest>>

-----------------------------------------------------------------------------
(* The handlers *)

controlVars == <<pc, return_to, iomap, status, memory, interrupts, rest>>

(* num_virtqueues, which is set with virtqueues.                           *)
num_virtqueues == IF virtqueues THEN NumQueues ELSE 0

(* The line may be shared with another device.                             *)
FilterStarts ==
  /\ intr_event_source = "enabled"
  /\ filter = "idle"
  /\ filter' = "reads"
  /\ UNCHANGED <<masking, signalled, action, handling, controlVars>>

FilterReadsISR ==
  /\ filter = "reads"
  /\ \/ filter' = "idle" /\ UNCHANGED <<masking, signalled>>
     \/ filter' = "idle" /\ signalled' = TRUE /\ UNCHANGED masking
     \/ filter' = "masks" /\ masking' = 0 /\ UNCHANGED signalled
  /\ UNCHANGED <<action, handling, controlVars>>

\* Mutated form: the loop stays at the first queue.
FilterMasksFirst ==
  /\ filter = "masks"
  /\ masking < num_virtqueues
  /\ UNCHANGED <<handlers, controlVars>>

FilterMasks ==
  /\ filter = "masks"
  /\ masking < num_virtqueues
  /\ masking' = masking + 1
  /\ UNCHANGED <<filter, signalled, action, handling, controlVars>>

FilterReturns ==
  /\ filter = "masks"
  /\ masking >= num_virtqueues
  /\ filter' = "idle"
  /\ signalled' = TRUE
  /\ UNCHANGED <<masking, action, handling, controlVars>>

ActionStarts ==
  /\ intr_event_source \in {"added", "enabled"}
  /\ signalled
  /\ action = "idle"
  /\ signalled' = FALSE
  /\ action' = "handles" /\ handling' = 0
  /\ UNCHANGED <<filter, masking, controlVars>>

ActionHandles ==
  /\ action = "handles"
  /\ handling < num_virtqueues
  /\ handling' = handling + 1
  /\ UNCHANGED <<filter, masking, signalled, action, controlVars>>

ActionReturns ==
  /\ action = "handles"
  /\ handling >= num_virtqueues
  /\ action' = "idle"
  /\ UNCHANGED <<filter, masking, signalled, handling, controlVars>>

-----------------------------------------------------------------------------
Start == StartOpens \/ StartMaps \/ StartResets

ClientStart ==
  \/ ClientResets \/ requestFeatures
  \/ \E q \in Ids : setupVirtqueue(q)
  \/ PublishQueues \/ DestroySetup
  \/ CreateEventSource \/ TakeWorkLoop \/ AddEventSource \/ EnableEventSource
  \/ DriverOK

Close ==
  \/ CloseFails \/ FreeQueueArray \/ CloseUnmaps
  \/ \E q \in Ids : DestroyVirtqueue(q)

End ==
  \/ FailWritesStatus \/ DisableEventSource \/ FilterIsOver \/ RemoveEventSource
  \/ ReleaseWorkLoop \/ FailUnmaps

Filter == FilterReadsISR \/ FilterMasks \/ FilterReturns
Action == ActionStarts \/ ActionHandles \/ ActionReturns

Next ==
  \/ Start \/ ClientOpens \/ ClientStart \/ ClientEnds \/ Close
  \/ Terminate \/ ClosePCIDevice \/ End
  \/ FilterStarts \/ Filter \/ Action

Spec == Init /\ [][Next]_vars

(* Once a call has begun it goes on; a filter and an action that run come  *)
(* to their end.  Nobody has to open, to terminate or to interrupt.        *)
Fairness ==
  /\ WF_vars(Start \/ ClientStart \/ Close \/ ClosePCIDevice \/ End)
  /\ WF_vars(Filter)
  /\ WF_vars(Action)

FairSpec == Spec /\ Fairness

-----------------------------------------------------------------------------
(* The interrupt filter never reads the status register without its map,   *)
(* neither handler touches a queue that is not there, and interruptAction  *)
(* does not outlive the work loop, wherever the control thread is:         *)
(* endHandlingInterrupts waits for the filter, and for the gate, before    *)
(* the map and the queues go (lines 266, 267, 587 to 594 and 1391 to       *)
(* 1395).                                                                  *)
HandlersSeeLiveState ==
  /\ filter = "reads" => iomap /\ pci_device
  /\ filter = "masks" /\ masking < num_virtqueues => masking \in queues
  /\ action = "handles" =>
       /\ work_loop /\ iomap
       /\ handling < num_virtqueues => handling \in queues

(* Queue memory is freed only after the device was told to stop: a device  *)
(* that is running has all the memory it knows of (lines 265 and 489).     *)
(* A call of failDevice that finds the registers unmapped, and so misses   *)
(* the device (handleClose makes one, line 587), comes after one that did  *)
(* reach it.                                                               *)
DeviceStoppedBeforeFree ==
  /\ status = 7 => address \subseteq queues
  /\ pc = "fail_write" /\ ~iomap => status = 128

(* However a client's start or end went, once it is closed the next start  *)
(* finds the null pointers that lines 187 and 1291 assert, no handler      *)
(* runs, and the device is stopped.  Not everything is released, although  *)
(* destroy_virtqueue says "free any resources allocated for the queue"     *)
(* (line 491): a client that was started leaves behind at most the second  *)
(* event source of line 1260 and one set of indirect tables per queue, and *)
(* these pile up from one start to the next.                               *)
WhatCloseLeaves ==
  pc = "registered" =>
    /\ ~iomap /\ ~virtqueues /\ queues = {}
    /\ intr_event_source = "null" /\ ~work_loop
    /\ filter = "idle" /\ action = "idle"
    /\ status # 7
    /\ temp_event_sources <= opens
    /\ \A q \in Ids : indirect_tables[q] <= opens

(* Taking a device down ends: it waits for the filter and for the gate,    *)
(* and neither waits for it.                                               *)
TakingDownEnds ==
  pc \in {"fail_write", "end_disable"} ~>
    pc \in {"registered", "stopped", "null_dereference"}

=============================================================================
