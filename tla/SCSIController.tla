---------------------------- MODULE SCSIController ----------------------------
(***************************************************************************)
(* The SCSI controller (VirtioSCSIController.cpp) between I/O Kit's SCSI   *)
(* family above and the device below.  The family gives it tasks and task  *)
(* management functions, which take memory descriptors from pools for as   *)
(* long as the device has them; the device reports targets that come and   *)
(* go in event buffers that are always posted.                             *)
(*                                                                         *)
(* All of it runs in the work loop's gate.  Completions of different       *)
(* queues are handled in any order.  A submission may always fail: for     *)
(* lack of descriptors or in a DMA operation.                              *)
(***************************************************************************)
EXTENDS Integers, FiniteSets, Sequences

CONSTANTS
  Requests,          \* parallel tasks of the family
  Functions,         \* task management functions; the family is told no limit
  NoItem,            \* not an item of a pool
  max_target,        \* the highest target, as the device reports it
  cmd_per_lun,       \* commands per unit, as the device reports it
  ControlQueueSize, EventQueueSize, RequestQueueSize,
  MaxChanges         \* bound on the targets that come and go

ASSUME TargetsAssumption == max_target \in Nat
ASSUME SizesAssumption ==
  {cmd_per_lun, ControlQueueSize, EventQueueSize, RequestQueueSize} \subseteq Nat \ {0}
ASSUME BoundAssumption == MaxChanges \in Nat

Targets == 0 .. max_target

AtMost(a, b) == IF a <= b THEN a ELSE b

\* Mutated form: the length of the queue alone.
QueueLength == RequestQueueSize

(* ReportMaximumTaskCount.                                                 *)
ReportMaximumTaskCount == AtMost(cmd_per_lun, RequestQueueSize)

Items == 1 .. AtMost(cmd_per_lun, RequestQueueSize)
CtrlItems == 1 .. ControlQueueSize

VARIABLES
  phase,                     \* of the controller
  hotplug,                   \* whether VIRTIO_SCSI_F_HOTPLUG is active
  indirect,                  \* whether VIRTIO_F_RING_INDIRECT_DESC is
  multi_subrange_MD_pool, single_subrange_MD_pool,
  ctrl_readable_pool, ctrl_writable_pool,
  task,                      \* "idle", "device" or the device's answer
  target,                    \* the target of a task in the device
  multi_md, sub_md,          \* the items a task in the device holds
  function,                  \* "idle", "device" or "answered"
  readable, writable,        \* the items a function in the device holds
  posted,                    \* event buffers the device has
  events,                    \* event buffers it has filled, in order
  targets,                   \* the targets the family knows
  unprobed,                  \* those of them nothing was sent to yet
  device_targets,            \* the targets there are
  missed,                    \* an event found no buffer
  stable,                    \* history: targets that were there all the time
  changes

features == <<hotplug, indirect>>
pools == <<multi_subrange_MD_pool, single_subrange_MD_pool>>
tasks == <<task, target, multi_md, sub_md>>
control == <<ctrl_readable_pool, ctrl_writable_pool, function, readable, writable>>
hotplugVars == <<posted, events, device_targets, missed, stable, changes>>
vars == <<phase, features, pools, tasks, control, targets, unprobed, hotplugVars>>

(* The end of InitializeController: the pools are full, event buffers are  *)
(* posted, the device runs.                                                *)
Init ==
  /\ phase = "initialized"
  /\ hotplug \in BOOLEAN /\ indirect \in BOOLEAN
  /\ multi_subrange_MD_pool = Items /\ single_subrange_MD_pool = Items
  /\ ctrl_readable_pool = CtrlItems /\ ctrl_writable_pool = CtrlItems
  /\ task = [r \in Requests |-> "idle"]
  /\ target = [r \in Requests |-> 0]
  /\ multi_md = [r \in Requests |-> NoItem]
  /\ sub_md = [r \in Requests |-> NoItem]
  /\ function = [f \in Functions |-> "idle"]
  /\ readable = [f \in Functions |-> NoItem]
  /\ writable = [f \in Functions |-> NoItem]
  /\ posted \in 0 .. EventQueueSize /\ events = <<>>
  /\ targets = {} /\ unprobed = {}
  /\ device_targets \in SUBSET Targets
  /\ stable = device_targets
  /\ missed = FALSE /\ changes = 0

-----------------------------------------------------------------------------
(* The family's targets.  CreateTargetForID and DestroyTargetForID do      *)
(* nothing if the target is known, or not known, already.                  *)

CreateTargets(new) ==
  /\ targets' = targets \cup new
  /\ unprobed' = unprobed \cup (new \ targets)

DestroyTarget(t) ==
  /\ targets' = targets \ {t}
  /\ unprobed' = unprobed \ {t}

(* With hot-plugging StartController names the targets below max_target;   *)
(* without it the family looks for all of them itself.                     *)
StartController ==
  /\ phase = "initialized"
  /\ phase' = "started"
  /\ CreateTargets(IF hotplug THEN {t \in Targets : t < max_target} ELSE Targets)
  /\ UNCHANGED <<features, pools, tasks, control, hotplugVars>>

(* Tasks in the device are never completed.                                *)
TerminateController ==
  /\ phase = "started"
  /\ phase' = "terminated"
  /\ multi_subrange_MD_pool' = {} /\ single_subrange_MD_pool' = {}
  /\ ctrl_readable_pool' = {} /\ ctrl_writable_pool' = {}
  /\ UNCHANGED <<features, tasks, function, readable, writable, targets, unprobed,
                 hotplugVars>>

-----------------------------------------------------------------------------
(* Tasks *)

(* The family's limit, and the structure it uses for a task.               *)
MayProcess(r, t) ==
  /\ phase = "started"
  /\ task[r] = "idle"
  /\ t \in targets
  /\ Cardinality({q \in Requests : task[q] # "idle"}) < ReportMaximumTaskCount

TaskSent(r, t) ==
  /\ MayProcess(r, t)
  /\ \E m \in multi_subrange_MD_pool, s \in single_subrange_MD_pool :
       /\ multi_subrange_MD_pool' = multi_subrange_MD_pool \ {m}
       /\ single_subrange_MD_pool' = single_subrange_MD_pool \ {s}
       /\ multi_md' = [multi_md EXCEPT ![r] = m]
       /\ sub_md' = [sub_md EXCEPT ![r] = s]
  /\ task' = [task EXCEPT ![r] = "device"]
  /\ target' = [target EXCEPT ![r] = t]
  /\ unprobed' = unprobed \ {t}
  /\ UNCHANGED <<phase, features, control, targets, hotplugVars>>

\* Mutated form: the second item does not go back.
TaskRefusedKeeping(r, t) ==
  /\ MayProcess(r, t)
  /\ multi_subrange_MD_pool # {}
  /\ \E s \in single_subrange_MD_pool :
       single_subrange_MD_pool' = single_subrange_MD_pool \ {s}
  /\ UNCHANGED <<phase, features, multi_subrange_MD_pool, tasks, control, targets,
                 unprobed, hotplugVars>>

(* Both items are taken and go back.                                       *)
TaskRefused(r, t) ==
  /\ MayProcess(r, t)
  /\ multi_subrange_MD_pool # {} /\ single_subrange_MD_pool # {}
  /\ UNCHANGED vars

(* An empty pool would yield a null pointer, which is used all the same.   *)
ProcessParallelTask(r, t) == TaskSent(r, t) \/ TaskRefused(r, t)

(* The device does not know a target that is not there.                    *)
DeviceAnswersTask(r) ==
  /\ phase = "started"
  /\ task[r] = "device"
  /\ \E answer \in IF target[r] \in device_targets THEN {"ok", "error"} ELSE {"bad_target"} :
       task' = [task EXCEPT ![r] = answer]
  /\ UNCHANGED <<phase, features, pools, target, multi_md, sub_md, control, targets,
                 unprobed, hotplugVars>>

\* Mutated form: an error of any kind removes the target.
BadTargetOrError(answer) == answer # "ok"

IsBadTarget(answer) == answer = "bad_target"

ItemsReturned(r) ==
  /\ multi_subrange_MD_pool' = multi_subrange_MD_pool \cup {multi_md[r]}
  /\ single_subrange_MD_pool' = single_subrange_MD_pool \cup {sub_md[r]}

(* The items go back before CompleteParallelTask lets the family send the  *)
(* next task.  Completions are never called with device_reset.             *)
parallelTaskCompleted(r) ==
  /\ phase = "started"
  /\ task[r] \in {"ok", "error", "bad_target"}
  /\ ItemsReturned(r)
  /\ IF IsBadTarget(task[r]) THEN DestroyTarget(target[r])
     ELSE UNCHANGED <<targets, unprobed>>
  /\ task' = [task EXCEPT ![r] = "idle"]
  /\ multi_md' = [multi_md EXCEPT ![r] = NoItem]
  /\ sub_md' = [sub_md EXCEPT ![r] = NoItem]
  /\ target' = [target EXCEPT ![r] = 0]
  /\ UNCHANGED <<phase, features, control, hotplugVars>>

-----------------------------------------------------------------------------
(* Task management functions *)

Busy(state) == {x \in DOMAIN state : state[x] # "idle"}

(* submitBuffersToVirtqueue: two buffers take two entries of the control   *)
(* queue, or one that refers to an indirect table.                         *)
RoomInControlQueue ==
  LET entries == IF indirect THEN 1 ELSE 2 IN
  entries * (Cardinality(Busy(function)) + 1) <= ControlQueueSize

FunctionSent(f) ==
  /\ RoomInControlQueue
  /\ \E i \in ctrl_readable_pool, j \in ctrl_writable_pool :
       /\ ctrl_readable_pool' = ctrl_readable_pool \ {i}
       /\ ctrl_writable_pool' = ctrl_writable_pool \ {j}
       /\ readable' = [readable EXCEPT ![f] = i]
       /\ writable' = [writable EXCEPT ![f] = j]
  /\ function' = [function EXCEPT ![f] = "device"]
  /\ UNCHANGED phase

(* For lack of room, or in a DMA operation: both items go back.            *)
FunctionRefused ==
  /\ ctrl_readable_pool # {} /\ ctrl_writable_pool # {}
  /\ UNCHANGED <<phase, control>>

(* An empty pool yields a null pointer, which is used without a test.      *)
FunctionWithoutItem ==
  /\ ctrl_readable_pool = {}
  /\ phase' = "null_dereference"
  /\ UNCHANGED control

processTaskManagementFunction(f) ==
  /\ phase = "started"
  /\ function[f] = "idle"
  /\ FunctionSent(f) \/ FunctionRefused \/ FunctionWithoutItem
  /\ UNCHANGED <<features, pools, tasks, targets, unprobed, hotplugVars>>

DeviceAnswersFunction(f) ==
  /\ phase = "started"
  /\ function[f] = "device"
  /\ function' = [function EXCEPT ![f] = "answered"]
  /\ UNCHANGED <<phase, features, pools, tasks, ctrl_readable_pool,
                 ctrl_writable_pool, readable, writable, targets, unprobed,
                 hotplugVars>>

CtrlItemsReturned(f) ==
  /\ ctrl_readable_pool' = ctrl_readable_pool \cup {readable[f]}
  /\ ctrl_writable_pool' = ctrl_writable_pool \cup {writable[f]}

taskManagementFunctionCompleted(f) ==
  /\ phase = "started"
  /\ function[f] = "answered"
  /\ CtrlItemsReturned(f)
  /\ function' = [function EXCEPT ![f] = "idle"]
  /\ readable' = [readable EXCEPT ![f] = NoItem]
  /\ writable' = [writable EXCEPT ![f] = NoItem]
  /\ UNCHANGED <<phase, features, pools, tasks, targets, unprobed, hotplugVars>>

-----------------------------------------------------------------------------
(* Targets that come and go.  An event that finds no buffer is lost; the   *)
(* device sets the events-missed bit in an event it reports later.         *)

DeviceChanges(t) ==
  /\ hotplug
  /\ phase \in {"initialized", "started"}
  /\ changes < MaxChanges
  /\ changes' = changes + 1
  /\ \/ /\ t \in device_targets
        /\ device_targets' = device_targets \ {t}
        /\ stable' = stable \ {t}
     \/ /\ t \notin device_targets
        /\ device_targets' = device_targets \cup {t}
        /\ UNCHANGED stable
  /\ \/ /\ posted > 0
        /\ posted' = posted - 1
        /\ \E bit \in IF missed THEN BOOLEAN ELSE {FALSE} :
             events' = Append(events,
               [reason |-> IF t \in device_targets THEN "removed" ELSE "rescan",
                id |-> t, events_missed |-> bit])
        /\ UNCHANGED missed
     \/ /\ posted = 0
        /\ missed' = TRUE
        /\ UNCHANGED <<posted, events>>
  /\ UNCHANGED <<phase, features, pools, tasks, control, targets, unprobed>>

(* The buffer is posted again, or released if that fails.                  *)
EventBufferPosted == posted' \in {posted, posted + 1}

\* Mutated form: the event is not looked at.
EventIgnored(event) == UNCHANGED <<targets, unprobed>>

(* The type of an event with the bit set is not VIRTIO_SCSI_T_TRANSPORT_   *)
(* RESET: nothing is done about it.                                        *)
EventHandled(event) ==
  \/ event.events_missed /\ UNCHANGED <<targets, unprobed>>
  \/ ~event.events_missed /\ event.reason = "rescan" /\ CreateTargets({event.id})
  \/ ~event.events_missed /\ event.reason = "removed" /\ DestroyTarget(event.id)

eventCompleted ==
  /\ phase \in {"initialized", "started"}
  /\ events # <<>>
  /\ EventHandled(Head(events))
  /\ events' = Tail(events)
  /\ EventBufferPosted
  /\ UNCHANGED <<phase, features, pools, tasks, control, device_targets, missed,
                 stable, changes>>

-----------------------------------------------------------------------------
Next ==
  \/ StartController \/ TerminateController
  \/ \E r \in Requests, t \in Targets : ProcessParallelTask(r, t)
  \/ \E r \in Requests : DeviceAnswersTask(r) \/ parallelTaskCompleted(r)
  \/ \E f \in Functions :
       \/ processTaskManagementFunction(f)
       \/ DeviceAnswersFunction(f) \/ taskManagementFunctionCompleted(f)
  \/ \E t \in Targets : DeviceChanges(t)
  \/ eventCompleted

Spec == Init /\ [][Next]_vars

Probe(t) == t \in unprobed /\ \E r \in Requests : TaskSent(r, t)

(* The device answers what it has and its answers are handled; the family  *)
(* sends something to every new target, and keeps at it while tasks are    *)
(* refused.                                                                *)
Fairness ==
  /\ WF_vars(StartController)
  /\ \A r \in Requests : WF_vars(DeviceAnswersTask(r) \/ parallelTaskCompleted(r))
  /\ \A t \in Targets : SF_vars(Probe(t))
  /\ WF_vars(eventCompleted)

FairSpec == Spec /\ Fairness

-----------------------------------------------------------------------------
(* A memory descriptor or buffer is with one task or function in the      *)
(* device or in its pool, never both and never neither: a submission that  *)
(* fails and a completion give back exactly what was taken (lines 511 to   *)
(* 515, 539 to 542, 674 and 715).                                          *)
ItemsAccountedFor ==
  phase = "started" =>
    LET Split(pool, all, item, state) ==
          LET held == {item[x] : x \in Busy(state)} IN
          pool = all \ held /\ Cardinality(held) = Cardinality(Busy(state))
    IN  /\ Split(multi_subrange_MD_pool, Items, multi_md, task)
        /\ Split(single_subrange_MD_pool, Items, sub_md, task)
        /\ Split(ctrl_readable_pool, CtrlItems, readable, function)
        /\ Split(ctrl_writable_pool, CtrlItems, writable, function)

(* item_from_pool has an item of each kind for every task the family may   *)
(* still send, so lines 459 to 501 never use a null pointer.  For a        *)
(* management function (line 652) that is so with direct descriptors,      *)
(* where the control queue is full before the pools are empty.  With       *)
(* indirect ones it is so only while fewer functions are going than the    *)
(* queue has entries, and nothing keeps the family to that number.         *)
ItemForEveryRequest ==
  phase = "started" =>
    /\ Cardinality(Busy(task)) < ReportMaximumTaskCount =>
         multi_subrange_MD_pool # {} /\ single_subrange_MD_pool # {}
    /\ ~indirect \/ Cardinality(Busy(function)) < ControlQueueSize =>
         ctrl_readable_pool # {} /\ ctrl_writable_pool # {}

(* A target that was there all the time, and that StartController named,   *)
(* stays known: no event and no answer about another removes it.           *)
StableTargetsStay ==
  phase = "started" =>
    \A t \in stable : t < max_target \/ ~hotplug => t \in targets

(* The family learns of targets that are gone: by an event, or by the      *)
(* answer to what it sends to a target it was told of too late.  Not so    *)
(* once the device had no buffer for an event: neither that event nor the  *)
(* bit that tells of it has an effect.                                     *)
GoneTargetsForgotten ==
  <>[](targets \subseteq device_targets \/ missed \/ phase \notin {"initialized", "started"})

=============================================================================
