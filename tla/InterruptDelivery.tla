-------------------------- MODULE InterruptDelivery ---------------------------
(***************************************************************************)
(* How completions and configuration changes reach the work loop           *)
(* (VirtioLegacyPCIDevice.cpp).  Three parties run at once: the device,    *)
(* which publishes used entries and raises the interrupt unless the        *)
(* queue's NO_INTERRUPT flag is set; interruptFilter, in interrupt         *)
(* context, which reads and clears the ISR, masks the queues and has the   *)
(* work loop run interruptAction; and the work loop, which empties the     *)
(* used rings, clears NO_INTERRUPT and looks at each ring once more before *)
(* it stops.  Clients submit requests, poll, and switch interrupts on and  *)
(* off per queue.                                                          *)
(*                                                                         *)
(* A ring is abstracted to the number of used entries not yet processed    *)
(* (used_ring->head_index - used_ring_last_head_index); DescriptorChains   *)
(* and Virtqueue model its contents.                                       *)
(***************************************************************************)
EXTENDS Integers

CONSTANTS
  NumQueues,        \* num_virtqueues
  QueueSize,        \* requests a queue can hold
  MaxClientCalls    \* bound on the calls clients make

ASSUME NumQueuesAssumption == NumQueues \in Nat
ASSUME QueueSizeAssumption == QueueSize \in Nat \ {0}
ASSUME MaxClientCallsAssumption == MaxClientCalls \in Nat

VARIABLES
  in_device,               \* requests the device holds, per queue
  completed,               \* used entries the driver has not processed
  before_enable,           \* those already there when interrupts went on
  must_check,              \* queues whose flag the device has yet to read
  no_interrupt,            \* queues with available_ring->flags = NO_INTERRUPT
  interrupts_requested,    \* queues whose client wants interrupts
  isr,                     \* ISR_STATUS; the line is up while it is not {}
  filter, filter_queue,    \* where interruptFilter is, and at which queue
  action,                  \* whether interruptAction is signalled to run
  received_config_change,  \* the flag, 0 or 1
  config,                  \* whether the client has read the configuration
  work_loop,               \* where the work loop thread is
  caller,                  \* who called processCompletedRequests...
  queue, found,            \* its queue, and the entries it has found there
  client,                  \* queue of a half-done setVirtqueueInterruptsEnabled
  client_calls

deviceVars == <<in_device, completed, before_enable, must_check>>
flagVars == <<no_interrupt, interrupts_requested>>
filterVars == <<filter, filter_queue>>
configVars == <<received_config_change, config>>
loopVars == <<work_loop, caller, queue, found>>
clientVars == <<client, client_calls>>
vars == <<deviceVars, flagVars, isr, filterVars, action, configVars, loopVars,
          clientVars>>

Queues == 0 .. NumQueues - 1
NoQueue == -1
USED == "USED"
CONF_CHANGE == "CONF_CHANGE"

(* setupVirtqueue: each queue's interrupts are on or off as the client     *)
(* asked; startDevice then lets the device run.                            *)
Init ==
  /\ in_device = [q \in Queues |-> 0]
  /\ completed = [q \in Queues |-> 0]
  /\ before_enable = [q \in Queues |-> 0]
  /\ must_check = {}
  /\ interrupts_requested \in SUBSET Queues
  /\ no_interrupt = Queues \ interrupts_requested
  /\ isr = {}
  /\ filter = "off" /\ filter_queue = 0
  /\ action = "idle"
  /\ received_config_change = 0
  /\ config = "read"
  /\ work_loop = "idle" /\ caller = "action" /\ queue = 0 /\ found = 0
  /\ client = NoQueue
  /\ client_calls = 0

-----------------------------------------------------------------------------
(* The device.  It publishes a used entry first and reads the flag later.  *)
(* The flag is advice: a device may interrupt for a masked queue all the   *)
(* same, as one with NOTIFY_ON_EMPTY does for an emptied one.              *)

DevicePublish(q) ==
  /\ in_device[q] > 0
  /\ in_device' = [in_device EXCEPT ![q] = @ - 1]
  /\ completed' = [completed EXCEPT ![q] = @ + 1]
  /\ must_check' = must_check \cup {q}
  /\ UNCHANGED <<before_enable, flagVars, isr, filterVars, action, configVars,
                 loopVars, clientVars>>

DeviceCheckFlag(q) ==
  /\ q \in must_check
  /\ must_check' = must_check \ {q}
  /\ isr' \in {isr \cup {USED}} \cup (IF q \in no_interrupt THEN {isr} ELSE {})
  /\ UNCHANGED <<in_device, completed, before_enable, flagVars, filterVars,
                 action, configVars, loopVars, clientVars>>

DeviceChangesConfig ==
  /\ config' = "changed"
  /\ isr' = isr \cup {CONF_CHANGE}
  /\ UNCHANGED <<deviceVars, flagVars, filterVars, action,
                 received_config_change, loopVars, clientVars>>

-----------------------------------------------------------------------------
(* interruptFilter.  Reading the ISR clears it; a configuration change     *)
(* returns before the queues are masked.                                   *)

FilterReadsISR ==
  /\ filter = "off"
  /\ isr # {}
  /\ filter' = IF CONF_CHANGE \in isr THEN "config" ELSE "mask"
  /\ isr' = {}
  /\ UNCHANGED <<deviceVars, flagVars, filter_queue, action, configVars,
                 loopVars, clientVars>>

\* Mutated form: the filter returns false.
FilterNotesConfigChangeOnly ==
  /\ filter = "config"
  /\ received_config_change' = 1
  /\ filter' = "off"
  /\ UNCHANGED <<deviceVars, flagVars, isr, filter_queue, action, config,
                 loopVars, clientVars>>

FilterNotesConfigChange ==
  /\ filter = "config"
  /\ received_config_change' = 1
  /\ action' = "signalled"
  /\ filter' = "off"
  /\ UNCHANGED <<deviceVars, flagVars, isr, filter_queue, config, loopVars,
                 clientVars>>

FilterMasksQueue ==
  /\ filter = "mask"
  /\ filter_queue < NumQueues
  /\ no_interrupt' = no_interrupt \cup {filter_queue}
  /\ filter_queue' = filter_queue + 1
  /\ UNCHANGED <<deviceVars, interrupts_requested, isr, filter, action,
                 configVars, loopVars, clientVars>>

(* Returning true makes the event source signal the work loop.             *)
\* Mutated form: the filter returns false.
FilterDoesNotSignal ==
  /\ filter = "mask"
  /\ filter_queue = NumQueues
  /\ filter' = "off" /\ filter_queue' = 0
  /\ UNCHANGED <<deviceVars, flagVars, isr, action, configVars, loopVars,
                 clientVars>>

FilterSignals ==
  /\ filter = "mask"
  /\ filter_queue = NumQueues
  /\ action' = "signalled"
  /\ filter' = "off" /\ filter_queue' = 0
  /\ UNCHANGED <<deviceVars, flagVars, isr, configVars, loopVars, clientVars>>

-----------------------------------------------------------------------------
(* interruptAction, on the work loop *)

ActionStarts ==
  /\ work_loop = "idle"
  /\ action = "signalled"
  /\ action' = "idle"
  /\ work_loop' = "config_test" /\ caller' = "action" /\ queue' = 0
  /\ UNCHANGED <<deviceVars, flagVars, isr, filterVars, configVars, found,
                 clientVars>>

ActionTestsConfigChange ==
  /\ work_loop = "config_test"
  /\ work_loop' = IF received_config_change # 0 THEN "config_clear" ELSE "queue"
  /\ UNCHANGED <<deviceVars, flagVars, isr, filterVars, action, configVars,
                 caller, queue, found, clientVars>>

ActionClearsConfigChange ==
  /\ work_loop = "config_clear"
  /\ received_config_change' = 0
  /\ work_loop' = "config_call"
  /\ UNCHANGED <<deviceVars, flagVars, isr, filterVars, action, config, caller,
                 queue, found, clientVars>>

(* configChangeAction: the client reads the configuration.                 *)
ActionCallsClient ==
  /\ work_loop = "config_call"
  /\ config' = "read"
  /\ work_loop' = "queue"
  /\ UNCHANGED <<deviceVars, flagVars, isr, filterVars, action,
                 received_config_change, caller, queue, found,
                 clientVars>>

(* The loop over the queues in interruptAction.                            *)
\* Mutated form: the flag is cleared once more, after the client was called.
ActionTakesQueueAndClears ==
  /\ work_loop = "queue"
  /\ IF queue < NumQueues THEN work_loop' = "read" /\ queue' = queue
                          ELSE work_loop' = "idle" /\ queue' = 0
  /\ received_config_change' = 0
  /\ UNCHANGED <<deviceVars, flagVars, isr, filterVars, action, config, caller,
                 found, clientVars>>

ActionTakesQueue ==
  /\ work_loop = "queue"
  /\ IF queue < NumQueues THEN work_loop' = "read" /\ queue' = queue
                          ELSE work_loop' = "idle" /\ queue' = 0
  /\ UNCHANGED <<deviceVars, flagVars, isr, filterVars, action, configVars,
                 caller, found, clientVars>>

-----------------------------------------------------------------------------
(* processCompletedRequestsInVirtqueue *)

(* The tests of lines 1113 and 1120.  No statement adds to total_handled,  *)
(* so the comparison with a completion limit never holds and every pass    *)
(* ends with an empty ring (Virtqueue keeps the limit).                    *)
NothingToDo == completed[queue] = 0

ProcessReadsHead ==
  /\ work_loop = "read"
  /\ IF NothingToDo THEN work_loop' = "unmask" /\ found' = 0
                    ELSE work_loop' = "handle" /\ found' = completed[queue]
  /\ UNCHANGED <<deviceVars, flagVars, isr, filterVars, action, configVars,
                 caller, queue, clientVars>>

\* Mutated form: NO_INTERRUPT stays set.
ProcessLeavesMasked ==
  /\ work_loop = "unmask"
  /\ work_loop' = "reread"
  /\ UNCHANGED <<deviceVars, flagVars, isr, filterVars, action, configVars,
                 caller, queue, found, clientVars>>

ProcessUnmasks ==
  /\ work_loop = "unmask"
  /\ no_interrupt' = IF queue \in interrupts_requested
                     THEN no_interrupt \ {queue} ELSE no_interrupt
  /\ work_loop' = "reread"
  /\ UNCHANGED <<deviceVars, interrupts_requested, isr, filterVars, action,
                 configVars, caller, queue, found, clientVars>>

(* After the last look, back to interruptAction's next queue or to the     *)
(* client that polled.                                                     *)
\* Mutated form: it returns without the second look.
ProcessReturnsAtOnce ==
  /\ work_loop = "reread"
  /\ IF caller = "action" THEN work_loop' = "queue" /\ queue' = queue + 1
                           ELSE work_loop' = "idle" /\ queue' = 0
  /\ caller' = "action" /\ found' = 0
  /\ UNCHANGED <<deviceVars, flagVars, isr, filterVars, action, configVars,
                 clientVars>>

ProcessRereadsHead ==
  /\ work_loop = "reread"
  /\ IF NothingToDo
     THEN /\ IF caller = "action" THEN work_loop' = "queue" /\ queue' = queue + 1
                                  ELSE work_loop' = "idle" /\ queue' = 0
          /\ caller' = "action" /\ found' = 0
     ELSE /\ work_loop' = "handle"
          /\ found' = completed[queue]
          /\ UNCHANGED <<caller, queue>>
  /\ UNCHANGED <<deviceVars, flagVars, isr, filterVars, action, configVars,
                 clientVars>>

AtMost(a, b) == IF a <= b THEN a ELSE b

(* The loop over the entries found; it ends by storing the new             *)
(* used_ring_last_head_index.  Clients may submit from their callbacks.    *)
ProcessHandles ==
  /\ work_loop = "handle"
  /\ completed' = [completed EXCEPT ![queue] = @ - found]
  /\ before_enable' = [before_enable EXCEPT ![queue] = @ - AtMost(@, found)]
  /\ work_loop' = "read" /\ found' = 0
  /\ UNCHANGED <<in_device, must_check, flagVars, isr, filterVars, action,
                 configVars, caller, queue, clientVars>>

-----------------------------------------------------------------------------
(* Clients *)

Call ==
  /\ client_calls < MaxClientCalls
  /\ client_calls' = client_calls + 1

(* submitBuffersToVirtqueue, in the gate or from a completion action.      *)
Submit(q) ==
  /\ Call
  /\ work_loop \in {"idle", "handle"}
  /\ in_device[q] + completed[q] < QueueSize
  /\ in_device' = [in_device EXCEPT ![q] = @ + 1]
  /\ UNCHANGED <<completed, before_enable, must_check, flagVars, isr,
                 filterVars, action, configVars, loopVars, client>>

(* pollCompletedRequestsInVirtqueue *)
Poll(q) ==
  /\ Call
  /\ work_loop = "idle"
  /\ work_loop' = "read" /\ caller' = "poll" /\ queue' = q
  /\ UNCHANGED <<deviceVars, flagVars, isr, filterVars, action, configVars,
                 found, client>>

(* setVirtqueueInterruptsEnabled is called from any thread and makes two   *)
(* writes.  It does not look at the used ring.                             *)
SetInterruptsRequested(q) ==
  /\ Call
  /\ client = NoQueue
  /\ interrupts_requested' = IF q \in interrupts_requested
                             THEN interrupts_requested \ {q}
                             ELSE interrupts_requested \cup {q}
  /\ client' = q
  /\ UNCHANGED <<deviceVars, no_interrupt, isr, filterVars, action, configVars,
                 loopVars>>

SetInterruptsFlag ==
  /\ client # NoQueue
  /\ no_interrupt' = IF client \in interrupts_requested
                     THEN no_interrupt \ {client} ELSE no_interrupt \cup {client}
  /\ before_enable' = [before_enable EXCEPT ![client] = completed[client]]
  /\ client' = NoQueue
  /\ UNCHANGED <<in_device, completed, must_check, interrupts_requested, isr,
                 filterVars, action, configVars, loopVars, client_calls>>

-----------------------------------------------------------------------------
Device ==
  \/ \E q \in Queues : DevicePublish(q)
  \/ \E q \in Queues : DeviceCheckFlag(q)
  \/ DeviceChangesConfig

Filter ==
  \/ FilterReadsISR
  \/ FilterNotesConfigChange
  \/ FilterMasksQueue
  \/ FilterSignals

WorkLoop ==
  \/ ActionStarts
  \/ ActionTestsConfigChange
  \/ ActionClearsConfigChange
  \/ ActionCallsClient
  \/ ActionTakesQueue
  \/ ProcessReadsHead
  \/ ProcessUnmasks
  \/ ProcessRereadsHead
  \/ ProcessHandles

Client ==
  \/ \E q \in Queues : Submit(q)
  \/ \E q \in Queues : Poll(q)
  \/ \E q \in Queues : SetInterruptsRequested(q)
  \/ SetInterruptsFlag

Next == Device \/ Filter \/ WorkLoop \/ Client

Spec == Init /\ [][Next]_vars

(* The interrupt is taken, the work loop thread is scheduled, a call that  *)
(* began returns, and the device decides about the interrupt it owes.      *)
Fairness ==
  /\ WF_vars(Filter)
  /\ WF_vars(WorkLoop)
  /\ WF_vars(SetInterruptsFlag)
  /\ \A q \in Queues : WF_vars(DeviceCheckFlag(q))

FairSpec == Spec /\ Fairness

-----------------------------------------------------------------------------
InAction == {"config_test", "config_clear", "config_call", "queue"}
InProcess == {"read", "unmask", "reread", "handle"}

(* The types of the variables: counts are natural numbers, so no ring is   *)
(* ever taken to hold fewer entries than none.                             *)
TypeOK ==
  /\ in_device \in [Queues -> Nat]
  /\ completed \in [Queues -> Nat]
  /\ before_enable \in [Queues -> Nat]
  /\ must_check \subseteq Queues
  /\ no_interrupt \subseteq Queues
  /\ interrupts_requested \subseteq Queues
  /\ isr \subseteq {USED, CONF_CHANGE}
  /\ filter \in {"off", "config", "mask"}
  /\ filter_queue \in 0 .. NumQueues
  /\ action \in {"signalled", "idle"}
  /\ received_config_change \in {0, 1}
  /\ config \in {"read", "changed"}
  /\ work_loop \in {"idle"} \cup InAction \cup InProcess
  /\ caller \in {"action", "poll"}
  /\ queue \in 0 .. NumQueues
  /\ found \in Nat
  /\ client \in Queues \cup {NoQueue}
  /\ client_calls \in 0 .. MaxClientCalls

(* interruptAction has been or is about to be signalled.                   *)
ActionComing == filter # "off" \/ action = "signalled"

(* interruptAction is running and has yet to pass one of the given points  *)
(* of processCompletedRequestsInVirtqueue for queue q.                     *)
ActionBefore(q, points) ==
  /\ caller = "action"
  /\ \/ work_loop \in InAction \cup InProcess /\ queue < q
     \/ work_loop \in InAction \cup points /\ queue = q

(* The client of q wants interrupts and is not just switching them.        *)
Settled(q) == q \in interrupts_requested /\ client # q

(* "disable further virtqueue interrupts until the handler has run?"       *)
(* (line 1340): a queue whose client wants interrupts is masked only while *)
(* interruptAction is due or has yet to unmask it, although the filter     *)
(* masks at any moment of the handler's run.                               *)
MaskedOnlyUntilHandled ==
  \A q \in Queues : Settled(q) /\ q \in no_interrupt =>
    ActionComing \/ ActionBefore(q, {"read", "unmask", "handle"})

(* No completion is forgotten: if a queue whose client wants interrupts    *)
(* has a used entry newer than the moment they were switched on, then the  *)
(* device is about to interrupt, or has, or the filter or the handler is   *)
(* on its way to that entry.  The clear-then-look-again order of lines     *)
(* 1115 to 1121 is what this rests on.                                     *)
NoLostCompletion ==
  \A q \in Queues : Settled(q) /\ completed[q] > before_enable[q] =>
    \/ q \in must_check /\ q \notin no_interrupt
    \/ isr # {}
    \/ ActionComing
    \/ ActionBefore(q, InProcess)

(* No configuration change is forgotten: the flag is cleared before the    *)
(* client reads the configuration, so that a change that comes later is    *)
(* noted anew.                                                             *)
NoLostConfigChange ==
  /\ config = "changed" => \/ CONF_CHANGE \in isr
                           \/ filter = "config"
                           \/ received_config_change = 1
                           \/ work_loop = "config_call"
  /\ received_config_change = 1 => \/ action = "signalled"
                                   \/ work_loop \in {"config_test", "config_clear"}

(* A used entry of a queue with interrupts on is processed in the end.     *)
CompletionsProcessed ==
  \A q \in Queues :
    Settled(q) /\ completed[q] > before_enable[q] ~> completed[q] = 0 \/ ~Settled(q)

(* The client reads every changed configuration in the end.                *)
ConfigChangesDelivered == config = "changed" ~> config = "read"

=============================================================================
