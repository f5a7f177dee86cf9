----------------------- MODULE InterruptDeliveryProofs -----------------------
(***************************************************************************)
(* Machine-checked proofs about InterruptDelivery, for any number and size *)
(* of queues and any number of client calls.                               *)
(***************************************************************************)
EXTENDS InterruptDelivery, TLAPS

(* Where the work loop can be.  The entries a pass is about to handle are  *)
(* still in the ring.                                                      *)
WellPlaced ==
  /\ work_loop \in InProcess => queue \in Queues
  /\ work_loop \in {"config_test", "config_clear", "config_call"} => queue = 0
  /\ work_loop \notin InProcess => caller = "action"
  /\ work_loop = "handle" => found <= completed[queue]

(* The inductive invariant.  That no completion is lost is not inductive   *)
(* alone: an entry published while its queue is masked is safe only        *)
(* because a masked queue is still on the handler's way.                   *)
IInv ==
  /\ TypeOK
  /\ WellPlaced
  /\ MaskedOnlyUntilHandled
  /\ NoLostCompletion
  /\ NoLostConfigChange

(* After start there is nothing to lose.                                   *)
LEMMA InitEstablishesIInv == Init => IInv
<1> SUFFICES ASSUME Init PROVE IInv
  OBVIOUS
<1> USE NumQueuesAssumption DEF Init, Queues, InAction, InProcess
<1>1. TypeOK
  BY MaxClientCallsAssumption DEF TypeOK
<1>2. WellPlaced
  BY DEF WellPlaced
<1>3. MaskedOnlyUntilHandled
  BY DEF MaskedOnlyUntilHandled, Settled
<1>4. NoLostCompletion
  BY DEF NoLostCompletion
<1>5. NoLostConfigChange
  BY SMTT(60) DEF NoLostConfigChange
<1> QED
  BY <1>1, <1>2, <1>3, <1>4, <1>5 DEF IInv

(* Every step keeps the variables in their types.  A pass that handles     *)
(* entries needs WellPlaced: it takes no more than the ring holds.         *)
LEMMA NextPreservesType == TypeOK /\ WellPlaced /\ [Next]_vars => TypeOK'
<1> SUFFICES ASSUME TypeOK, WellPlaced, [Next]_vars PROVE TypeOK'
  OBVIOUS
<1> USE NumQueuesAssumption
    DEF TypeOK, InAction, InProcess, deviceVars, flagVars, filterVars,
        configVars, loopVars, clientVars
<1>1. ASSUME NEW q \in Queues, DevicePublish(q) PROVE TypeOK'
  <2> USE <1>1 DEF DevicePublish
  <2>1. in_device' \in [Queues -> Nat]
    OBVIOUS
  <2>2. completed' \in [Queues -> Nat]
    OBVIOUS
  <2> QED
    BY <2>1, <2>2
<1>2. ASSUME NEW q \in Queues, DeviceCheckFlag(q) PROVE TypeOK'
  BY <1>2 DEF DeviceCheckFlag
<1>3. CASE DeviceChangesConfig
  BY <1>3 DEF DeviceChangesConfig
<1>4. CASE FilterReadsISR
  BY <1>4 DEF FilterReadsISR
<1>5. CASE FilterNotesConfigChange
  BY <1>5 DEF FilterNotesConfigChange
<1>6. CASE FilterMasksQueue
  BY <1>6 DEF FilterMasksQueue, Queues
<1>7. CASE FilterSignals
  BY <1>7 DEF FilterSignals
<1>8. CASE ActionStarts
  BY <1>8 DEF ActionStarts
<1>9. CASE ActionTestsConfigChange
  BY <1>9 DEF ActionTestsConfigChange
<1>10. CASE ActionClearsConfigChange
  BY <1>10 DEF ActionClearsConfigChange
<1>11. CASE ActionCallsClient
  BY <1>11 DEF ActionCallsClient
<1>12. CASE ActionTakesQueue
  <2> USE <1>12 DEF ActionTakesQueue
  <2>1. work_loop' \in {"read", "idle"} /\ queue' \in 0 .. NumQueues
    OBVIOUS
  <2> QED
    BY <2>1
<1>13. CASE ProcessReadsHead
  BY <1>13 DEF ProcessReadsHead, NothingToDo, WellPlaced
<1>14. CASE ProcessUnmasks
  BY <1>14 DEF ProcessUnmasks
<1>15. CASE ProcessRereadsHead
  <2> USE <1>15 DEF ProcessRereadsHead, NothingToDo
  <2>1. queue' \in 0 .. NumQueues /\ found' \in Nat
    BY SMTT(60) DEF WellPlaced, Queues
  <2>2. /\ work_loop' \in {"queue", "idle", "handle"}
        /\ caller' \in {"action", "poll"}
    OBVIOUS
  <2> QED
    BY <2>1, <2>2
<1>16. CASE ProcessHandles
  <2> USE <1>16 DEF ProcessHandles, AtMost, WellPlaced
  <2>1. completed' \in [Queues -> Nat]
    OBVIOUS
  <2>2. \A b \in Nat : b - AtMost(b, found) \in Nat
    OBVIOUS
  <2> DEFINE left == before_enable[queue] - AtMost(before_enable[queue], found)
  <2>3. left \in Nat /\ before_enable' = [before_enable EXCEPT ![queue] = left]
    BY <2>2
  <2> HIDE DEF left
  <2>4. before_enable' \in [Queues -> Nat]
    BY <2>3
  <2> QED
    BY <2>1, <2>4
<1>17. ASSUME NEW q \in Queues, Submit(q) PROVE TypeOK'
  <2> USE <1>17 DEF Submit, Call
  <2>1. in_device' \in [Queues -> Nat]
    OBVIOUS
  <2>2. client_calls' \in 0 .. MaxClientCalls
    BY MaxClientCallsAssumption
  <2> QED
    BY <2>1, <2>2
<1>18. ASSUME NEW q \in Queues, Poll(q) PROVE TypeOK'
  BY SMTT(60), <1>18, MaxClientCallsAssumption DEF Poll, Call, Queues
<1>19. ASSUME NEW q \in Queues, SetInterruptsRequested(q) PROVE TypeOK'
  <2> USE <1>19 DEF SetInterruptsRequested, Call, NoQueue
  <2>1. client_calls' \in 0 .. MaxClientCalls
    BY MaxClientCallsAssumption
  <2>2. interrupts_requested' \subseteq Queues
    OBVIOUS
  <2>3. client' \in Queues \cup {NoQueue}
    OBVIOUS
  <2> QED
    BY <2>1, <2>2, <2>3
<1>20. CASE SetInterruptsFlag
  BY <1>20 DEF SetInterruptsFlag, NoQueue
<1>21. CASE UNCHANGED vars
  BY ZenonT(60), <1>21 DEF vars
<1> QED
  BY <1>1, <1>2, <1>3, <1>4, <1>5, <1>6, <1>7, <1>8, <1>9, <1>10, <1>11,
     <1>12, <1>13, <1>14, <1>15, <1>16, <1>17, <1>18, <1>19, <1>20, <1>21
     DEF Next, Device, Filter, WorkLoop, Client

(* Every step of the device, the filter, the work loop and the clients     *)
(* preserves the inductive invariant.                                      *)
LEMMA NextPreservesIInv == IInv /\ [Next]_vars => IInv'
<1> SUFFICES ASSUME IInv, [Next]_vars PROVE IInv'
  OBVIOUS
<1>0. TypeOK'
  BY NextPreservesType DEF IInv
<1> USE NumQueuesAssumption
    DEF IInv, TypeOK, WellPlaced, Queues, InAction, InProcess, deviceVars,
        flagVars, filterVars, configVars, loopVars, clientVars
<1>1. ASSUME NEW q \in Queues, DevicePublish(q) PROVE IInv'
  <2> USE <1>1 DEF DevicePublish
  <2>1. WellPlaced'
    BY DEF WellPlaced
  <2>2. MaskedOnlyUntilHandled'
    BY DEF MaskedOnlyUntilHandled, Settled, ActionComing, ActionBefore
  <2>3. NoLostCompletion'
    BY SMTT(60) DEF MaskedOnlyUntilHandled, NoLostCompletion, Settled, ActionComing,
           ActionBefore
  <2>4. NoLostConfigChange'
    BY DEF NoLostConfigChange
  <2> QED
    BY <1>0, <2>1, <2>2, <2>3, <2>4, Zenon DEF IInv
<1>2. ASSUME NEW q \in Queues, DeviceCheckFlag(q) PROVE IInv'
  <2> USE <1>2 DEF DeviceCheckFlag
  <2>1. WellPlaced'
    BY DEF WellPlaced
  <2>2. MaskedOnlyUntilHandled'
    BY DEF MaskedOnlyUntilHandled, Settled, ActionComing, ActionBefore
  <2>3. NoLostCompletion'
    BY ZenonT(60) DEF MaskedOnlyUntilHandled, NoLostCompletion, Settled, ActionComing,
           ActionBefore
  <2>4. NoLostConfigChange'
    BY DEF NoLostConfigChange
  <2> QED
    BY <1>0, <2>1, <2>2, <2>3, <2>4, Zenon DEF IInv
<1>3. CASE DeviceChangesConfig
  <2> USE <1>3 DEF DeviceChangesConfig
  <2>1. WellPlaced'
    BY DEF WellPlaced
  <2>2. MaskedOnlyUntilHandled'
    BY DEF MaskedOnlyUntilHandled, Settled, ActionComing, ActionBefore
  <2>3. NoLostCompletion'
    BY DEF MaskedOnlyUntilHandled, NoLostCompletion, Settled, ActionComing,
           ActionBefore
  <2>4. NoLostConfigChange'
    BY DEF NoLostConfigChange
  <2> QED
    BY <1>0, <2>1, <2>2, <2>3, <2>4, Zenon DEF IInv
<1>4. CASE FilterReadsISR
  <2> USE <1>4 DEF FilterReadsISR
  <2>1. WellPlaced'
    BY DEF WellPlaced
  <2>2. MaskedOnlyUntilHandled'
    BY DEF MaskedOnlyUntilHandled, Settled, ActionComing, ActionBefore
  <2>3. NoLostCompletion'
    BY DEF MaskedOnlyUntilHandled, NoLostCompletion, Settled, ActionComing,
           ActionBefore
  <2>4. NoLostConfigChange'
    BY DEF NoLostConfigChange
  <2> QED
    BY <1>0, <2>1, <2>2, <2>3, <2>4, Zenon DEF IInv
<1>5. CASE FilterNotesConfigChange
  <2> USE <1>5 DEF FilterNotesConfigChange
  <2>1. WellPlaced'
    BY DEF WellPlaced
  <2>2. MaskedOnlyUntilHandled'
    BY DEF MaskedOnlyUntilHandled, Settled, ActionComing, ActionBefore
  <2>3. NoLostCompletion'
    BY DEF MaskedOnlyUntilHandled, NoLostCompletion, Settled, ActionComing,
           ActionBefore
  <2>4. NoLostConfigChange'
    BY DEF NoLostConfigChange
  <2> QED
    BY <1>0, <2>1, <2>2, <2>3, <2>4, Zenon DEF IInv
<1>6. CASE FilterMasksQueue
  <2> USE <1>6 DEF FilterMasksQueue
  <2>1. WellPlaced'
    BY DEF WellPlaced
  <2>2. MaskedOnlyUntilHandled'
    BY DEF MaskedOnlyUntilHandled, Settled, ActionComing, ActionBefore
  <2>3. NoLostCompletion'
    BY DEF MaskedOnlyUntilHandled, NoLostCompletion, Settled, ActionComing,
           ActionBefore
  <2>4. NoLostConfigChange'
    BY DEF NoLostConfigChange
  <2> QED
    BY <1>0, <2>1, <2>2, <2>3, <2>4, Zenon DEF IInv
<1>7. CASE FilterSignals
  <2> USE <1>7 DEF FilterSignals
  <2>1. WellPlaced'
    BY DEF WellPlaced
  <2>2. MaskedOnlyUntilHandled'
    BY DEF MaskedOnlyUntilHandled, Settled, ActionComing, ActionBefore
  <2>3. NoLostCompletion'
    BY DEF MaskedOnlyUntilHandled, NoLostCompletion, Settled, ActionComing,
           ActionBefore
  <2>4. NoLostConfigChange'
    BY DEF NoLostConfigChange
  <2> QED
    BY <1>0, <2>1, <2>2, <2>3, <2>4, Zenon DEF IInv
<1>8. CASE ActionStarts
  <2> USE <1>8 DEF ActionStarts
  <2>1. WellPlaced'
    BY DEF WellPlaced
  <2>2. MaskedOnlyUntilHandled'
    BY DEF MaskedOnlyUntilHandled, Settled, ActionComing, ActionBefore
  <2>3. NoLostCompletion'
    BY DEF MaskedOnlyUntilHandled, NoLostCompletion, Settled, ActionComing,
           ActionBefore
  <2>4. NoLostConfigChange'
    BY DEF NoLostConfigChange
  <2> QED
    BY <1>0, <2>1, <2>2, <2>3, <2>4, Zenon DEF IInv
<1>9. CASE ActionTestsConfigChange
  <2> USE <1>9 DEF ActionTestsConfigChange
  <2>1. WellPlaced'
    BY DEF WellPlaced
  <2>2. MaskedOnlyUntilHandled'
    BY DEF MaskedOnlyUntilHandled, Settled, ActionComing, ActionBefore
  <2>3. NoLostCompletion'
    BY DEF MaskedOnlyUntilHandled, NoLostCompletion, Settled, ActionComing,
           ActionBefore
  <2>4. NoLostConfigChange'
    BY DEF NoLostConfigChange
  <2> QED
    BY <1>0, <2>1, <2>2, <2>3, <2>4, Zenon DEF IInv
<1>10. CASE ActionClearsConfigChange
  <2> USE <1>10 DEF ActionClearsConfigChange
  <2>1. WellPlaced'
    BY DEF WellPlaced
  <2>2. MaskedOnlyUntilHandled'
    BY DEF MaskedOnlyUntilHandled, Settled, ActionComing, ActionBefore
  <2>3. NoLostCompletion'
    BY DEF MaskedOnlyUntilHandled, NoLostCompletion, Settled, ActionComing,
           ActionBefore
  <2>4. NoLostConfigChange'
    BY DEF NoLostConfigChange
  <2> QED
    BY <1>0, <2>1, <2>2, <2>3, <2>4, Zenon DEF IInv
<1>11. CASE ActionCallsClient
  <2> USE <1>11 DEF ActionCallsClient
  <2>1. WellPlaced'
    BY DEF WellPlaced
  <2>2. MaskedOnlyUntilHandled'
    BY DEF MaskedOnlyUntilHandled, Settled, ActionComing, ActionBefore
  <2>3. NoLostCompletion'
    BY DEF MaskedOnlyUntilHandled, NoLostCompletion, Settled, ActionComing,
           ActionBefore
  <2>4. NoLostConfigChange'
    BY DEF NoLostConfigChange
  <2> QED
    BY <1>0, <2>1, <2>2, <2>3, <2>4, Zenon DEF IInv
<1>12. CASE ActionTakesQueue
  <2> USE <1>12 DEF ActionTakesQueue
  <2>1. WellPlaced'
    BY SMTT(60) DEF WellPlaced
  <2>2. MaskedOnlyUntilHandled'
    BY DEF MaskedOnlyUntilHandled, Settled, ActionComing, ActionBefore
  <2>3. NoLostCompletion'
    BY DEF MaskedOnlyUntilHandled, NoLostCompletion, Settled, ActionComing,
           ActionBefore
  <2>4. NoLostConfigChange'
    BY DEF NoLostConfigChange
  <2> QED
    BY <1>0, <2>1, <2>2, <2>3, <2>4, Zenon DEF IInv
<1>13. CASE ProcessReadsHead
  <2> USE <1>13 DEF ProcessReadsHead, NothingToDo
  <2>1. WellPlaced'
    BY SMTT(60) DEF WellPlaced
  <2>2. MaskedOnlyUntilHandled'
    BY DEF MaskedOnlyUntilHandled, Settled, ActionComing, ActionBefore
  <2>3. NoLostCompletion'
    BY DEF MaskedOnlyUntilHandled, NoLostCompletion, Settled, ActionComing,
           ActionBefore
  <2>4. NoLostConfigChange'
    BY DEF NoLostConfigChange
  <2> QED
    BY <1>0, <2>1, <2>2, <2>3, <2>4, Zenon DEF IInv
<1>14. CASE ProcessUnmasks
  <2> USE <1>14 DEF ProcessUnmasks
  <2>1. WellPlaced'
    BY DEF WellPlaced
  <2>2. MaskedOnlyUntilHandled'
    BY DEF MaskedOnlyUntilHandled, Settled, ActionComing, ActionBefore
  <2>3. NoLostCompletion'
    BY SMTT(60) DEF MaskedOnlyUntilHandled, NoLostCompletion, Settled, ActionComing,
           ActionBefore
  <2>4. NoLostConfigChange'
    BY DEF NoLostConfigChange
  <2> QED
    BY <1>0, <2>1, <2>2, <2>3, <2>4, Zenon DEF IInv
<1>15. CASE ProcessRereadsHead
  <2> USE <1>15 DEF ProcessRereadsHead, NothingToDo
  <2>1. WellPlaced'
    BY SMTT(60) DEF WellPlaced
  <2>2. MaskedOnlyUntilHandled'
    BY SMTT(60) DEF MaskedOnlyUntilHandled, Settled, ActionComing, ActionBefore
  <2>3. NoLostCompletion'
    <3> SUFFICES ASSUME NEW q \in Queues, Settled(q)', completed'[q] > before_enable'[q]
                 PROVE  \/ (q \in must_check /\ q \notin no_interrupt)'
                        \/ (isr # {})'
                        \/ ActionComing'
                        \/ ActionBefore(q, InProcess)'
      BY SMTT(60) DEF NoLostCompletion
    <3>1. \/ q \in must_check /\ q \notin no_interrupt
          \/ isr # {}
          \/ ActionComing
          \/ ActionBefore(q, InProcess)
      BY SMTT(60) DEF NoLostCompletion, Settled
    <3>2. CASE ActionBefore(q, InProcess)
      <4>1. CASE completed[queue] = 0
        BY <3>2, <4>1 DEF ActionBefore
      <4>2. CASE completed[queue] # 0
        BY <3>2, <4>2 DEF ActionBefore
      <4> QED
        BY <4>1, <4>2
    <3> QED
      BY <3>1, <3>2 DEF ActionComing
  <2>4. NoLostConfigChange'
    BY SMTT(60) DEF NoLostConfigChange
  <2> QED
    BY <1>0, <2>1, <2>2, <2>3, <2>4, Zenon DEF IInv
<1>16. CASE ProcessHandles
  <2> USE <1>16 DEF ProcessHandles, AtMost
  <2>1. WellPlaced'
    BY DEF WellPlaced
  <2>2. MaskedOnlyUntilHandled'
    BY DEF MaskedOnlyUntilHandled, Settled, ActionComing, ActionBefore
  <2>3. NoLostCompletion'
    BY SMTT(60) DEF MaskedOnlyUntilHandled, NoLostCompletion, Settled, ActionComing,
           ActionBefore
  <2>4. NoLostConfigChange'
    BY DEF NoLostConfigChange
  <2> QED
    BY <1>0, <2>1, <2>2, <2>3, <2>4, Zenon DEF IInv
<1>17. ASSUME NEW q \in Queues, Submit(q) PROVE IInv'
  <2> USE <1>17 DEF Submit, Call
  <2>1. WellPlaced'
    BY MaxClientCallsAssumption DEF WellPlaced
  <2>2. MaskedOnlyUntilHandled'
    BY DEF MaskedOnlyUntilHandled, Settled, ActionComing, ActionBefore
  <2>3. NoLostCompletion'
    BY SMTT(60) DEF MaskedOnlyUntilHandled, NoLostCompletion, Settled, ActionComing,
           ActionBefore
  <2>4. NoLostConfigChange'
    BY DEF NoLostConfigChange
  <2> QED
    BY <1>0, <2>1, <2>2, <2>3, <2>4, Zenon DEF IInv
<1>18. ASSUME NEW q \in Queues, Poll(q) PROVE IInv'
  <2> USE <1>18 DEF Poll, Call
  <2>1. WellPlaced'
    BY MaxClientCallsAssumption DEF WellPlaced
  <2>2. MaskedOnlyUntilHandled'
    BY DEF MaskedOnlyUntilHandled, Settled, ActionComing, ActionBefore
  <2>3. NoLostCompletion'
    BY DEF MaskedOnlyUntilHandled, NoLostCompletion, Settled, ActionComing,
           ActionBefore
  <2>4. NoLostConfigChange'
    BY DEF NoLostConfigChange
  <2> QED
    BY <1>0, <2>1, <2>2, <2>3, <2>4, Zenon DEF IInv
<1>19. ASSUME NEW q \in Queues, SetInterruptsRequested(q) PROVE IInv'
  <2> USE <1>19 DEF SetInterruptsRequested, Call, NoQueue
  <2>1. WellPlaced'
    BY MaxClientCallsAssumption DEF WellPlaced
  <2>2. MaskedOnlyUntilHandled'
    BY DEF MaskedOnlyUntilHandled, Settled, ActionComing, ActionBefore
  <2>3. NoLostCompletion'
    BY DEF MaskedOnlyUntilHandled, NoLostCompletion, Settled, ActionComing,
           ActionBefore
  <2>4. NoLostConfigChange'
    BY DEF NoLostConfigChange
  <2> QED
    BY <1>0, <2>1, <2>2, <2>3, <2>4, Zenon DEF IInv
<1>20. CASE SetInterruptsFlag
  <2> USE <1>20 DEF SetInterruptsFlag, NoQueue
  <2>1. WellPlaced'
    BY DEF WellPlaced
  <2>2. MaskedOnlyUntilHandled'
    BY SMTT(60) DEF MaskedOnlyUntilHandled, Settled, ActionComing, ActionBefore
  <2>3. NoLostCompletion'
    BY SMTT(60) DEF MaskedOnlyUntilHandled, NoLostCompletion, Settled, ActionComing,
           ActionBefore
  <2>4. NoLostConfigChange'
    BY DEF NoLostConfigChange
  <2> QED
    BY <1>0, <2>1, <2>2, <2>3, <2>4, Zenon DEF IInv
<1>21. CASE UNCHANGED vars
  BY <1>21 DEF vars, MaskedOnlyUntilHandled, NoLostCompletion,
     NoLostConfigChange, Settled, ActionComing, ActionBefore
<1> QED
  BY ZenonT(60), <1>1, <1>2, <1>3, <1>4, <1>5, <1>6, <1>7, <1>8, <1>9, <1>10, <1>11, <1>12, <1>13, <1>14, <1>15, <1>16, <1>17, <1>18, <1>19, <1>20, <1>21
     DEF Next, Device, Filter, WorkLoop, Client

(* The inductive invariant holds of every behaviour.                       *)
LEMMA Invariance == Spec => []IInv
  BY InitEstablishesIInv, NextPreservesIInv, PTL DEF Spec

(* The variables keep their types; in particular no count of unprocessed   *)
(* used entries goes below zero, however polls and new entries fall.       *)
THEOREM TypeCorrect == Spec => []TypeOK
  BY Invariance, PTL DEF IInv

(* A queue whose client wants interrupts is masked only while              *)
(* interruptAction is due or has yet to unmask it.                         *)
THEOREM MaskingIsTemporary == Spec => []MaskedOnlyUntilHandled
  BY Invariance, PTL DEF IInv

(* Whatever the interleaving of device, interrupt filter, work loop and    *)
(* clients, a used entry that arrived with interrupts switched on always   *)
(* has something on its way to process it.                                 *)
THEOREM CompletionsNeverLost == Spec => []NoLostCompletion
  BY Invariance, PTL DEF IInv

(* A changed configuration always has a notification on its way to the     *)
(* client that has not read it yet.                                        *)
THEOREM ConfigChangesNeverLost == Spec => []NoLostConfigChange
  BY Invariance, PTL DEF IInv

=============================================================================
