-------------------------- MODULE TransportProofs ---------------------------
(***************************************************************************)
(* Proofs about the two transports: DeviceLifecycle, for any number of     *)
(* queues and of clients, and PCITransport, for any number of capabilities, *)
(* any contents of the configuration space and any number of vectors.      *)
(*                                                                         *)
(* The inductive invariant of the first is a table: what exists, by the    *)
(* place the control thread is at and the place failDevice returns to.  The *)
(* handlers run only with an event source added, and that is never so at a *)
(* place that takes anything away from them.                               *)
(*                                                                         *)
(* That of the second says which capabilities the walk has come by.  Its   *)
(* offsets form a path from the first one; one at which it was twice       *)
(* would be on a cycle, and then the list has no end.                      *)
(***************************************************************************)
EXTENDS DeviceLifecycle, PCITransport, FiniteSetTheorems, WellFoundedInduction, TLAPS

-----------------------------------------------------------------------------
(* The inductive invariant of the device's lifecycle *)

FailReturns == {"registered", "close", "destroy_setup", "destroy"}
Ending == {"end_disable", "end_wait", "end_remove", "end_release"}
Failing == pc \in {"fail_write", "fail_unmap"} \/ (pc \in Ending /\ return_to \in FailReturns)

BeforePublishing == {"client_reset", "features", "setup"}
Published == {"begin", "take_loop", "add", "enable", "driver_ok", "running"}

Returns ==
  /\ pc \in {"fail_write", "fail_unmap"} => return_to \in FailReturns
  /\ pc \in Ending => return_to \in FailReturns \cup {"did_terminate", "stop"}

(* The registers are mapped, and the PCI device is open.                   *)
Mapped ==
  /\ pc \in BeforePublishing \cup Published \cup {"start_reset"} => iomap = TRUE
  /\ pc = "registered" => iomap = FALSE
  /\ \/ Failing
     \/ pc \in BeforePublishing \cup Published
     \/ pc \in FailReturns \cup {"start_map", "start_reset"}
     => pci_device = TRUE

(* Queues are there while they are published, and gone before the next     *)
(* client comes.                                                           *)
QueuesKnown ==
  /\ virtqueues \in BOOLEAN
  /\ pc \in Published => virtqueues = TRUE /\ queues = Ids
  /\ \/ pc \in {"start", "start_map", "start_reset", "registered", "client_reset", "features"}
     \/ Failing /\ return_to = "registered"
     => virtqueues = FALSE /\ queues = {}
  /\ pc \in {"setup", "destroy_setup"} \/ (Failing /\ return_to = "destroy_setup")
     => virtqueues = FALSE
  /\ pc = "close" \/ (Failing /\ return_to = "close") => virtqueues = TRUE \/ queues = {}

(* The device was told to stop by everything that comes after failDevice   *)
(* has written the status.                                                 *)
StatusKnown ==
  /\ pc \in FailReturns \cup {"fail_unmap"} \/ (pc \in Ending /\ return_to \in FailReturns)
     => status = 128
  /\ address \subseteq Ids

(* The event source, and the work loop it is on.                           *)
SourceKnown ==
  /\ intr_event_source \in {"null", "created", "added", "enabled"}
  /\ intr_event_source = "created" =>
       pc \in {"take_loop", "add", "driver_ok", "running", "fail_write", "end_disable",
              "end_wait", "null_dereference"}
  /\ intr_event_source = "added" => pc \in {"enable", "end_wait", "end_remove"}
  /\ intr_event_source = "enabled" => pc \in {"driver_ok", "running", "fail_write", "end_disable"}
  /\ intr_event_source = "created" /\ pc # "add" => work_loop = FALSE
  /\ pc \in {"take_loop", "add"} => intr_event_source = "created"
  /\ pc = "enable" => intr_event_source = "added"
  /\ pc \in {"add", "enable"} => work_loop = TRUE
  /\ pc \in FailReturns \cup BeforePublishing \cup
           {"start", "start_map", "start_reset", "begin", "take_loop", "fail_unmap",
            "did_terminate", "stop"}
     => work_loop = FALSE
  /\ intr_event_source \in {"added", "enabled"} =>
       /\ iomap = TRUE /\ pci_device = TRUE /\ work_loop = TRUE
       /\ virtqueues = TRUE /\ queues = Ids

(* The handlers run only with an event source.                             *)
HandlersKnown ==
  /\ filter # "idle" =>
       intr_event_source = "enabled" \/ (intr_event_source = "added" /\ pc = "end_wait")
  /\ action # "idle" => intr_event_source \in {"added", "enabled"}

Counts == masking \in Nat /\ handling \in Nat

IInv ==
  /\ Returns /\ Mapped /\ QueuesKnown /\ StatusKnown /\ SourceKnown
  /\ HandlersKnown /\ Counts /\ DeviceStoppedBeforeFree

-----------------------------------------------------------------------------
(* A new object: nothing is mapped, set up or handled.                     *)
LEMMA InitEstablishes == Init => IInv
<1> SUFFICES ASSUME Init PROVE IInv
  OBVIOUS
<1> USE DEF Init, FailReturns, Ending, Failing, BeforePublishing, Published
<1>1. Returns /\ Mapped /\ QueuesKnown
  BY ZenonT(60) DEF Returns, Mapped, QueuesKnown
<1>2. StatusKnown /\ DeviceStoppedBeforeFree
  BY ZenonT(60) DEF StatusKnown, DeviceStoppedBeforeFree
<1>3. SourceKnown /\ HandlersKnown
  BY ZenonT(60) DEF SourceKnown, HandlersKnown
<1>4. Counts
  BY SMTT(60) DEF Counts
<1> QED
  BY <1>1, <1>2, <1>3, <1>4 DEF IInv

(* Every step of the control thread and of the handlers keeps the table.   *)
LEMMA StepPreserves == IInv /\ [Next]_vars => IInv'
<1> SUFFICES ASSUME IInv, [Next]_vars PROVE IInv'
  OBVIOUS
<1> USE DEF IInv, FailReturns, Ending, Failing, BeforePublishing, Published, memory,
     interrupts, handlers, rest
<1>0. 128 # 7
  BY SMTT(60)
<1>1. CASE StartOpens
  <2>1. Returns' /\ Mapped' /\ QueuesKnown'
    BY <1>1, ZenonT(60) DEF StartOpens, Go, Returns, Mapped, QueuesKnown
  <2>2. StatusKnown' /\ DeviceStoppedBeforeFree'
    BY <1>1, ZenonT(60) DEF StartOpens, Go, Returns, Mapped, QueuesKnown, StatusKnown,
       DeviceStoppedBeforeFree
  <2>3. SourceKnown' /\ HandlersKnown'
    BY <1>1, ZenonT(60) DEF StartOpens, Go, Returns, Mapped, QueuesKnown, SourceKnown,
       HandlersKnown
  <2>4. Counts'
    BY <1>1, SMTT(60) DEF StartOpens, Go, Counts
  <2> QED
    BY <2>1, <2>2, <2>3, <2>4
<1>2. CASE StartMaps
  <2>1. Returns' /\ Mapped' /\ QueuesKnown'
    BY <1>2, ZenonT(60) DEF StartMaps, Go, Returns, Mapped, QueuesKnown
  <2>2. StatusKnown' /\ DeviceStoppedBeforeFree'
    BY <1>2, ZenonT(60) DEF StartMaps, Go, Returns, Mapped, QueuesKnown, StatusKnown,
       DeviceStoppedBeforeFree
  <2>3. SourceKnown' /\ HandlersKnown'
    BY <1>2, ZenonT(60) DEF StartMaps, Go, Returns, Mapped, QueuesKnown, SourceKnown,
       HandlersKnown
  <2>4. Counts'
    BY <1>2, SMTT(60) DEF StartMaps, Go, Counts
  <2> QED
    BY <2>1, <2>2, <2>3, <2>4
<1>3. CASE StartResets
  <2>1. Returns' /\ Mapped' /\ QueuesKnown'
    BY <1>3, ZenonT(60) DEF StartResets, Fail, resetDevice, Returns, Mapped, QueuesKnown
  <2>2. StatusKnown' /\ DeviceStoppedBeforeFree'
    BY <1>3, ZenonT(60) DEF StartResets, Fail, resetDevice, Returns, Mapped,
       QueuesKnown, StatusKnown, DeviceStoppedBeforeFree
  <2>3. SourceKnown' /\ HandlersKnown'
    BY <1>3, ZenonT(60) DEF StartResets, Fail, resetDevice, Returns, Mapped,
       QueuesKnown, SourceKnown, HandlersKnown
  <2>4. Counts'
    BY <1>3, SMTT(60) DEF StartResets, Fail, resetDevice, Counts
  <2> QED
    BY <2>1, <2>2, <2>3, <2>4
<1>4. CASE ClientOpens
  <2>1. Returns' /\ Mapped' /\ QueuesKnown'
    BY <1>4, ZenonT(60) DEF ClientOpens, Go, Returns, Mapped, QueuesKnown
  <2>2. StatusKnown' /\ DeviceStoppedBeforeFree'
    BY <1>4, ZenonT(60) DEF ClientOpens, Go, Returns, Mapped, QueuesKnown, StatusKnown,
       DeviceStoppedBeforeFree
  <2>3. SourceKnown' /\ HandlersKnown'
    BY <1>4, ZenonT(60) DEF ClientOpens, Go, Returns, Mapped, QueuesKnown, SourceKnown,
       HandlersKnown
  <2>4. Counts'
    BY <1>4, SMTT(60) DEF ClientOpens, Go, Counts
  <2> QED
    BY <2>1, <2>2, <2>3, <2>4
<1>5. CASE ClientResets
  <2>1. Returns' /\ Mapped' /\ QueuesKnown'
    BY <1>5, ZenonT(60) DEF ClientResets, Go, resetDevice, Returns, Mapped, QueuesKnown
  <2>2. StatusKnown' /\ DeviceStoppedBeforeFree'
    BY <1>5, ZenonT(60) DEF ClientResets, Go, resetDevice, Returns, Mapped, QueuesKnown,
       StatusKnown, DeviceStoppedBeforeFree
  <2>3. SourceKnown' /\ HandlersKnown'
    BY <1>5, ZenonT(60) DEF ClientResets, Go, resetDevice, Returns, Mapped, QueuesKnown,
       SourceKnown, HandlersKnown
  <2>4. Counts'
    BY <1>5, SMTT(60) DEF ClientResets, Go, resetDevice, Counts
  <2> QED
    BY <2>1, <2>2, <2>3, <2>4
<1>6. CASE requestFeatures
  <2>1. Returns' /\ Mapped' /\ QueuesKnown'
    BY <1>6, ZenonT(60) DEF requestFeatures, Go, Fail, Returns, Mapped, QueuesKnown
  <2>2. StatusKnown' /\ DeviceStoppedBeforeFree'
    BY <1>6, ZenonT(60) DEF requestFeatures, Go, Fail, Returns, Mapped, QueuesKnown,
       StatusKnown, DeviceStoppedBeforeFree
  <2>3. SourceKnown' /\ HandlersKnown'
    BY <1>6, ZenonT(60) DEF requestFeatures, Go, Fail, Returns, Mapped, QueuesKnown,
       SourceKnown, HandlersKnown
  <2>4. Counts'
    BY <1>6, SMTT(60) DEF requestFeatures, Go, Fail, Counts
  <2> QED
    BY <2>1, <2>2, <2>3, <2>4
<1>7. CASE \E q \in Ids : setupVirtqueue(q)
  <2>1. Returns' /\ Mapped' /\ QueuesKnown'
    BY <1>7, ZenonT(60) DEF setupVirtqueue, Go, Fail, Returns, Mapped, QueuesKnown
  <2>2. StatusKnown' /\ DeviceStoppedBeforeFree'
    <3>1. PICK q \in Ids : setupVirtqueue(q)
      BY <1>7
    <3>2. CASE Go("setup", "setup") /\ queues' = queues \cup {q} /\ address' = address \cup {q}
      BY <3>1, <3>2, SMTT(60) DEF setupVirtqueue, Go, StatusKnown, DeviceStoppedBeforeFree
    <3>3. CASE Fail("setup", "destroy_setup") /\ UNCHANGED memory
      BY <3>1, <3>3, ZenonT(60) DEF setupVirtqueue, Fail, Mapped, StatusKnown,
         DeviceStoppedBeforeFree
    <3> QED
      BY <3>1, <3>2, <3>3, ZenonT(60) DEF setupVirtqueue
  <2>3. SourceKnown' /\ HandlersKnown'
    BY <1>7, ZenonT(60) DEF setupVirtqueue, Go, Fail, Returns, Mapped, QueuesKnown,
       SourceKnown, HandlersKnown
  <2>4. Counts'
    BY <1>7, SMTT(60) DEF setupVirtqueue, Go, Fail, Counts
  <2> QED
    BY <2>1, <2>2, <2>3, <2>4
<1>8. CASE PublishQueues
  <2>1. Returns' /\ Mapped' /\ QueuesKnown'
    BY <1>8, ZenonT(60) DEF PublishQueues, Go, Returns, Mapped, QueuesKnown
  <2>2. StatusKnown' /\ DeviceStoppedBeforeFree'
    BY <1>8, ZenonT(60) DEF PublishQueues, Go, Returns, Mapped, QueuesKnown,
       StatusKnown, DeviceStoppedBeforeFree
  <2>3. SourceKnown' /\ HandlersKnown'
    BY <1>8, ZenonT(60) DEF PublishQueues, Go, Returns, Mapped, QueuesKnown,
       SourceKnown, HandlersKnown
  <2>4. Counts'
    BY <1>8, SMTT(60) DEF PublishQueues, Go, Counts
  <2> QED
    BY <2>1, <2>2, <2>3, <2>4
<1>9. CASE DestroySetup
  <2>1. Returns' /\ Mapped' /\ QueuesKnown'
    BY <1>9, ZenonT(60) DEF DestroySetup, Fail, Returns, Mapped, QueuesKnown
  <2>2. StatusKnown' /\ DeviceStoppedBeforeFree'
    BY <1>0, <1>9, ZenonT(60) DEF DestroySetup, Fail, Returns, Mapped, QueuesKnown,
       StatusKnown, DeviceStoppedBeforeFree
  <2>3. SourceKnown' /\ HandlersKnown'
    BY <1>9, ZenonT(60) DEF DestroySetup, Fail, Returns, Mapped, QueuesKnown,
       SourceKnown, HandlersKnown
  <2>4. Counts'
    BY <1>9, SMTT(60) DEF DestroySetup, Fail, Counts
  <2> QED
    BY <2>1, <2>2, <2>3, <2>4
<1>10. CASE CreateEventSource
  <2>1. Returns' /\ Mapped' /\ QueuesKnown'
    BY <1>10, ZenonT(60) DEF CreateEventSource, Go, Returns, Mapped, QueuesKnown
  <2>2. StatusKnown' /\ DeviceStoppedBeforeFree'
    BY <1>10, ZenonT(60) DEF CreateEventSource, Go, Returns, Mapped, QueuesKnown,
       StatusKnown, DeviceStoppedBeforeFree
  <2>3. SourceKnown' /\ HandlersKnown'
    BY <1>10, ZenonT(60) DEF CreateEventSource, Go, Returns, Mapped, QueuesKnown,
       SourceKnown, HandlersKnown
  <2>4. Counts'
    BY <1>10, SMTT(60) DEF CreateEventSource, Go, Counts
  <2> QED
    BY <2>1, <2>2, <2>3, <2>4
<1>11. CASE TakeWorkLoop
  <2>1. Returns' /\ Mapped' /\ QueuesKnown'
    BY <1>11, ZenonT(60) DEF TakeWorkLoop, Go, Returns, Mapped, QueuesKnown
  <2>2. StatusKnown' /\ DeviceStoppedBeforeFree'
    BY <1>11, ZenonT(60) DEF TakeWorkLoop, Go, Returns, Mapped, QueuesKnown,
       StatusKnown, DeviceStoppedBeforeFree
  <2>3. SourceKnown' /\ HandlersKnown'
    BY <1>11, ZenonT(60) DEF TakeWorkLoop, Go, Returns, Mapped, QueuesKnown,
       SourceKnown, HandlersKnown
  <2>4. Counts'
    BY <1>11, SMTT(60) DEF TakeWorkLoop, Go, Counts
  <2> QED
    BY <2>1, <2>2, <2>3, <2>4
<1>12. CASE AddEventSource
  <2>1. Returns' /\ Mapped' /\ QueuesKnown'
    BY <1>12, ZenonT(60) DEF AddEventSource, Go, Returns, Mapped, QueuesKnown
  <2>2. StatusKnown' /\ DeviceStoppedBeforeFree'
    BY <1>12, ZenonT(60) DEF AddEventSource, Go, Returns, Mapped, QueuesKnown,
       StatusKnown, DeviceStoppedBeforeFree
  <2>3. SourceKnown' /\ HandlersKnown'
    BY <1>12, ZenonT(60) DEF AddEventSource, Go, Returns, Mapped, QueuesKnown,
       SourceKnown, HandlersKnown
  <2>4. Counts'
    BY <1>12, SMTT(60) DEF AddEventSource, Go, Counts
  <2> QED
    BY <2>1, <2>2, <2>3, <2>4
<1>13. CASE EnableEventSource
  <2>1. Returns' /\ Mapped' /\ QueuesKnown'
    BY <1>13, ZenonT(60) DEF EnableEventSource, Go, Returns, Mapped, QueuesKnown
  <2>2. StatusKnown' /\ DeviceStoppedBeforeFree'
    BY <1>13, ZenonT(60) DEF EnableEventSource, Go, Returns, Mapped, QueuesKnown,
       StatusKnown, DeviceStoppedBeforeFree
  <2>3. SourceKnown' /\ HandlersKnown'
    BY <1>13, ZenonT(60) DEF EnableEventSource, Go, Returns, Mapped, QueuesKnown,
       SourceKnown, HandlersKnown
  <2>4. Counts'
    BY <1>13, SMTT(60) DEF EnableEventSource, Go, Counts
  <2> QED
    BY <2>1, <2>2, <2>3, <2>4
<1>14. CASE DriverOK
  <2>1. Returns' /\ Mapped' /\ QueuesKnown'
    BY <1>14, ZenonT(60) DEF DriverOK, Go, Returns, Mapped, QueuesKnown
  <2>2. StatusKnown' /\ DeviceStoppedBeforeFree'
    BY <1>14, ZenonT(60) DEF DriverOK, Go, Returns, Mapped, QueuesKnown, StatusKnown,
       DeviceStoppedBeforeFree
  <2>3. SourceKnown' /\ HandlersKnown'
    BY <1>14, ZenonT(60) DEF DriverOK, Go, Returns, Mapped, QueuesKnown, SourceKnown,
       HandlersKnown
  <2>4. Counts'
    BY <1>14, SMTT(60) DEF DriverOK, Go, Counts
  <2> QED
    BY <2>1, <2>2, <2>3, <2>4
<1>15. CASE ClientEnds
  <2>1. Returns' /\ Mapped' /\ QueuesKnown'
    BY <1>15, ZenonT(60) DEF ClientEnds, Fail, Returns, Mapped, QueuesKnown
  <2>2. StatusKnown' /\ DeviceStoppedBeforeFree'
    BY <1>15, ZenonT(60) DEF ClientEnds, Fail, Returns, Mapped, QueuesKnown,
       StatusKnown, DeviceStoppedBeforeFree
  <2>3. SourceKnown' /\ HandlersKnown'
    BY <1>15, ZenonT(60) DEF ClientEnds, Fail, Returns, Mapped, QueuesKnown,
       SourceKnown, HandlersKnown
  <2>4. Counts'
    BY <1>15, SMTT(60) DEF ClientEnds, Fail, Counts
  <2> QED
    BY <2>1, <2>2, <2>3, <2>4
<1>16. CASE CloseFails
  <2>1. Returns' /\ Mapped' /\ QueuesKnown'
    BY <1>16, ZenonT(60) DEF CloseFails, Fail, Returns, Mapped, QueuesKnown
  <2>2. StatusKnown' /\ DeviceStoppedBeforeFree'
    BY <1>16, ZenonT(60) DEF CloseFails, Fail, Returns, Mapped, QueuesKnown,
       StatusKnown, DeviceStoppedBeforeFree
  <2>3. SourceKnown' /\ HandlersKnown'
    BY <1>16, ZenonT(60) DEF CloseFails, Fail, Returns, Mapped, QueuesKnown,
       SourceKnown, HandlersKnown
  <2>4. Counts'
    BY <1>16, SMTT(60) DEF CloseFails, Fail, Counts
  <2> QED
    BY <2>1, <2>2, <2>3, <2>4
<1>17. CASE \E q \in Ids : DestroyVirtqueue(q)
  <2>1. Returns' /\ Mapped' /\ QueuesKnown'
    BY <1>17, ZenonT(60) DEF DestroyVirtqueue, Go, Returns, Mapped, QueuesKnown
  <2>2. StatusKnown' /\ DeviceStoppedBeforeFree'
    <3>1. /\ pc = "destroy" /\ pc' = "destroy"
          /\ return_to' = return_to /\ status' = status /\ address' = address
      BY <1>17, ZenonT(60) DEF DestroyVirtqueue, Go
    <3>2. StatusKnown'
      BY <3>1, ZenonT(60) DEF StatusKnown
    <3>3. status' = 128 /\ pc' # "fail_write"
      BY <3>1, ZenonT(60) DEF StatusKnown
    <3>4. DeviceStoppedBeforeFree'
      BY ONLY <1>0, <3>3, ZenonT(60) DEF DeviceStoppedBeforeFree
    <3> QED
      BY <3>2, <3>4
  <2>3. SourceKnown' /\ HandlersKnown'
    BY <1>17, ZenonT(60) DEF DestroyVirtqueue, Go, Returns, Mapped, QueuesKnown,
       SourceKnown, HandlersKnown
  <2>4. Counts'
    BY <1>17, SMTT(60) DEF DestroyVirtqueue, Go, Counts
  <2> QED
    BY <2>1, <2>2, <2>3, <2>4
<1>18. CASE FreeQueueArray
  <2>1. Returns' /\ Mapped' /\ QueuesKnown'
    BY <1>18, ZenonT(60) DEF FreeQueueArray, Go, Returns, Mapped, QueuesKnown
  <2>2. StatusKnown' /\ DeviceStoppedBeforeFree'
    BY <1>18, ZenonT(60) DEF FreeQueueArray, Go, Returns, Mapped, QueuesKnown,
       StatusKnown, DeviceStoppedBeforeFree
  <2>3. SourceKnown' /\ HandlersKnown'
    BY <1>18, ZenonT(60) DEF FreeQueueArray, Go, Returns, Mapped, QueuesKnown,
       SourceKnown, HandlersKnown
  <2>4. Counts'
    BY <1>18, SMTT(60) DEF FreeQueueArray, Go, Counts
  <2> QED
    BY <2>1, <2>2, <2>3, <2>4
<1>19. CASE CloseUnmaps
  <2>1. Returns' /\ Mapped' /\ QueuesKnown'
    BY <1>19, ZenonT(60) DEF CloseUnmaps, Go, Returns, Mapped, QueuesKnown
  <2>2. StatusKnown' /\ DeviceStoppedBeforeFree'
    BY <1>19, ZenonT(60) DEF CloseUnmaps, Go, Returns, Mapped, QueuesKnown, StatusKnown,
       DeviceStoppedBeforeFree
  <2>3. SourceKnown' /\ HandlersKnown'
    BY <1>19, ZenonT(60) DEF CloseUnmaps, Go, Returns, Mapped, QueuesKnown, SourceKnown,
       HandlersKnown
  <2>4. Counts'
    BY <1>19, SMTT(60) DEF CloseUnmaps, Go, Counts
  <2> QED
    BY <2>1, <2>2, <2>3, <2>4
<1>20. CASE Terminate
  <2>1. Returns' /\ Mapped' /\ QueuesKnown'
    BY <1>20, ZenonT(60) DEF Terminate, Returns, Mapped, QueuesKnown
  <2>2. StatusKnown' /\ DeviceStoppedBeforeFree'
    BY <1>20, ZenonT(60) DEF Terminate, Returns, Mapped, QueuesKnown, StatusKnown,
       DeviceStoppedBeforeFree
  <2>3. SourceKnown' /\ HandlersKnown'
    BY <1>20, ZenonT(60) DEF Terminate, Returns, Mapped, QueuesKnown, SourceKnown,
       HandlersKnown
  <2>4. Counts'
    BY <1>20, SMTT(60) DEF Terminate, Counts
  <2> QED
    BY <2>1, <2>2, <2>3, <2>4
<1>21. CASE ClosePCIDevice
  <2>1. Returns' /\ Mapped' /\ QueuesKnown'
    BY <1>21, ZenonT(60) DEF ClosePCIDevice, Returns, Mapped, QueuesKnown
  <2>2. StatusKnown' /\ DeviceStoppedBeforeFree'
    BY <1>21, ZenonT(60) DEF ClosePCIDevice, Returns, Mapped, QueuesKnown, StatusKnown,
       DeviceStoppedBeforeFree
  <2>3. SourceKnown' /\ HandlersKnown'
    BY <1>21, ZenonT(60) DEF ClosePCIDevice, Returns, Mapped, QueuesKnown, SourceKnown,
       HandlersKnown
  <2>4. Counts'
    BY <1>21, SMTT(60) DEF ClosePCIDevice, Counts
  <2> QED
    BY <2>1, <2>2, <2>3, <2>4
<1>22. CASE FailWritesStatus
  <2>1. Returns' /\ Mapped' /\ QueuesKnown'
    BY <1>22, ZenonT(60) DEF FailWritesStatus, Returns, Mapped, QueuesKnown
  <2>2. StatusKnown' /\ DeviceStoppedBeforeFree'
    BY <1>0, <1>22, ZenonT(60) DEF FailWritesStatus, Returns, Mapped, QueuesKnown,
       StatusKnown, DeviceStoppedBeforeFree
  <2>3. SourceKnown' /\ HandlersKnown'
    BY <1>22, ZenonT(60) DEF FailWritesStatus, Returns, Mapped, QueuesKnown,
       SourceKnown, HandlersKnown
  <2>4. Counts'
    BY <1>22, SMTT(60) DEF FailWritesStatus, Counts
  <2> QED
    BY <2>1, <2>2, <2>3, <2>4
<1>23. CASE DisableEventSource
  <2>1. Returns' /\ Mapped' /\ QueuesKnown'
    BY <1>23, ZenonT(60) DEF DisableEventSource, Returns, Mapped, QueuesKnown
  <2>2. StatusKnown' /\ DeviceStoppedBeforeFree'
    BY <1>23, ZenonT(60) DEF DisableEventSource, Returns, Mapped, QueuesKnown,
       StatusKnown, DeviceStoppedBeforeFree
  <2>3. SourceKnown' /\ HandlersKnown'
    BY <1>23, ZenonT(60) DEF DisableEventSource, Returns, Mapped, QueuesKnown,
       SourceKnown, HandlersKnown
  <2>4. Counts'
    BY <1>23, SMTT(60) DEF DisableEventSource, Counts
  <2> QED
    BY <2>1, <2>2, <2>3, <2>4
<1>24. CASE FilterIsOver
  <2>1. Returns' /\ Mapped' /\ QueuesKnown'
    BY <1>24, ZenonT(60) DEF FilterIsOver, Returns, Mapped, QueuesKnown
  <2>2. StatusKnown' /\ DeviceStoppedBeforeFree'
    BY <1>24, ZenonT(60) DEF FilterIsOver, Returns, Mapped, QueuesKnown, StatusKnown,
       DeviceStoppedBeforeFree
  <2>3. SourceKnown' /\ HandlersKnown'
    BY <1>24, ZenonT(60) DEF FilterIsOver, Returns, Mapped, QueuesKnown, SourceKnown,
       HandlersKnown
  <2>4. Counts'
    BY <1>24, SMTT(60) DEF FilterIsOver, Counts
  <2> QED
    BY <2>1, <2>2, <2>3, <2>4
<1>25. CASE RemoveEventSource
  <2>1. Returns' /\ Mapped' /\ QueuesKnown'
    BY <1>25, ZenonT(60) DEF RemoveEventSource, Returns, Mapped, QueuesKnown
  <2>2. StatusKnown' /\ DeviceStoppedBeforeFree'
    BY <1>25, ZenonT(60) DEF RemoveEventSource, Returns, Mapped, QueuesKnown,
       StatusKnown, DeviceStoppedBeforeFree
  <2>3. SourceKnown' /\ HandlersKnown'
    BY <1>25, ZenonT(60) DEF RemoveEventSource, Returns, Mapped, QueuesKnown,
       SourceKnown, HandlersKnown
  <2>4. Counts'
    BY <1>25, SMTT(60) DEF RemoveEventSource, Counts
  <2> QED
    BY <2>1, <2>2, <2>3, <2>4
<1>26. CASE ReleaseWorkLoop
  <2>1. Returns' /\ Mapped' /\ QueuesKnown'
    BY <1>26, ZenonT(60) DEF ReleaseWorkLoop, Returns, Mapped, QueuesKnown
  <2>2. StatusKnown' /\ DeviceStoppedBeforeFree'
    BY <1>26, ZenonT(60) DEF ReleaseWorkLoop, Returns, Mapped, QueuesKnown, StatusKnown,
       DeviceStoppedBeforeFree
  <2>3. SourceKnown' /\ HandlersKnown'
    BY <1>26, ZenonT(60) DEF ReleaseWorkLoop, Returns, Mapped, QueuesKnown, SourceKnown,
       HandlersKnown
  <2>4. Counts'
    BY <1>26, SMTT(60) DEF ReleaseWorkLoop, Counts
  <2> QED
    BY <2>1, <2>2, <2>3, <2>4
<1>27. CASE FailUnmaps
  <2>1. Returns' /\ Mapped' /\ QueuesKnown'
    BY <1>27, ZenonT(60) DEF FailUnmaps, Returns, Mapped, QueuesKnown
  <2>2. StatusKnown' /\ DeviceStoppedBeforeFree'
    BY <1>27, ZenonT(60) DEF FailUnmaps, Returns, Mapped, QueuesKnown, StatusKnown,
       DeviceStoppedBeforeFree
  <2>3. SourceKnown' /\ HandlersKnown'
    BY <1>27, ZenonT(60) DEF FailUnmaps, Returns, Mapped, QueuesKnown, SourceKnown,
       HandlersKnown
  <2>4. Counts'
    BY <1>27, SMTT(60) DEF FailUnmaps, Counts
  <2> QED
    BY <2>1, <2>2, <2>3, <2>4
<1>28. CASE FilterStarts \/ FilterReadsISR
  <2>1. Returns' /\ Mapped' /\ QueuesKnown'
    BY <1>28, ZenonT(60) DEF FilterStarts, FilterReadsISR, controlVars, Returns, Mapped,
       QueuesKnown
  <2>2. StatusKnown' /\ DeviceStoppedBeforeFree'
    BY <1>28, ZenonT(60) DEF FilterStarts, FilterReadsISR, controlVars, Returns, Mapped,
       QueuesKnown, StatusKnown, DeviceStoppedBeforeFree
  <2>3. SourceKnown' /\ HandlersKnown'
    BY <1>28, ZenonT(60) DEF FilterStarts, FilterReadsISR, controlVars, Returns, Mapped,
       QueuesKnown, SourceKnown, HandlersKnown
  <2>4. Counts'
    BY <1>28, SMTT(60) DEF FilterStarts, FilterReadsISR, controlVars, Counts
  <2> QED
    BY <2>1, <2>2, <2>3, <2>4
<1>29. CASE FilterMasks \/ FilterReturns
  <2>1. Returns' /\ Mapped' /\ QueuesKnown'
    BY <1>29, ZenonT(60) DEF FilterMasks, FilterReturns, controlVars, Returns, Mapped,
       QueuesKnown
  <2>2. StatusKnown' /\ DeviceStoppedBeforeFree'
    BY <1>29, ZenonT(60) DEF FilterMasks, FilterReturns, controlVars, Returns, Mapped,
       QueuesKnown, StatusKnown, DeviceStoppedBeforeFree
  <2>3. SourceKnown' /\ HandlersKnown'
    BY <1>29, ZenonT(60) DEF FilterMasks, FilterReturns, controlVars, Returns, Mapped,
       QueuesKnown, SourceKnown, HandlersKnown
  <2>4. Counts'
    BY <1>29, SMTT(60) DEF FilterMasks, FilterReturns, controlVars, Counts
  <2> QED
    BY <2>1, <2>2, <2>3, <2>4
<1>30. CASE Action
  <2>1. Returns' /\ Mapped' /\ QueuesKnown'
    BY <1>30, ZenonT(60) DEF Action, ActionStarts, ActionHandles, ActionReturns,
       controlVars, Returns, Mapped, QueuesKnown
  <2>2. StatusKnown' /\ DeviceStoppedBeforeFree'
    BY <1>30, ZenonT(60) DEF Action, ActionStarts, ActionHandles, ActionReturns,
       controlVars, Returns, Mapped, QueuesKnown, StatusKnown, DeviceStoppedBeforeFree
  <2>3. SourceKnown' /\ HandlersKnown'
    BY <1>30, ZenonT(60) DEF Action, ActionStarts, ActionHandles, ActionReturns,
       controlVars, Returns, Mapped, QueuesKnown, SourceKnown, HandlersKnown
  <2>4. Counts'
    BY <1>30, SMTT(60) DEF Action, ActionStarts, ActionHandles, ActionReturns,
       controlVars, Counts
  <2> QED
    BY <2>1, <2>2, <2>3, <2>4
<1>31. CASE UNCHANGED vars
  <2>1. Returns' /\ Mapped' /\ QueuesKnown'
    BY <1>31, ZenonT(60) DEF vars, Returns, Mapped, QueuesKnown
  <2>2. StatusKnown' /\ DeviceStoppedBeforeFree'
    BY <1>31, ZenonT(60) DEF vars, Returns, Mapped, QueuesKnown, StatusKnown,
       DeviceStoppedBeforeFree
  <2>3. SourceKnown' /\ HandlersKnown'
    BY <1>31, ZenonT(60) DEF vars, Returns, Mapped, QueuesKnown, SourceKnown, HandlersKnown
  <2>4. Counts'
    BY <1>31, SMTT(60) DEF vars, Counts
  <2> QED
    BY <2>1, <2>2, <2>3, <2>4
<1> QED
  BY <1>1, <1>2, <1>3, <1>4, <1>5, <1>6, <1>7, <1>8, <1>9, <1>10, <1>11, <1>12, <1>13,
     <1>14, <1>15, <1>16, <1>17, <1>18, <1>19, <1>20, <1>21, <1>22, <1>23, <1>24, <1>25,
     <1>26, <1>27, <1>28, <1>29, <1>30, <1>31
     DEF Next, Start, ClientStart, Close, End, Filter

(* The table holds in every reachable state.                               *)
THEOREM Invariance == Spec => []IInv
  BY InitEstablishes, StepPreserves, PTL DEF Spec

(* With any number of queues the interrupt filter and interruptAction only *)
(* meet registers, queues and a work loop that are there, wherever the     *)
(* control thread is.                                                      *)
THEOREM HandlersAlwaysSeeLiveState == Spec => []HandlersSeeLiveState
<1>1. IInv => HandlersSeeLiveState
  <2> SUFFICES ASSUME IInv PROVE HandlersSeeLiveState
    OBVIOUS
  <2>1. \A i \in Nat : i < num_virtqueues => i \in Ids
    BY QueuesAssumption DEF num_virtqueues, Ids
  <2>2. filter # "idle" \/ action # "idle" =>
          iomap = TRUE /\ pci_device = TRUE /\ work_loop = TRUE /\ queues = Ids
    BY Zenon DEF IInv, HandlersKnown, SourceKnown
  <2> QED
    BY <2>1, <2>2, Zenon DEF IInv, Counts, HandlersSeeLiveState
<1> QED
  BY <1>1, Invariance, PTL

(* No queue's memory is freed under a device that runs, and a call of      *)
(* failDevice that misses the device comes after one that reached it.      *)
THEOREM DeviceAlwaysStoppedBeforeFree == Spec => []DeviceStoppedBeforeFree
<1>1. IInv => DeviceStoppedBeforeFree
  BY DEF IInv
<1> QED
  BY <1>1, Invariance, PTL

(* What is never released: a client's start adds one second event source   *)
(* and one set of indirect tables per queue at most, and until it has come *)
(* to the statement that does, it has them still to add.                   *)
SourceToCome == temp_event_sources < opens
TablesToCome == \A q \in Ids \ queues : indirect_tables[q] < opens

UnreleasedTypes ==
  opens \in Nat /\ temp_event_sources \in Nat /\ indirect_tables \in [Ids -> Nat]

UnreleasedBounded ==
  /\ temp_event_sources <= opens
  /\ \A q \in Ids : indirect_tables[q] <= opens

ToCome ==
  /\ pc \in BeforePublishing \cup {"begin"} => SourceToCome
  /\ pc \in BeforePublishing => TablesToCome

UnreleasedInv == UnreleasedTypes /\ UnreleasedBounded /\ ToCome

(* Most steps add nothing; those that stay before the publishing of the    *)
(* queues come from there and leave the queues alone.                      *)
AddsNothing ==
  /\ UNCHANGED <<unreleased, opens>>
  /\ pc' \in BeforePublishing \cup {"begin"} => pc \in BeforePublishing \cup {"begin"}
  /\ pc' \in BeforePublishing => pc \in BeforePublishing /\ queues' = queues

(* A step that adds nothing keeps the bounds.                              *)
LEMMA AddsNothingKeeps == UnreleasedInv /\ AddsNothing => UnreleasedInv'
<1> SUFFICES ASSUME UnreleasedInv, AddsNothing PROVE UnreleasedInv'
  OBVIOUS
<1>1. UNCHANGED <<temp_event_sources, indirect_tables, opens>>
  BY Zenon DEF AddsNothing, unreleased
<1>2. UnreleasedTypes' /\ UnreleasedBounded'
  BY <1>1, Zenon DEF UnreleasedInv, UnreleasedTypes, UnreleasedBounded
<1>3. SourceToCome' <=> SourceToCome
  BY <1>1, Zenon DEF SourceToCome
<1>4. queues' = queues => (TablesToCome' <=> TablesToCome)
  BY <1>1, Zenon DEF TablesToCome
<1> QED
  BY <1>2, <1>3, <1>4, Zenon DEF UnreleasedInv, ToCome, AddsNothing

(* The steps of a client's start that add something, and all others.       *)
LEMMA UnreleasedStep == IInv /\ UnreleasedInv /\ [Next]_vars => UnreleasedInv'
<1> SUFFICES ASSUME IInv, UnreleasedInv, [Next]_vars PROVE UnreleasedInv'
  OBVIOUS
<1> USE DEF BeforePublishing, memory, interrupts, handlers, rest
<1>1. CASE ClientOpens
  <2>1. /\ opens' = opens + 1 /\ UNCHANGED <<temp_event_sources, indirect_tables, queues>>
        /\ pc' \in {"client_reset", "registered"}
    BY <1>1, Zenon DEF ClientOpens, Go, unreleased
  <2>2. UnreleasedTypes /\ UnreleasedBounded
    BY Zenon DEF UnreleasedInv
  <2>3. UnreleasedTypes' /\ UnreleasedBounded' /\ SourceToCome' /\ TablesToCome'
    BY ONLY <2>1, <2>2, SMTT(60)
       DEF UnreleasedTypes, UnreleasedBounded, SourceToCome, TablesToCome
  <2> QED
    BY <2>3, Zenon DEF UnreleasedInv, ToCome
<1>2. CASE \E q \in Ids : setupVirtqueue(q)
  <2>1. PICK q \in Ids : setupVirtqueue(q)
    BY <1>2
  <2>2. /\ pc = "setup" /\ q \notin queues
        /\ AllocateIndirectTables(q)
        /\ UNCHANGED <<temp_event_sources, opens>>
        /\ \/ pc' = "setup" /\ queues' = queues \cup {q}
           \/ pc' = "fail_write" /\ queues' = queues
    BY <2>1, Zenon DEF setupVirtqueue, Go, Fail
  <2>3. UnreleasedTypes /\ UnreleasedBounded /\ SourceToCome /\ TablesToCome
    BY <2>2, Zenon DEF UnreleasedInv, ToCome
  <2>4. UnreleasedTypes' /\ UnreleasedBounded' /\ SourceToCome'
    BY ONLY <2>2, <2>3, q \in Ids, SMTT(60)
       DEF UnreleasedTypes, UnreleasedBounded, SourceToCome, TablesToCome,
           AllocateIndirectTables
  <2>5. pc' = "setup" => TablesToCome'
    BY ONLY <2>2, <2>3, q \in Ids, SMTT(60)
       DEF UnreleasedTypes, TablesToCome, AllocateIndirectTables
  <2> QED
    BY <2>2, <2>4, <2>5, Zenon DEF UnreleasedInv, ToCome
<1>3. CASE CreateEventSource
  <2>1. /\ pc = "begin"
        /\ temp_event_sources' \in {temp_event_sources, temp_event_sources + 1}
        /\ UNCHANGED <<indirect_tables, opens, queues>>
        /\ pc' \in {"take_loop", "driver_ok"}
    BY <1>3, Zenon DEF CreateEventSource, Go
  <2>2. UnreleasedTypes /\ UnreleasedBounded /\ SourceToCome
    BY <2>1, Zenon DEF UnreleasedInv, ToCome
  <2>3. UnreleasedTypes' /\ UnreleasedBounded'
    BY ONLY <2>1, <2>2, SMTT(60) DEF UnreleasedTypes, UnreleasedBounded, SourceToCome
  <2> QED
    BY <2>1, <2>3, Zenon DEF UnreleasedInv, ToCome
<1>4. CASE Start
  BY <1>4, AddsNothingKeeps, ZenonT(60)
     DEF AddsNothing, Start, StartOpens, StartMaps, StartResets, Go, Fail
<1>5. CASE ClientResets \/ requestFeatures \/ PublishQueues \/ DestroySetup
  BY <1>5, AddsNothingKeeps, ZenonT(60)
     DEF AddsNothing, ClientResets, requestFeatures, PublishQueues, DestroySetup, Go, Fail
<1>6. CASE TakeWorkLoop \/ AddEventSource \/ EnableEventSource \/ DriverOK
  BY <1>6, AddsNothingKeeps, ZenonT(60)
     DEF AddsNothing, TakeWorkLoop, AddEventSource, EnableEventSource, DriverOK, Go
<1>7. CASE ClientEnds \/ Close
  BY <1>7, AddsNothingKeeps, ZenonT(60)
     DEF AddsNothing, ClientEnds, Close, CloseFails, FreeQueueArray, CloseUnmaps,
         DestroyVirtqueue, Go, Fail
<1>8. CASE Terminate \/ ClosePCIDevice
  BY <1>8, AddsNothingKeeps, ZenonT(60) DEF AddsNothing, Terminate, ClosePCIDevice
<1>9. CASE End
  BY <1>9, AddsNothingKeeps, ZenonT(60)
     DEF AddsNothing, End, FailWritesStatus, DisableEventSource, FilterIsOver,
         RemoveEventSource, ReleaseWorkLoop, FailUnmaps, IInv, Returns, FailReturns
<1>10. CASE FilterStarts \/ Filter \/ Action
  BY <1>10, AddsNothingKeeps, ZenonT(60)
     DEF AddsNothing, FilterStarts, Filter, FilterReadsISR, FilterMasks, FilterReturns,
         Action, ActionStarts, ActionHandles, ActionReturns, controlVars
<1>11. CASE UNCHANGED vars
  BY <1>11, AddsNothingKeeps, ZenonT(60) DEF AddsNothing, vars
<1> QED
  BY <1>1, <1>2, <1>3, <1>4, <1>5, <1>6, <1>7, <1>8, <1>9, <1>10, <1>11, Zenon
     DEF Next, ClientStart

(* Whatever failed in a client's start or end, a closed device has the     *)
(* null pointers the next start asserts, is stopped and has no handler     *)
(* running; and all that was never released is one second event source and *)
(* one set of indirect tables per queue for every client that was started. *)
THEOREM WhatCloseAlwaysLeaves == Spec => []WhatCloseLeaves
<1>1. IInv /\ UnreleasedInv => WhatCloseLeaves
  <2> SUFFICES ASSUME IInv, UnreleasedInv, pc = "registered"
               PROVE  /\ ~iomap /\ ~virtqueues /\ queues = {}
                      /\ intr_event_source = "null" /\ ~work_loop
                      /\ filter = "idle" /\ action = "idle"
                      /\ status # 7
                      /\ UnreleasedBounded
    BY Zenon DEF WhatCloseLeaves, UnreleasedBounded
  <2>1. iomap = FALSE /\ virtqueues = FALSE /\ queues = {} /\ work_loop = FALSE
    BY ZenonT(60) DEF IInv, Mapped, QueuesKnown, SourceKnown, FailReturns
  <2>2. intr_event_source = "null"
    BY ZenonT(60) DEF IInv, SourceKnown
  <2>3. filter = "idle" /\ action = "idle"
    BY <2>2, ZenonT(60) DEF IInv, HandlersKnown
  <2>4. status # 7
    <3>1. status = 128
      BY ZenonT(60) DEF IInv, StatusKnown, FailReturns
    <3> QED
      BY <3>1, SMTT(60)
  <2> QED
    BY <2>1, <2>2, <2>3, <2>4, Zenon DEF UnreleasedInv
<1>2. Init => UnreleasedInv
  <2> SUFFICES ASSUME Init PROVE UnreleasedInv
    OBVIOUS
  <2>1. UnreleasedTypes /\ UnreleasedBounded
    BY SMTT(60) DEF Init, UnreleasedTypes, UnreleasedBounded
  <2>2. ToCome
    BY Zenon DEF Init, ToCome, BeforePublishing
  <2> QED
    BY <2>1, <2>2 DEF UnreleasedInv
<1>3. Spec => []UnreleasedInv
  BY <1>2, UnreleasedStep, Invariance, PTL DEF Spec
<1> QED
  BY <1>1, <1>3, Invariance, PTL

-----------------------------------------------------------------------------
(* The inductive invariant of the PCI transport *)

(* A usable structure of type t.                                           *)
Good(cap, t) == IsVirtioStructure(cap) /\ cap.cfg_type = t /\ Usable(cap)

(* p are the offsets of a list from the first on, k links further; all of  *)
(* them but the first are such as the walk accepts.                        *)
Path(next, from, p, k) ==
  /\ p \in [0 .. k -> Offsets]
  /\ p[0] = from
  /\ \A i \in 0 .. k - 1 : p[i + 1] = next[p[i]] /\ p[i + 1] \in Caps

(* What is known of the contents and of the structures when the walk has   *)
(* looked at the offsets in S.                                             *)
Examined(S) ==
  /\ \A o \in Offsets : contents[o] # {} <=> o \in S
  /\ \A t \in CfgTypes : cap_checked[t] <=> \E o \in S : \E cap \in contents[o] : Good(cap, t)

Walked(p, k) == Path(next_offset, first, p, k) /\ Examined({p[i] : i \in 0 .. k})

(* The walk came to the end marker.                                        *)
CameToEnd == \E k \in Nat : \E p : Walked(p, k) /\ next_offset[p[k]] = 0

(* There was no list, or the walk came to a bad offset or back to the      *)
(* trail.                                                                  *)
CameToFault ==
  \/ first = 0 /\ Examined({})
  \/ \E k \in Nat : \E p : Walked(p, k) /\ next_offset[p[k]] = Bad
  \/ \E k \in Nat : \E p : /\ Walked(p, k)
                           /\ \E j \in 0 .. k : next_offset[p[k]] = p[j] /\ p[j] \in Caps

SpaceTypes ==
  /\ next_offset \in [Offsets -> Offsets \cup {0, Unread}]
  /\ DOMAIN contents = Offsets
  /\ \A o \in Offsets : contents[o] = {} \/ \E cap : contents[o] = {cap}
  /\ first \in Offsets \cup {0}
  /\ cap_checked \in [CfgTypes -> BOOLEAN]

(* How far the walk has come, by the stage the thread is in.               *)
WalkKnown ==
  /\ stage = "matched" => Examined({})
  /\ stage = "walk" =>
       \E k \in Nat : \E p : /\ Walked(p, k) /\ p[k] = offset
                             /\ \E j \in 0 .. k : p[j] = trail
  /\ stage = "list_accepted" => CameToEnd
  /\ stage = "list_refused" => CameToFault
  /\ stage = "accepted" => CameToEnd /\ (msi_vectors > 0 \/ irq_pin)
  /\ stage = "rejected" => \/ CameToFault
                           \/ CameToEnd /\ ~(msi_vectors > 0 \/ irq_pin)
  /\ stage \in {"accepted", "rejected"} => memory_enable = memory_enable_reset

WalkInv == SpaceTypes /\ WalkKnown

-----------------------------------------------------------------------------
(* Paths *)

(* A set of numbers has a smallest member.                                 *)
LEMMA SmallestExists ==
  ASSUME NEW T \in SUBSET Nat, T # {}
  PROVE  \E x \in T : \A y \in T : x <= y
<1> DEFINE R == OpToRel(<, Nat)
<1>1. IsWellFoundedOn(R, Nat)
  BY NatLessThanWellFounded, Zenon
<1>2. \A a, b \in Nat : a < b => <<a, b>> \in R
  BY DEF OpToRel
<1> HIDE DEF R
<1>3. PICK x \in T : \A y \in T : ~ (<<y, x>> \in R)
  BY <1>1, WFMin, Zenon
<1>4. \A y \in T : x <= y
  <2> TAKE y \in T
  <2>1. x \in Nat /\ y \in Nat
    OBVIOUS
  <2>2. ~(y < x)
    BY <1>2, <1>3, <2>1, Zenon
  <2> QED
    BY <2>1, <2>2
<1> QED
  BY <1>4

(* Equal offsets on a path are followed by equal ones, so far as it goes.  *)
LEMMA PathRepeats ==
  ASSUME NEW next, NEW from, NEW k \in Nat, NEW p, Path(next, from, p, k),
         NEW a \in 0 .. k, NEW b \in 0 .. k, a < b, p[a] = p[b]
  PROVE  \A d \in 0 .. k - b : p[a + d] = p[b + d]
<1> DEFINE T == {d \in 0 .. k - b : p[a + d] # p[b + d]}
<1> SUFFICES ASSUME T # {} PROVE FALSE
  BY Zenon
<1>1. PICK d \in T : \A e \in T : d <= e
  <2>1. T \in SUBSET Nat
    OBVIOUS
  <2> HIDE DEF T
  <2> QED
    BY ONLY <2>1, T # {}, SmallestExists
<1>2. d # 0
  BY <1>1
<1>3. d - 1 \in 0 .. k - b /\ d - 1 \notin T
  BY <1>1, <1>2
<1>4. p[a + (d - 1)] = p[b + (d - 1)]
  BY <1>3
<1>5. PICK i : i = a + (d - 1)
  OBVIOUS
<1>6. PICK j : j = b + (d - 1)
  OBVIOUS
<1>7. i \in 0 .. k - 1 /\ j \in 0 .. k - 1 /\ i + 1 = a + d /\ j + 1 = b + d
  BY <1>1, <1>2, <1>5, <1>6
<1>8. p[i] = p[j]
  BY <1>4, <1>5, <1>6
<1>9. p[i + 1] = p[j + 1]
  BY <1>7, <1>8, Zenon DEF Path
<1> QED
  BY <1>1, <1>7, <1>9

(* A path that leaves the accepted offsets repeats nothing before.         *)
LEMMA LeavingPathSimple ==
  ASSUME NEW next, NEW from, NEW k \in Nat, NEW p, Path(next, from, p, k),
         next[p[k]] \notin Caps
  PROVE  \A a, b \in 0 .. k : a < b => p[a] # p[b]
<1> SUFFICES ASSUME NEW a \in 0 .. k, NEW b \in 0 .. k, a < b, p[a] = p[b] PROVE FALSE
  OBVIOUS
<1>1. \A d \in 0 .. k - b : p[a + d] = p[b + d]
  BY ONLY k \in Nat, Path(next, from, p, k), a \in 0 .. k, b \in 0 .. k, a < b, p[a] = p[b],
     PathRepeats
<1>2. PICK i : i = a + (k - b)
  OBVIOUS
<1>3. k - b \in 0 .. k - b /\ b + (k - b) = k
  OBVIOUS
<1>4. p[i] = p[k]
  BY <1>1, <1>2, <1>3
<1>5. i \in 0 .. k - 1
  BY <1>2
<1>6. next[p[i]] \in Caps
  BY <1>5 DEF Path
<1> QED
  BY <1>4, <1>6

(* A path that repeats nothing has at most NumCaps links.                  *)
LEMMA SimplePathShort ==
  ASSUME NEW m \in Nat, NEW p, p \in [0 .. m -> Offsets],
         \A a, b \in 0 .. m : a < b => p[a] # p[b]
  PROVE  m <= NumCaps
<1>1. IsFiniteSet(Offsets) /\ Cardinality(Offsets) = NumCaps + 1
  <2>1. Offsets = 1 .. NumCaps + 1
    BY NumCapsAssumption DEF Offsets, Caps, Bad
  <2>2. NumCaps + 1 \in Int /\ 1 <= NumCaps + 1
    BY NumCapsAssumption
  <2> QED
    BY <2>1, <2>2, FS_Interval, NumCapsAssumption
<1>2. IsFiniteSet(0 .. m) /\ Cardinality(0 .. m) = m + 1
  BY FS_Interval
<1>3. \A a, b \in 0 .. m : p[a] = p[b] => a = b
  <2> TAKE a, b \in 0 .. m
  <2>1. a < b \/ b < a \/ a = b
    OBVIOUS
  <2> QED
    BY <2>1
<1>4. p \in Injection(0 .. m, Offsets)
  BY <1>3 DEF Injection, IsInjective
<1>5. Cardinality(0 .. m) <= Cardinality(Offsets)
  BY <1>1, <1>2, <1>4, FS_Injection
<1> QED
  BY <1>1, <1>2, <1>5, NumCapsAssumption

(* What is on a path is met within the first NumCaps links.                *)
LEMMA MetEarly ==
  ASSUME NEW next, NEW from, NEW k \in Nat, NEW p, Path(next, from, p, k),
         NEW i \in 0 .. k
  PROVE  \E m \in 0 .. k : m <= NumCaps /\ p[m] = p[i]
<1> DEFINE T == {m \in 0 .. k : p[m] = p[i]}
<1>1. T \in SUBSET Nat /\ T # {}
  OBVIOUS
<1>2. PICK m \in T : \A y \in T : m <= y
  BY ONLY <1>1, SmallestExists, Zenon
<1>3. m \in 0 .. k /\ m \in Nat /\ p[m] = p[i]
  BY <1>2
<1>4. ASSUME NEW a \in 0 .. m, NEW b \in 0 .. m, a < b, p[a] = p[b] PROVE FALSE
  <2>1. \A d \in 0 .. k - b : p[a + d] = p[b + d]
    BY <1>3, <1>4, PathRepeats
  <2>2. PICK e : e = a + (m - b)
    OBVIOUS
  <2>3. m - b \in 0 .. k - b /\ b + (m - b) = m
    BY <1>3
  <2>4. p[e] = p[m] /\ e \in 0 .. k /\ e < m
    BY <1>3, <1>4, <2>1, <2>2, <2>3
  <2> QED
    BY <1>2, <1>3, <2>4
<1>5. PICK q : q = [a \in 0 .. m |-> p[a]]
  BY Zenon
<1>6. q \in [0 .. m -> Offsets]
  BY <1>3, <1>5 DEF Path
<1>7. \A a, b \in 0 .. m : a < b => q[a] # q[b]
  BY <1>4, <1>5
<1>8. m <= NumCaps
  BY ONLY <1>3, <1>6, <1>7, SimplePathShort
<1> QED
  BY <1>3, <1>8

-----------------------------------------------------------------------------
(* The reference list *)

Entry(f, n) ==
  IF n = 0 THEN first
  ELSE LET o == f[n - 1] IN IF o = 0 \/ (o = Bad /\ n > 1) THEN o ELSE next_offset[o]
IsEntries(f, m) == f = [n \in 0 .. m |-> Entry(f, n)]

(* The entries can be listed as far as one likes.                          *)
LEMMA EntriesExist == \A m \in Nat : \E f : IsEntries(f, m)
<1> DEFINE T == {m \in Nat : ~ \E f : IsEntries(f, m)}
<1> SUFFICES ASSUME T # {} PROVE FALSE
  OBVIOUS
<1>1. PICK m \in T : \A y \in T : m <= y
  <2>1. T \in SUBSET Nat
    OBVIOUS
  <2> HIDE DEF T
  <2> QED
    BY ONLY <2>1, T # {}, SmallestExists
<1>2. m \in Nat /\ ~ \E f : IsEntries(f, m)
  BY <1>1
<1>3. m # 0
  <2>1. PICK f : f = [n \in 0 .. 0 |-> first]
    BY Zenon
  <2>2. \A n \in 0 .. 0 : Entry(f, n) = first
    BY DEF Entry
  <2>3. IsEntries(f, 0)
    BY <2>1, <2>2 DEF IsEntries
  <2> QED
    BY <1>2, <2>3
<1>4. m - 1 \in Nat /\ m - 1 \notin T
  BY <1>1, <1>2, <1>3
<1>5. PICK f : IsEntries(f, m - 1)
  BY <1>4
<1>6. PICK g : g = [n \in 0 .. m |-> IF n < m THEN f[n] ELSE Entry(f, m)]
  BY Zenon
<1>7. \A n \in 0 .. m : g[n] = Entry(f, n)
  BY <1>2, <1>3, <1>5, <1>6, SMTT(60) DEF IsEntries
<1>8. \A n \in 0 .. m : Entry(g, n) = Entry(f, n)
  <2> TAKE n \in 0 .. m
  <2>1. CASE n = 0
    BY <2>1 DEF Entry
  <2>2. CASE n # 0
    <3>1. g[n - 1] = f[n - 1]
      BY <1>2, <1>6, <2>2
    <3> QED
      BY <2>2, <3>1 DEF Entry
  <2> QED
    BY <2>1, <2>2
<1>9. IsEntries(g, m)
  BY <1>6, <1>7, <1>8 DEF IsEntries
<1> QED
  BY <1>2, <1>9

(* So OnList is what its definition says.                                  *)
LEMMA OnListEntries ==
  /\ DOMAIN OnList = 0 .. NumCaps + 2
  /\ \A n \in 0 .. NumCaps + 2 : OnList[n] = Entry(OnList, n)
<1> DEFINE f == CHOOSE g : IsEntries(g, NumCaps + 2)
<1>1. NumCaps + 2 \in Nat
  BY NumCapsAssumption
<1>2. IsEntries(f, NumCaps + 2)
  BY <1>1, EntriesExist, Zenon
<1>3. OnList = f
  BY Zenon DEF OnList, IsEntries, Entry
<1>4. IsEntries(OnList, NumCaps + 2)
  BY ONLY <1>2, <1>3, Zenon
<1> QED
  BY ONLY <1>4, Zenon DEF IsEntries

(* The list begins with the path the walk took.                            *)
LEMMA ListFollowsPath ==
  ASSUME NEW k \in Nat, NEW p, Path(next_offset, first, p, k)
  PROVE  \A n \in 0 .. k : n <= NumCaps + 2 => OnList[n] = p[n]
<1> DEFINE T == {n \in 0 .. k : n <= NumCaps + 2 /\ OnList[n] # p[n]}
<1> SUFFICES ASSUME T # {} PROVE FALSE
  OBVIOUS
<1>1. PICK n \in T : \A y \in T : n <= y
  <2>1. T \in SUBSET Nat
    OBVIOUS
  <2> HIDE DEF T
  <2> QED
    BY ONLY <2>1, T # {}, SmallestExists
<1>2. n \in 0 .. k /\ n \in 0 .. NumCaps + 2 /\ OnList[n] # p[n] /\ n \in Nat
  BY <1>1, NumCapsAssumption
<1>3. OnList[n] = Entry(OnList, n)
  BY <1>2, OnListEntries
<1>4. n # 0
  BY <1>2, <1>3 DEF Entry, Path
<1>5. n - 1 \in 0 .. k - 1 /\ n - 1 \notin T
  BY <1>1, <1>2, <1>4
<1>6. OnList[n - 1] = p[n - 1]
  BY <1>2, <1>5, NumCapsAssumption
<1>7. p[n] = next_offset[p[n - 1]] /\ p[n - 1] \in Offsets
  <2>1. PICK i : i = n - 1
    OBVIOUS
  <2>2. i \in 0 .. k - 1 /\ i + 1 = n
    BY <1>2, <1>5, <2>1
  <2>3. p[i + 1] = next_offset[p[i]] /\ p[i] \in Offsets
    BY <2>2 DEF Path
  <2> QED
    BY <2>1, <2>2, <2>3
<1>8. p[n - 1] # 0
  BY <1>7, NumCapsAssumption DEF Offsets, Caps, Bad
<1>9. ~(p[n - 1] = Bad /\ n > 1)
  <2>1. CASE n > 1
    <3>1. PICK i : i = n - 2
      OBVIOUS
    <3>2. i \in 0 .. k - 1 /\ i + 1 = n - 1
      BY <1>2, <2>1, <3>1
    <3>3. p[n - 1] \in Caps
      BY <3>2, Zenon DEF Path
    <3> QED
      BY <3>3, NumCapsAssumption DEF Caps, Bad
  <2> QED
    BY <2>1
<1> QED
  BY <1>2, <1>3, <1>4, <1>6, <1>7, <1>8, <1>9 DEF Entry

(* A path that leaves the accepted offsets is short, and the list stays    *)
(* where it leads.                                                         *)
LEMMA ListLeaves ==
  ASSUME NEW k \in Nat, NEW p, Path(next_offset, first, p, k),
         NEW z \in {0, Bad}, next_offset[p[k]] = z
  PROVE  /\ k <= NumCaps
         /\ \A n \in 0 .. NumCaps + 2 : n > k => OnList[n] = z
<1>0. z \notin Caps
  BY NumCapsAssumption DEF Caps, Bad
<1>1. k <= NumCaps
  <2>1. \A a, b \in 0 .. k : a < b => p[a] # p[b]
    BY <1>0, LeavingPathSimple
  <2>2. p \in [0 .. k -> Offsets]
    BY DEF Path
  <2> QED
    BY ONLY k \in Nat, <2>1, <2>2, SimplePathShort
<1> DEFINE T == {n \in 0 .. NumCaps + 2 : n > k /\ OnList[n] # z}
<1> SUFFICES ASSUME T # {} PROVE FALSE
  BY <1>1
<1>2. PICK n \in T : \A y \in T : n <= y
  <2>1. T \in SUBSET Nat
    OBVIOUS
  <2> HIDE DEF T
  <2> QED
    BY ONLY <2>1, T # {}, SmallestExists
<1>3. n \in 0 .. NumCaps + 2 /\ n > k /\ OnList[n] # z /\ n \in Nat
  BY <1>2, NumCapsAssumption
<1>4. OnList[n] = Entry(OnList, n)
  BY <1>3, OnListEntries
<1>5. CASE n = k + 1
  <2>1. OnList[k] = p[k]
    BY <1>1, ListFollowsPath, NumCapsAssumption
  <2>2. p[k] \in Offsets /\ p[k] # 0
    BY NumCapsAssumption DEF Path, Offsets, Caps, Bad
  <2>3. ~(p[k] = Bad /\ n > 1)
    <3>1. CASE k > 0
      <4>1. PICK i : i = k - 1
        OBVIOUS
      <4>2. i \in 0 .. k - 1 /\ i + 1 = k
        BY <3>1, <4>1
      <4>3. p[k] \in Caps
        BY <4>2, Zenon DEF Path
      <4> QED
        BY <4>3, NumCapsAssumption DEF Caps, Bad
    <3> QED
      BY <1>5, <3>1
  <2>4. n # 0 /\ n - 1 = k
    BY <1>5
  <2> QED
    BY <1>3, <1>4, <2>1, <2>2, <2>3, <2>4 DEF Entry
<1>6. CASE n # k + 1
  <2>1. n - 1 \in 0 .. NumCaps + 2 /\ n - 1 > k /\ n - 1 \notin T /\ n > 1
    BY <1>2, <1>3, <1>6, NumCapsAssumption
  <2>2. OnList[n - 1] = z
    BY <2>1
  <2> QED
    BY <1>3, <1>4, <2>1, <2>2 DEF Entry
<1> QED
  BY <1>5, <1>6

(* A path that runs into itself goes round for ever.                       *)
LEMMA ListCycles ==
  ASSUME NEW k \in Nat, NEW p, Path(next_offset, first, p, k),
         NEW j \in 0 .. k, next_offset[p[k]] = p[j], p[j] \in Caps
  PROVE  \A n \in 0 .. NumCaps + 2 : \E i \in 0 .. k : OnList[n] = p[i]
<1> DEFINE On(n) == IF n = 0 THEN OnList[n] = p[0]
                    ELSE \E i \in 0 .. k : OnList[n] = p[i] /\ p[i] \in Caps
           T == {n \in 0 .. NumCaps + 2 : ~On(n)}
<1>0. SUFFICES ASSUME T # {} PROVE FALSE
  OBVIOUS
<1>1. PICK n \in T : \A y \in T : n <= y
  <2>1. T \in SUBSET Nat
    OBVIOUS
  <2> HIDE DEF T
  <2> QED
    BY ONLY <2>1, <1>0, SmallestExists
<1>2. n \in 0 .. NumCaps + 2 /\ ~On(n) /\ n \in Nat
  BY <1>1, NumCapsAssumption
<1>3. OnList[n] = Entry(OnList, n)
  BY <1>2, OnListEntries
<1>4. n # 0
  BY <1>2, <1>3 DEF Entry, Path
<1>5. n - 1 \in 0 .. NumCaps + 2 /\ On(n - 1)
  BY <1>1, <1>2, <1>4, NumCapsAssumption
<1>6. PICK i \in 0 .. k : OnList[n - 1] = p[i] /\ (n > 1 => p[i] \in Caps)
  BY <1>2, <1>4, <1>5
<1>7. next_offset[p[i]] \in Caps /\ \E e \in 0 .. k : next_offset[p[i]] = p[e]
  <2>1. CASE i = k
    BY <2>1
  <2>2. CASE i # k
    <3>1. i \in 0 .. k - 1 /\ i + 1 \in 0 .. k
      BY <2>2
    <3> QED
      BY <3>1 DEF Path
  <2> QED
    BY <2>1, <2>2
<1>8. p[i] # 0 /\ ~(p[i] = Bad /\ n > 1)
  <2>1. p[i] \in Offsets
    BY DEF Path
  <2> QED
    BY <1>6, <2>1, NumCapsAssumption DEF Offsets, Caps, Bad
<1>9. OnList[n] = next_offset[p[i]]
  BY <1>3, <1>4, <1>6, <1>8 DEF Entry
<1> QED
  BY <1>2, <1>4, <1>7, <1>9

-----------------------------------------------------------------------------
(* The verdict *)

(* When the list holds, besides what is not an offset or was not read,     *)
(* exactly the offsets of the path, the structures noted are those of the  *)
(* list.                                                                   *)
LEMMA StructuresNoted ==
  ASSUME NEW k \in Nat, NEW p, Walked(p, k),
         \A n \in 0 .. NumCaps + 2 :
           (\E i \in 0 .. k : OnList[n] = p[i]) \/ OnList[n] \in {0, Bad}
  PROVE  \A t \in CfgTypes : cap_checked[t] <=> \E cap \in ListedContents : Good(cap, t)
<1>1. \A i \in 0 .. k : \E n \in 0 .. NumCaps + 2 : OnList[n] = p[i] /\ OnList[n] \in Offsets
  <2> TAKE i \in 0 .. k
  <2>1. PICK m \in 0 .. k : m <= NumCaps /\ p[m] = p[i]
    BY MetEarly DEF Walked
  <2>2. m <= NumCaps + 2 /\ m \in 0 .. NumCaps + 2
    BY <2>1, NumCapsAssumption
  <2>3. OnList[m] = p[m] /\ p[m] \in Offsets
    BY <2>2, ListFollowsPath DEF Walked, Path
  <2> QED
    BY <2>1, <2>2, <2>3
<1>2. ASSUME NEW cap
      PROVE  cap \in ListedContents <=> \E i \in 0 .. k : cap \in contents[p[i]]
  <2>1. ASSUME cap \in ListedContents
        PROVE  \E i \in 0 .. k : cap \in contents[p[i]]
    <3>1. PICK n \in 0 .. NumCaps + 2 : OnList[n] \in Offsets /\ cap \in contents[OnList[n]]
      BY <2>1 DEF ListedContents
    <3>2. contents[OnList[n]] # {}
      BY <3>1
    <3>3. \E i \in 0 .. k : p[i] = OnList[n]
      BY <3>1, <3>2 DEF Walked, Examined
    <3> QED
      BY <3>1, <3>3
  <2>2. ASSUME NEW i \in 0 .. k, cap \in contents[p[i]]
        PROVE  cap \in ListedContents
    <3>1. PICK n \in 0 .. NumCaps + 2 : OnList[n] = p[i] /\ OnList[n] \in Offsets
      BY <1>1
    <3>2. cap \in contents[OnList[n]]
      BY <2>2, <3>1
    <3> QED
      BY <3>1, <3>2 DEF ListedContents
  <2> QED
    BY <2>1, <2>2
<1>3. \A t \in CfgTypes : cap_checked[t] <=> \E i \in 0 .. k : \E cap \in contents[p[i]] : Good(cap, t)
  BY DEF Walked, Examined
<1> QED
  BY <1>2, <1>3, Zenon

Noted == \A t \in CfgTypes : cap_checked[t] <=> \E cap \in ListedContents : Good(cap, t)

(* A walk that came to the end marker saw a list that ends.                *)
LEMMA EndIsRight ==
  ASSUME CameToEnd
  PROVE  ListEnds /\ Noted
<1>1. PICK k \in Nat : \E p : Walked(p, k) /\ next_offset[p[k]] = 0
  BY DEF CameToEnd
<1>2. PICK p : Walked(p, k) /\ next_offset[p[k]] = 0
  BY <1>1
<1>3. Path(next_offset, first, p, k)
  BY <1>2 DEF Walked
<1>4. PICK z : z = 0
  OBVIOUS
<1>5. z \in {0, Bad} /\ next_offset[p[k]] = z
  BY <1>2, <1>4
<1>6. k <= NumCaps /\ \A n \in 0 .. NumCaps + 2 : n > k => OnList[n] = z
  BY ONLY <1>3, <1>5, k \in Nat, ListLeaves
<1>7. ListEnds
  <2>1. first # 0
    BY <1>3, NumCapsAssumption DEF Path, Offsets, Caps, Bad
  <2> QED
    BY <1>4, <1>6, <2>1, NumCapsAssumption DEF ListEnds
<1>8. \A n \in 0 .. NumCaps + 2 :
        (\E i \in 0 .. k : OnList[n] = p[i]) \/ OnList[n] \in {0, Bad}
  <2> TAKE n \in 0 .. NumCaps + 2
  <2>1. CASE n > k
    BY <1>4, <1>6, <2>1
  <2>2. CASE ~(n > k)
    BY <1>3, <2>2, ListFollowsPath, NumCapsAssumption
  <2> QED
    BY <2>1, <2>2
<1>9. Noted
  BY ONLY <1>2, <1>8, k \in Nat, StructuresNoted DEF Noted
<1> QED
  BY <1>7, <1>9

(* A walk that was broken off saw a list that does not end.                *)
LEMMA FaultIsRight ==
  ASSUME CameToFault, SpaceTypes
  PROVE  ~ListEnds /\ Noted
<1>1. CASE first = 0 /\ Examined({})
  <2>1. ~ListEnds
    BY <1>1 DEF ListEnds
  <2>2. \A cap : cap \notin ListedContents
    BY <1>1 DEF ListedContents, Examined
  <2> QED
    BY <1>1, <2>1, <2>2 DEF Examined, Noted
<1>2. CASE \E k \in Nat : \E p : Walked(p, k) /\ next_offset[p[k]] = Bad
  <2>1. PICK k \in Nat : \E p : Walked(p, k) /\ next_offset[p[k]] = Bad
    BY <1>2
  <2>2. PICK p : Walked(p, k) /\ next_offset[p[k]] = Bad
    BY <2>1
  <2>3. Path(next_offset, first, p, k)
    BY <2>2 DEF Walked
  <2>4. PICK z : z = Bad
    OBVIOUS
  <2>5. z \in {0, Bad} /\ next_offset[p[k]] = z
    BY <2>2, <2>4
  <2>6. k <= NumCaps /\ \A n \in 0 .. NumCaps + 2 : n > k => OnList[n] = z
    BY ONLY <2>3, <2>5, k \in Nat, ListLeaves
  <2>7. ~ListEnds
    <3>1. OnList[NumCaps + 2] = Bad
      BY <2>4, <2>6, NumCapsAssumption
    <3> QED
      BY <3>1, NumCapsAssumption DEF ListEnds, Bad
  <2>8. \A n \in 0 .. NumCaps + 2 :
          (\E i \in 0 .. k : OnList[n] = p[i]) \/ OnList[n] \in {0, Bad}
    <3> TAKE n \in 0 .. NumCaps + 2
    <3>1. CASE n > k
      BY <2>4, <2>6, <3>1
    <3>2. CASE ~(n > k)
      BY <2>3, <3>2, ListFollowsPath, NumCapsAssumption
    <3> QED
      BY <3>1, <3>2
  <2>9. Noted
    BY ONLY <2>2, <2>8, k \in Nat, StructuresNoted DEF Noted
  <2> QED
    BY <2>7, <2>9
<1>3. CASE \E k \in Nat : \E p : /\ Walked(p, k)
                                 /\ \E j \in 0 .. k : next_offset[p[k]] = p[j] /\ p[j] \in Caps
  <2>1. PICK k \in Nat : \E p : /\ Walked(p, k)
                                /\ \E j \in 0 .. k : next_offset[p[k]] = p[j] /\ p[j] \in Caps
    BY <1>3
  <2>2. PICK p : /\ Walked(p, k)
                 /\ \E j \in 0 .. k : next_offset[p[k]] = p[j] /\ p[j] \in Caps
    BY <2>1
  <2>3. PICK j \in 0 .. k : next_offset[p[k]] = p[j] /\ p[j] \in Caps
    BY <2>2
  <2>4. Path(next_offset, first, p, k)
    BY <2>2 DEF Walked
  <2>5. \A n \in 0 .. NumCaps + 2 : \E i \in 0 .. k : OnList[n] = p[i]
    BY <2>3, <2>4, ListCycles
  <2>6. ~ListEnds
    <3>1. \E i \in 0 .. k : OnList[NumCaps + 2] = p[i]
      BY <2>5, NumCapsAssumption
    <3>2. OnList[NumCaps + 2] \in Offsets
      BY <2>4, <3>1 DEF Path
    <3> QED
      BY <3>2, NumCapsAssumption DEF ListEnds, Offsets, Caps, Bad
  <2>7. Noted
    <3>1. \A n \in 0 .. NumCaps + 2 :
            (\E i \in 0 .. k : OnList[n] = p[i]) \/ OnList[n] \in {0, Bad}
      BY <2>5
    <3> QED
      BY ONLY <2>2, <3>1, k \in Nat, StructuresNoted DEF Noted
  <2> QED
    BY <2>6, <2>7
<1> QED
  BY <1>1, <1>2, <1>3 DEF CameToFault

(* So what probe decides is right.                                         *)
LEMMA VerdictIsRight == WalkInv => ProbeIsRight
<1> SUFFICES ASSUME WalkInv, stage \in {"accepted", "rejected"}
             PROVE  /\ stage = "accepted" <=> ListEnds /\ (msi_vectors > 0 \/ irq_pin)
                    /\ Noted
                    /\ memory_enable = memory_enable_reset
  BY Zenon DEF ProbeIsRight, Noted, Good
<1>1. memory_enable = memory_enable_reset
  BY DEF WalkInv, WalkKnown
<1>2. CASE stage = "accepted"
  <2>1. CameToEnd /\ (msi_vectors > 0 \/ irq_pin)
    BY <1>2, Zenon DEF WalkInv, WalkKnown
  <2> QED
    BY <1>1, <1>2, <2>1, EndIsRight, Zenon
<1>3. CASE stage = "rejected"
  <2>1. CameToFault \/ (CameToEnd /\ ~(msi_vectors > 0 \/ irq_pin))
    BY <1>3, Zenon DEF WalkInv, WalkKnown
  <2>2. stage # "accepted"
    BY <1>3
  <2> QED
    BY <1>1, <2>1, <2>2, EndIsRight, FaultIsRight, Zenon DEF WalkInv
<1> QED
  BY <1>2, <1>3

-----------------------------------------------------------------------------
(* Steps of the walk *)

(* fn notes a type if it was noted before or this structure is usable.     *)
LEMMA ExamineNotes ==
  ASSUME NEW cap, cap_checked \in [CfgTypes -> BOOLEAN]
  PROVE  /\ Examine(cap) \in [CfgTypes -> BOOLEAN]
         /\ \A t \in CfgTypes : Examine(cap)[t] <=> cap_checked[t] \/ Good(cap, t)
<1>1. CASE ~IsVirtioStructure(cap)
  BY <1>1, Zenon DEF Examine, Good
<1>2. CASE IsVirtioStructure(cap)
  <2>1. PICK c : c = cap.cfg_type
    OBVIOUS
  <2>2. c \in CfgTypes
    BY <1>2, <2>1 DEF IsVirtioStructure
  <2>3. PICK u \in BOOLEAN : u = Usable(cap)
    BY Zenon DEF Usable
  <2>4. Examine(cap) = [cap_checked EXCEPT ![c] = cap_checked[c] \/ u]
    BY <1>2, <2>1, <2>3 DEF Examine
  <2>5. \A t \in CfgTypes : Good(cap, t) <=> c = t /\ u
    BY <1>2, <2>1, <2>3, Zenon DEF Good
  <2>6. PICK e \in BOOLEAN : e = (cap_checked[c] \/ u)
    BY Zenon
  <2>7. Examine(cap) = [cap_checked EXCEPT ![c] = e]
    BY ONLY <2>4, <2>6
  <2>8. Examine(cap) \in [CfgTypes -> BOOLEAN]
    BY ONLY <2>2, <2>6, <2>7, cap_checked \in [CfgTypes -> BOOLEAN]
  <2>9. ASSUME NEW t \in CfgTypes
        PROVE  Examine(cap)[t] <=> cap_checked[t] \/ Good(cap, t)
    <3>1. CASE t = c
      <4>1. Examine(cap)[t] = e
        BY ONLY <2>2, <2>7, <3>1, cap_checked \in [CfgTypes -> BOOLEAN]
      <4> QED
        BY ONLY <2>5, <2>6, <3>1, <4>1, t \in CfgTypes, Zenon
    <3>2. CASE t # c
      <4>1. Examine(cap)[t] = cap_checked[t]
        BY ONLY <2>2, <2>7, <3>2, t \in CfgTypes, cap_checked \in [CfgTypes -> BOOLEAN]
      <4> QED
        BY ONLY <2>5, <3>2, <4>1, t \in CfgTypes, Zenon
    <3> QED
      BY ONLY <3>1, <3>2
  <2> QED
    BY ONLY <2>8, <2>9
<1> QED
  BY ONLY <1>1, <1>2

(* Looking at one more offset: it is read once, and then stays.            *)
LEMMA Visit ==
  ASSUME SpaceTypes, NEW S \in SUBSET Offsets, Examined(S), NEW o \in Offsets, NEW cap,
         ReadContents(o, cap), cap_checked' = Examine(cap)
  PROVE  /\ Examined(S \cup {o})'
         /\ DOMAIN contents' = Offsets
         /\ \A x \in Offsets : contents'[x] = {} \/ \E c : contents'[x] = {c}
         /\ cap_checked' \in [CfgTypes -> BOOLEAN]
<1>1. DOMAIN contents = Offsets /\ cap_checked \in [CfgTypes -> BOOLEAN]
  BY DEF SpaceTypes
<1>2. contents' = [contents EXCEPT ![o] = {cap}]
  BY DEF ReadContents
<1>3. DOMAIN contents' = Offsets /\ contents'[o] = {cap}
      /\ \A x \in Offsets : x # o => contents'[x] = contents[x]
  BY ONLY <1>1, <1>2, o \in Offsets
<1>4. contents[o] # {} => contents[o] = {cap}
  BY DEF ReadContents, SpaceTypes
<1>5. \A x \in Offsets : contents'[x] = {} \/ \E c : contents'[x] = {c}
  BY <1>3 DEF SpaceTypes
<1>6. /\ cap_checked' \in [CfgTypes -> BOOLEAN]
      /\ \A t \in CfgTypes : cap_checked'[t] <=> cap_checked[t] \/ Good(cap, t)
  BY <1>1, ExamineNotes, Zenon
<1>7. \A x \in Offsets : contents'[x] # {} <=> x \in S \cup {o}
  BY <1>3 DEF Examined
<1>8. \A x \in S : contents'[x] = contents[x]
  BY <1>3, <1>4 DEF Examined
<1>9. ASSUME NEW t \in CfgTypes
      PROVE  cap_checked'[t] <=> \E x \in S \cup {o} : \E c \in contents'[x] : Good(c, t)
  <2>1. cap_checked'[t] <=> (\E x \in S : \E c \in contents[x] : Good(c, t)) \/ Good(cap, t)
    BY <1>6, Zenon DEF Examined
  <2>2. (\E x \in S : \E c \in contents[x] : Good(c, t))
          <=> \E x \in S : \E c \in contents'[x] : Good(c, t)
    BY ONLY <1>8, Zenon
  <2>3. Good(cap, t) <=> \E c \in contents'[o] : Good(c, t)
    BY ONLY <1>3, Zenon
  <2> QED
    BY ONLY <2>1, <2>2, <2>3, Zenon
<1>10. Examined(S \cup {o})'
  BY ONLY <1>7, <1>9, Zenon DEF Examined, Good, IsVirtioStructure, Usable, SetupCommonCFG,
     SetupNotificationStructure, SetupISRStatusStructure, SetupDeviceSpecificStructure,
     CheckBarTypeAndLength
<1> QED
  BY ONLY <1>3, <1>5, <1>6, <1>10

(* The path so far and one link more, read now or before.                  *)
LEMMA OneLinkMore ==
  ASSUME next_offset \in [Offsets -> Offsets \cup {0, Unread}],
         NEW k \in Nat, NEW p, Path(next_offset, first, p, k),
         NEW n, ReadNext(p[k], n), first' = first
  PROVE  /\ Path(next_offset', first', p, k)
         /\ next_offset'[p[k]] = n
         /\ next_offset' \in [Offsets -> Offsets \cup {0, Unread}]
<1>1. p[k] \in Offsets /\ p \in [0 .. k -> Offsets]
  BY DEF Path
<1>2. n \in Offsets \cup {0}
  <2>1. next_offset[p[k]] \in Offsets \cup {0, Unread}
    BY <1>1
  <2> QED
    BY <2>1 DEF ReadNext
<1>3. next_offset' = [next_offset EXCEPT ![p[k]] = n]
  BY DEF ReadNext
<1>4. next_offset'[p[k]] = n /\ next_offset' \in [Offsets -> Offsets \cup {0, Unread}]
  BY <1>1, <1>2, <1>3
<1>5. ASSUME NEW i \in 0 .. k - 1 PROVE next_offset'[p[i]] = next_offset[p[i]]
  <2>1. next_offset[p[i]] \in Caps /\ p[i] \in Offsets
    BY <1>1 DEF Path
  <2>2. CASE p[i] = p[k]
    <3>1. next_offset[p[k]] # Unread
      BY <2>1, <2>2, NumCapsAssumption DEF Caps, Unread
    <3>2. n = next_offset[p[k]]
      BY <3>1 DEF ReadNext
    <3> QED
      BY <1>4, <2>2, <3>2
  <2>3. CASE p[i] # p[k]
    BY <1>1, <1>3, <2>1, <2>3
  <2> QED
    BY <2>2, <2>3
<1> QED
  BY <1>4, <1>5 DEF Path

(* probe reads the first capability, or there is none.                     *)
LEMMA ProbeBeginsKeeps ==
  ASSUME WalkInv, ProbeBegins
  PROVE  WalkInv'
<1>1. SpaceTypes /\ Examined({}) /\ first' = first /\ next_offset' = next_offset
  BY Zenon DEF WalkInv, WalkKnown, ProbeBegins
<1>3. CASE first = 0
  <2>1. stage' = "list_refused" /\ contents' = contents /\ cap_checked' = cap_checked
    BY <1>3 DEF ProbeBegins, walkVars
  <2>2. SpaceTypes'
    BY ONLY <1>1, <2>1 DEF SpaceTypes
  <2>3. Examined({})'
    BY ONLY <1>1, <2>1, Zenon DEF Examined
  <2>4. CameToFault'
    BY ONLY <1>1, <1>3, <2>3, Zenon DEF CameToFault
  <2> QED
    BY ONLY <2>1, <2>2, <2>4, Zenon DEF WalkInv, WalkKnown
<1>4. CASE first # 0
  <2>1. stage' = "walk" /\ offset' = first /\ trail' = first
    BY <1>4 DEF ProbeBegins
  <2>2. PICK cap : ReadContents(first, cap) /\ cap_checked' = Examine(cap)
    BY <1>4 DEF ProbeBegins
  <2>3. first \in Offsets
    BY <1>1, <1>4 DEF SpaceTypes
  <2>4. PICK S : S = {}
    BY Zenon
  <2>5. PICK o : o = first
    OBVIOUS
  <2>6. /\ Examined(S \cup {o})'
        /\ DOMAIN contents' = Offsets
        /\ \A x \in Offsets : contents'[x] = {} \/ \E c : contents'[x] = {c}
        /\ cap_checked' \in [CfgTypes -> BOOLEAN]
    <3>1. S \in SUBSET Offsets /\ o \in Offsets /\ Examined(S) /\ ReadContents(o, cap)
      BY <1>1, <2>2, <2>3, <2>4, <2>5
    <3>2. cap_checked' = Examine(cap)
      BY <2>2
    <3> QED
      BY ONLY <1>1, <3>1, <3>2, Visit, Zenon
  <2>7. SpaceTypes'
    BY ONLY <1>1, <2>6 DEF SpaceTypes
  <2>8. PICK p : p = [i \in 0 .. 0 |-> o]
    BY Zenon
  <2>9. Path(next_offset', first', p, 0)
    BY <1>1, <2>3, <2>5, <2>8 DEF Path
  <2>10. {p[i] : i \in 0 .. 0} = S \cup {o}
    BY ONLY <2>4, <2>8
  <2>11. Walked(p, 0)'
    BY ONLY <2>6, <2>9, <2>10, Zenon DEF Walked
  <2>12. p[0] = offset' /\ p[0] = trail' /\ 0 \in Nat /\ 0 \in 0 .. 0
    BY <2>1, <2>5, <2>8
  <2> QED
    BY ONLY <2>1, <2>7, <2>11, <2>12, Zenon DEF WalkInv, WalkKnown
<1> QED
  BY <1>3, <1>4

(* A turn of the loop.                                                     *)
LEMMA WalkStepKeeps ==
  ASSUME WalkInv, WalkStep
  PROVE  WalkInv'
<1>1. SpaceTypes /\ stage = "walk" /\ first' = first
  BY Zenon DEF WalkInv, WalkStep
<1>2. PICK k \in Nat : \E p : /\ Walked(p, k) /\ p[k] = offset
                              /\ \E j \in 0 .. k : p[j] = trail
  BY <1>1, Zenon DEF WalkInv, WalkKnown
<1>3. PICK p : /\ Walked(p, k) /\ p[k] = offset
               /\ \E j \in 0 .. k : p[j] = trail
  BY <1>2, Zenon
<1>4. PICK j \in 0 .. k : p[j] = trail
  BY <1>3, Zenon
<1>5. PICK n \in Offsets \cup {0} :
        /\ ReadNext(offset, n)
        /\ offset' = n
        /\ \/ /\ n \notin Caps \/ n = trail
              /\ stage' = IF n = 0 THEN "list_accepted" ELSE "list_refused"
              /\ UNCHANGED <<contents, trail, trail_skip, cap_checked>>
           \/ /\ n \in Caps /\ n # trail
              /\ \E cap \in Contents : ReadContents(n, cap) /\ cap_checked' = Examine(cap)
              /\ MoveTrail
              /\ UNCHANGED stage
  BY Zenon DEF WalkStep
<1>6. /\ Path(next_offset', first', p, k)
      /\ next_offset'[p[k]] = n
      /\ next_offset' \in [Offsets -> Offsets \cup {0, Unread}]
  <2>1. ReadNext(p[k], n) /\ Path(next_offset, first, p, k)
    BY ONLY <1>3, <1>5, Zenon DEF Walked
  <2>2. next_offset \in [Offsets -> Offsets \cup {0, Unread}]
    BY <1>1 DEF SpaceTypes
  <2> QED
    BY ONLY <1>1, <2>1, <2>2, k \in Nat, OneLinkMore, Zenon
<1>7. PICK S : S = {p[i] : i \in 0 .. k}
  BY Zenon
<1>8. Examined(S) /\ S \in SUBSET Offsets
  <2>1. Examined(S)
    BY ONLY <1>3, <1>7, Zenon DEF Walked
  <2> QED
    BY <1>6, <1>7, <2>1 DEF Path
<1>9. CASE /\ n \notin Caps \/ n = trail
           /\ stage' = IF n = 0 THEN "list_accepted" ELSE "list_refused"
           /\ UNCHANGED <<contents, trail, trail_skip, cap_checked>>
  <2>1. SpaceTypes'
    BY <1>1, <1>6, <1>9 DEF SpaceTypes
  <2>2. Examined(S)'
    BY ONLY <1>8, <1>9, Zenon DEF Examined
  <2>3. Walked(p, k)'
    BY ONLY <1>6, <1>7, <2>2, Zenon DEF Walked
  <2>4. CASE n = 0
    <3>1. CameToEnd'
      BY ONLY <1>6, <2>3, <2>4, k \in Nat, Zenon DEF CameToEnd
    <3> QED
      BY ONLY <1>9, <2>1, <2>4, <3>1, Zenon DEF WalkInv, WalkKnown
  <2>5. CASE n # 0
    <3>1. n = Bad \/ (n \in Caps /\ n = trail)
      BY <1>5, <1>9, <2>5 DEF Offsets
    <3>2. CameToFault'
      <4>1. CASE n = Bad
        BY ONLY <1>6, <2>3, <4>1, k \in Nat, Zenon DEF CameToFault
      <4>2. CASE n \in Caps /\ n = trail
        <5>1. next_offset'[p[k]] = p[j] /\ p[j] \in Caps
          BY ONLY <1>4, <1>6, <4>2, Zenon
        <5>2. \E i \in 0 .. k : next_offset'[p[k]] = p[i] /\ p[i] \in Caps
          BY ONLY j \in 0 .. k, <5>1, Zenon
        <5> QED
          BY ONLY <2>3, <5>2, k \in Nat, Zenon DEF CameToFault
      <4> QED
        BY ONLY <3>1, <4>1, <4>2
    <3> QED
      BY ONLY <1>9, <2>1, <2>5, <3>2, Zenon DEF WalkInv, WalkKnown
  <2> QED
    BY ONLY <2>4, <2>5
<1>10. CASE /\ n \in Caps /\ n # trail
            /\ \E cap \in Contents : ReadContents(n, cap) /\ cap_checked' = Examine(cap)
            /\ MoveTrail
            /\ UNCHANGED stage
  <2>1. PICK cap : ReadContents(n, cap) /\ cap_checked' = Examine(cap)
    BY <1>10, Zenon
  <2>2. n \in Offsets
    BY <1>10 DEF Offsets
  <2>3. /\ Examined(S \cup {n})'
        /\ DOMAIN contents' = Offsets
        /\ \A x \in Offsets : contents'[x] = {} \/ \E c : contents'[x] = {c}
        /\ cap_checked' \in [CfgTypes -> BOOLEAN]
    BY ONLY <1>1, <1>8, <2>1, <2>2, Visit, Zenon
  <2>4. SpaceTypes'
    <3>1. first \in Offsets \cup {0}
      BY <1>1 DEF SpaceTypes
    <3> QED
      BY ONLY <1>1, <1>6, <2>3, <3>1, SMTT(60) DEF SpaceTypes
  <2>5. PICK q : q = [i \in 0 .. k + 1 |-> IF i <= k THEN p[i] ELSE n]
    BY Zenon
  <2>6. /\ q[k + 1] = n
        /\ \A i \in 0 .. k : q[i] = p[i]
        /\ q \in [0 .. k + 1 -> Offsets]
    BY <1>6, <2>2, <2>5 DEF Path
  <2>7. Path(next_offset', first', q, k + 1)
    <3>1. q[0] = first'
      BY <1>6, <2>6, SMTT(60) DEF Path
    <3>2. ASSUME NEW i \in 0 .. k
          PROVE  q[i + 1] = next_offset'[q[i]] /\ q[i + 1] \in Caps
      <4>1. CASE i = k
        BY <1>6, <1>10, <2>6, <4>1
      <4>2. CASE i # k
        <5>1. i \in 0 .. k - 1 /\ i + 1 \in 0 .. k
          BY <4>2
        <5> QED
          BY <1>6, <2>6, <5>1 DEF Path
      <4> QED
        BY <4>1, <4>2
    <3>3. (k + 1) - 1 = k
      OBVIOUS
    <3> QED
      BY ONLY <2>6, <3>1, <3>2, <3>3 DEF Path
  <2>8. {q[i] : i \in 0 .. k + 1} = S \cup {n}
    BY <1>7, <2>6
  <2>9. Walked(q, k + 1)'
    BY ONLY <2>3, <2>7, <2>8, Zenon DEF Walked
  <2>10. q[k + 1] = offset' /\ k + 1 \in Nat
    BY <1>5, <2>6
  <2>11. \E i \in 0 .. k + 1 : q[i] = trail'
    <3>1. CASE trail' = trail
      BY <1>4, <2>6, <3>1
    <3>2. CASE trail' = next_offset'[trail]
      <4>1. next_offset'[q[j]] = q[j + 1]
        BY <2>7 DEF Path
      <4>2. q[j] = trail /\ j + 1 \in 0 .. k + 1
        BY <1>4, <2>6
      <4> QED
        BY <3>2, <4>1, <4>2
    <3> QED
      BY <1>10, <3>1, <3>2 DEF MoveTrail
  <2>12. stage' = "walk"
    BY <1>1, <1>10
  <2> QED
    BY ONLY <2>4, <2>9, <2>10, <2>11, <2>12, Zenon DEF WalkInv, WalkKnown
<1> QED
  BY ONLY <1>5, <1>9, <1>10, Zenon

(* probe passes its verdict.                                               *)
LEMMA ProbeEndsKeeps ==
  ASSUME WalkInv, ProbeEnds
  PROVE  WalkInv'
<1>1. /\ next_offset' = next_offset /\ contents' = contents /\ first' = first
      /\ cap_checked' = cap_checked /\ memory_enable' = memory_enable_reset
      /\ memory_enable_reset' = memory_enable_reset
  BY DEF ProbeEnds, spaceVars, walkVars
<1>2. SpaceTypes'
  BY <1>1 DEF WalkInv, SpaceTypes
<1>3. (CameToEnd => CameToEnd') /\ (CameToFault => CameToFault')
  BY ONLY <1>1, Zenon DEF CameToEnd, CameToFault, Walked, Examined
<1>4. CASE stage = "list_accepted"
  <2>1. CameToEnd'
    BY <1>3, <1>4, Zenon DEF WalkInv, WalkKnown
  <2>2. \/ stage' = "accepted" /\ (msi_vectors' > 0 \/ irq_pin')
        \/ stage' = "rejected" /\ ~(msi_vectors' > 0 \/ irq_pin')
    BY <1>4, Zenon DEF ProbeEnds
  <2> QED
    BY ONLY <1>1, <1>2, <2>1, <2>2, Zenon DEF WalkInv, WalkKnown
<1>5. CASE stage = "list_refused"
  <2>1. CameToFault'
    BY <1>3, <1>5, Zenon DEF WalkInv, WalkKnown
  <2>2. stage' = "rejected"
    BY <1>5, Zenon DEF ProbeEnds
  <2> QED
    BY ONLY <1>1, <1>2, <2>1, <2>2, Zenon DEF WalkInv, WalkKnown
<1> QED
  BY <1>4, <1>5 DEF ProbeEnds

(* start forgets what probe found out.                                     *)
LEMMA StartBeginsKeeps ==
  ASSUME WalkInv, StartBegins
  PROVE  WalkInv'
<1>1. /\ next_offset' = [o \in Offsets |-> Unread] /\ contents' = [o \in Offsets |-> {}]
      /\ cap_checked' = [t \in CfgTypes |-> FALSE] /\ first' = first
      /\ stage' \in {"start_failed", "setup_vectors", "setup_pin"}
  BY DEF StartBegins
<1>2. SpaceTypes'
  BY <1>1 DEF WalkInv, SpaceTypes
<1> QED
  BY ONLY <1>1, <1>2, Zenon DEF WalkInv, WalkKnown

(* After that the walk is not looked at again.                             *)
LEMMA LaterStepsKeep ==
  ASSUME WalkInv, SetupVector \/ SetupPin \/ Stop
  PROVE  WalkInv'
<1>1. /\ UNCHANGED <<spaceVars, walkVars>>
      /\ stage' \in {"setup_vectors", "running", "start_gives_up", "start_failed", "stopped"}
  BY DEF SetupVector, SetupPin, Stop
<1>2. SpaceTypes'
  BY <1>1, Zenon DEF WalkInv, SpaceTypes, spaceVars, walkVars
<1> QED
  BY ONLY <1>1, <1>2, Zenon DEF WalkInv, WalkKnown

(* The walk's invariant holds from the start and is kept.                  *)
LEMMA WalkInvariance == PCISpec => []WalkInv
<1>1. PCIInit => WalkInv
  <2> SUFFICES ASSUME PCIInit PROVE WalkInv
    OBVIOUS
  <2>1. SpaceTypes
    BY NumCapsAssumption DEF PCIInit, SpaceTypes
  <2>2. Examined({})
    BY DEF PCIInit, Examined
  <2> QED
    BY ONLY <2>1, <2>2, PCIInit, Zenon DEF PCIInit, WalkInv, WalkKnown
<1>2. WalkInv /\ [PCINext]_pciVars => WalkInv'
  <2> SUFFICES ASSUME WalkInv, [PCINext]_pciVars PROVE WalkInv'
    OBVIOUS
  <2>1. CASE UNCHANGED pciVars
    <3>1. UNCHANGED <<next_offset, contents, first, stage, offset, trail, cap_checked,
                      memory_enable, memory_enable_reset, msi_vectors, irq_pin>>
      BY <2>1 DEF pciVars, spaceVars, walkVars, memoryVars, irqVars
    <3>2. SpaceTypes'
      BY ONLY <3>1, WalkInv, Zenon DEF WalkInv, SpaceTypes
    <3>3. \A p, k : Walked(p, k) <=> Walked(p, k)'
      BY ONLY <3>1, Zenon DEF Walked, Examined
    <3>4. (CameToEnd => CameToEnd') /\ (CameToFault => CameToFault')
      BY ONLY <3>1, Zenon DEF CameToEnd, CameToFault, Walked, Examined
    <3>5. Examined({}) => Examined({})'
      BY ONLY <3>1, Zenon DEF Examined
    <3> QED
      BY ONLY <3>1, <3>2, <3>3, <3>4, <3>5, WalkInv, Zenon DEF WalkInv, WalkKnown
  <2>2. CASE PCINext
    <3>1. CASE Gone
      BY <2>1, <3>1 DEF Gone
    <3> QED
      BY <2>2, <3>1, ProbeBeginsKeeps, WalkStepKeeps, ProbeEndsKeeps, StartBeginsKeeps,
         LaterStepsKeep, Zenon DEF PCINext, Probe, StartAndStop
  <2> QED
    BY <2>1, <2>2
<1> QED
  BY <1>1, <1>2, PTL DEF PCISpec

(* Whatever the configuration space holds and however its list is linked,  *)
(* probe accepts exactly the lists that end (djt_iopcidevice_iterate_      *)
(* capabilities finds every cycle and takes none for an end), has then     *)
(* noted the usable structures, and leaves memory access as it was.        *)
THEOREM ProbeAlwaysRight == PCISpec => []ProbeIsRight
BY WalkInvariance, VerdictIsRight, PTL

-----------------------------------------------------------------------------
(* Interrupt handlers *)

(* Nothing is set up.                                                      *)
NoHandlers ==
  /\ \A v \in Vectors : sources[v] = "none" /\ workloops[v] = "none"
  /\ num_sources = 0 /\ irq_source = "none" /\ irq_workloop = "none"

(* shutdownInterruptHandlers looks at the first num_sources vectors, and   *)
(* at the pin only if there are none: nothing is set up elsewhere.  A pin  *)
(* source without a work loop was created and no more.                     *)
HandlersPlaced ==
  /\ num_sources \in Nat
  /\ DOMAIN sources = Vectors /\ DOMAIN workloops = Vectors
  /\ \A v \in Vectors : v > num_sources => sources[v] = "none" /\ workloops[v] = "none"
  /\ num_sources > 0 => irq_source = "none" /\ irq_workloop = "none"
  /\ irq_workloop = "none" => irq_source \in {"none", "created"}

HandlerInv ==
  /\ HandlersPlaced
  /\ msi_vectors \in Nat
  /\ stage \in {"matched", "walk", "list_accepted", "list_refused", "accepted", "rejected",
                "setup_pin"} => NoHandlers
  /\ stage = "setup_vectors" => num_sources > 0 /\ vector \in Nat
  /\ HandlersTakenDown

(* Every step keeps it.                                                    *)
LEMMA HandlerStep == HandlerInv /\ [PCINext]_pciVars => HandlerInv'
<1> SUFFICES ASSUME HandlerInv, [PCINext]_pciVars PROVE HandlerInv'
  OBVIOUS
<1>1. CASE UNCHANGED pciVars
  BY <1>1, Zenon DEF pciVars, spaceVars, walkVars, memoryVars, irqVars, handlerVars, HandlerInv,
     HandlersPlaced, NoHandlers, HandlersTakenDown
<1>2. CASE ProbeBegins \/ WalkStep \/ ProbeEnds
  <2>1. UNCHANGED handlerVars /\ NoHandlers
        /\ stage' \in {"walk", "list_accepted", "list_refused", "accepted", "rejected"}
    BY <1>2, Zenon DEF ProbeBegins, WalkStep, ProbeEnds, HandlerInv
  <2>2. msi_vectors' \in Nat
    BY <1>2, MaxVectorsAssumption DEF ProbeBegins, WalkStep, ProbeEnds, HandlerInv, irqVars
  <2> QED
    BY <2>1, <2>2, Zenon DEF handlerVars, HandlerInv, HandlersPlaced, NoHandlers, HandlersTakenDown
<1>3. CASE StartBegins
  <2>1. NoHandlers /\ UNCHANGED <<msi_vectors, sources, workloops, irq_source, irq_workloop>>
    BY <1>3, Zenon DEF StartBegins, HandlerInv, irqVars
  <2>2. \/ /\ stage' \in {"start_failed", "setup_pin"} /\ num_sources' = num_sources
        \/ /\ stage' = "setup_vectors" /\ num_sources' = msi_vectors /\ msi_vectors > 0
           /\ vector' = 1
    BY <1>3 DEF StartBegins
  <2>3. CASE stage' \in {"start_failed", "setup_pin"} /\ num_sources' = num_sources
    BY <2>1, <2>3 DEF HandlerInv, HandlersPlaced, NoHandlers, HandlersTakenDown
  <2>4. CASE /\ stage' = "setup_vectors" /\ num_sources' = msi_vectors /\ msi_vectors > 0
             /\ vector' = 1
    BY <2>1, <2>4 DEF HandlerInv, HandlersPlaced, NoHandlers, HandlersTakenDown
  <2> QED
    BY <2>2, <2>3, <2>4
<1>4. CASE SetupVector
  <2>1. /\ num_sources > 0 /\ vector \in Nat
        /\ UNCHANGED <<msi_vectors, num_sources, irq_source, irq_workloop>>
    BY <1>4 DEF SetupVector, HandlerInv, irqVars
  <2>2. /\ vector' \in Nat
        /\ stage' \in {"setup_vectors", "running", "start_gives_up"}
        /\ DOMAIN sources' = Vectors /\ DOMAIN workloops' = Vectors
        /\ \A v \in Vectors : v > num_sources => sources'[v] = sources[v] /\ workloops'[v] = workloops[v]
    BY <1>4, <2>1 DEF SetupVector, HandlerInv, HandlersPlaced
  <2> QED
    BY <2>1, <2>2 DEF HandlerInv, HandlersPlaced, HandlersTakenDown
<1>5. CASE SetupPin
  <2>1. NoHandlers /\ UNCHANGED <<msi_vectors, num_sources, sources, workloops>>
    BY <1>5, Zenon DEF SetupPin, HandlerInv, irqVars
  <2>2. /\ stage' \in {"running", "start_gives_up"}
        /\ irq_workloop' = "none" => irq_source' \in {"none", "created"}
    BY <1>5, <2>1 DEF SetupPin, NoHandlers
  <2> QED
    BY <2>1, <2>2 DEF HandlerInv, HandlersPlaced, NoHandlers, HandlersTakenDown
<1>6. CASE Stop
  <2>1. /\ stage' \in {"stopped", "start_failed"} /\ num_sources' = 0 /\ msi_vectors' = msi_vectors
    BY <1>6 DEF Stop, ShutdownInterruptHandlers, irqVars
  <2>2. \A v \in Vectors : sources'[v] = "none" /\ workloops'[v] = "none"
    <3> TAKE v \in Vectors
    <3>1. v \in Int /\ num_sources \in Int
      BY MaxVectorsAssumption DEF Vectors, HandlerInv, HandlersPlaced
    <3>2. CASE v <= num_sources
      BY <1>6, <3>2 DEF Stop, ShutdownInterruptHandlers
    <3>3. CASE v > num_sources
      BY <1>6, <3>1, <3>3 DEF Stop, ShutdownInterruptHandlers, HandlerInv, HandlersPlaced
    <3> QED
      BY <3>1, <3>2, <3>3
  <2>3. DOMAIN sources' = Vectors /\ DOMAIN workloops' = Vectors
    BY <1>6 DEF Stop, ShutdownInterruptHandlers
  <2>4. irq_workloop' = "none" /\ irq_source' \in {"none", "created"}
    <3>1. CASE num_sources = 0 /\ irq_workloop # "none"
      BY <1>6, <3>1 DEF Stop, ShutdownInterruptHandlers
    <3>2. CASE ~(num_sources = 0 /\ irq_workloop # "none")
      BY <1>6, <3>2 DEF Stop, ShutdownInterruptHandlers, HandlerInv, HandlersPlaced
    <3> QED
      BY <3>1, <3>2
  <2> QED
    BY <2>1, <2>2, <2>3, <2>4 DEF HandlerInv, HandlersPlaced, HandlersTakenDown
<1>7. CASE Gone
  BY <1>1, <1>7 DEF Gone
<1> QED
  BY <1>1, <1>2, <1>3, <1>4, <1>5, <1>6, <1>7, Zenon DEF PCINext, Probe, StartAndStop

(* Wherever setupInterruptHandlers fails, and after a normal stop,         *)
(* shutdownInterruptHandlers leaves no event source or work loop, but for  *)
(* a pin source without work loop.                                         *)
THEOREM HandlersAlwaysTakenDown == PCISpec => []HandlersTakenDown
<1>1. PCIInit => HandlerInv
  BY DEF PCIInit, HandlerInv, HandlersPlaced, NoHandlers, HandlersTakenDown
<1>2. HandlerInv => HandlersTakenDown
  BY DEF HandlerInv
<1> QED
  BY <1>1, <1>2, HandlerStep, PTL DEF PCISpec

=============================================================================
