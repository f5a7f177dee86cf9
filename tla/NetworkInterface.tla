--------------------------- MODULE NetworkInterface ---------------------------
(***************************************************************************)
(* The Ethernet controller PJVirtioNet (virtio_net.cpp) on top of a        *)
(* VirtioDevice: its driver_state, which two clients, the network          *)
(* interface and the kernel debugger, move independently; the device it    *)
(* opens and runs while either is enabled; the I/O Kit's output queue,     *)
(* which it starts, stops and stalls; and the one packet reserved for the  *)
(* debugger, which sends with everything else halted.                      *)
(*                                                                         *)
(* The rings are numbers of packets.  A call that the code refuses without *)
(* changing anything is no step here.                                      *)
(***************************************************************************)
EXTENDS Naturals

CONSTANTS
  RxPackets,       \* packets that fit the receive virtqueue
  TxPackets,       \* packets that fit the transmit virtqueue
  QueueCapacity    \* capacity of the output queue while it is in use

ASSUME SizesAssumption ==
  /\ RxPackets \in Nat \ {0} /\ TxPackets \in Nat \ {0} /\ QueueCapacity \in Nat \ {0}

VARIABLES
  driver_state,
  call,               \* "starting" or "stopping" while start or stop is under way
  feature_notify_on_empty,
  device,             \* "closed", "open" or "running" (open, and driver OK)
  interrupts,         \* virtqueues with interrupts enabled
  rx_posted, rx_done, \* receive packets with the device, and returned by it
  tx_queued, tx_done, \* transmit packets, likewise
  output_queue,       \* "stopped", "running" or "stalled"
  capacity, backlog,  \* of the output queue
  was_stalled,
  debugger,           \* the debugger client is attached
  debugger_enabled,   \* enable succeeded for it
  debugger_transmit_packet,   \* NULL as "none", else "idle", "queued" or "sent"
  packet_data,        \* what is in it: 0 and 1 in turn, as sendPacket writes it
  debugger_transmit_packet_in_use

stateVars == <<driver_state, call, feature_notify_on_empty>>
rxVars == <<rx_posted, rx_done>>
txVars == <<tx_queued, tx_done>>
queueVars == <<output_queue, capacity, backlog>>
packetVars == <<debugger_transmit_packet, packet_data, debugger_transmit_packet_in_use>>
debuggerVars == <<debugger, debugger_enabled>>
vars == <<stateVars, device, interrupts, rxVars, txVars, queueVars, was_stalled,
          debuggerVars, packetVars>>

Init ==
  /\ driver_state = "Initial" /\ call = "none" /\ feature_notify_on_empty = FALSE
  /\ device = "closed" /\ interrupts = {}
  /\ rx_posted = 0 /\ rx_done = 0 /\ tx_queued = 0 /\ tx_done = 0
  /\ output_queue = "stopped" /\ capacity = 0 /\ backlog = 0 /\ was_stalled = FALSE
  /\ debugger = FALSE /\ debugger_enabled = FALSE
  /\ debugger_transmit_packet = "none" /\ debugger_transmit_packet_in_use = FALSE
  /\ packet_data = 0

-----------------------------------------------------------------------------
(* start.  The device is only opened to look at it.  The interface is      *)
(* registered, and may be enabled, before the debugger is set up.          *)

Start ==
  /\ driver_state \in {"Initial", "Stopped"} /\ call = "none"
  /\ \/ /\ driver_state' = "StartFailed"      \* super, open
        /\ UNCHANGED <<call, feature_notify_on_empty, device>>
     \/ /\ device = "closed"                  \* no work loop
        /\ driver_state' = "StartFailed" /\ device' = "open"
        /\ UNCHANGED <<call, feature_notify_on_empty>>
     \/ /\ device = "closed"                  \* no output queue or interface
        /\ driver_state' = "StartFailed"
        /\ feature_notify_on_empty' \in BOOLEAN
        /\ UNCHANGED <<call, device>>
     \/ /\ device = "closed"
        /\ driver_state' = "Started" /\ call' = "starting"
        /\ feature_notify_on_empty' \in BOOLEAN
        /\ UNCHANGED device
  /\ UNCHANGED <<interrupts, rxVars, txVars, queueVars, was_stalled, debuggerVars,
                 packetVars>>

StartDebugger ==
  /\ call = "starting"
  /\ call' = "none"
  /\ \/ UNCHANGED <<debugger_transmit_packet, debugger>>
     \/ /\ debugger_transmit_packet' = "idle"
        /\ debugger' \in BOOLEAN
  /\ UNCHANGED <<driver_state, feature_notify_on_empty, device, interrupts, rxVars,
                 txVars, queueVars, was_stalled, debugger_enabled, packet_data,
                 debugger_transmit_packet_in_use>>

-----------------------------------------------------------------------------
(* enable and disable, in the command gate, for a client that is attached *)

InterfaceAttached == call # "stopping"

(* open, reset, features, virtqueues without interrupts, driver OK, and    *)
(* all receive packets.  When any of it fails the device is closed again.  *)
EnablePartial ==
  /\ device = "closed"
  /\ device' = "running" /\ interrupts' = {}
  /\ rx_posted' = RxPackets

EnablePartialFails == UNCHANGED <<device, interrupts, rx_posted>>

GatedEnableDebugger ==
  /\ debugger /\ debugger_transmit_packet # "none"
  /\ \/ /\ driver_state = "Enabled"
        /\ driver_state' = "EnabledBoth" /\ debugger_enabled' = TRUE
        /\ UNCHANGED <<device, interrupts, rx_posted>>
     \/ /\ driver_state = "Started" /\ EnablePartial
        /\ driver_state' = "EnabledDebugging" /\ debugger_enabled' = TRUE
     \/ /\ driver_state = "Started" /\ EnablePartialFails
        /\ driver_state' = "EnableFailed"
        /\ UNCHANGED debugger_enabled
  /\ UNCHANGED <<call, feature_notify_on_empty, rx_done, txVars, queueVars,
                 was_stalled, debugger, packetVars>>

GatedEnableInterface ==
  /\ InterfaceAttached
  /\ driver_state \in {"Started", "EnabledDebugging"}
  /\ \/ /\ driver_state = "Started" /\ EnablePartialFails
        /\ driver_state' = "EnableFailed"
        /\ UNCHANGED queueVars
     \/ /\ IF driver_state = "Started"        \* createMediumTable fails
           THEN EnablePartial ELSE UNCHANGED <<device, interrupts, rx_posted>>
        /\ driver_state' = "EnableFailed"
        /\ UNCHANGED queueVars
     \/ /\ IF driver_state = "Started"
           THEN device = "closed" /\ device' = "running" /\ rx_posted' = RxPackets
           ELSE UNCHANGED <<device, rx_posted>>
        /\ interrupts' = IF feature_notify_on_empty THEN {"rx"} ELSE {"rx", "tx"}
        /\ output_queue' = "running" /\ capacity' = QueueCapacity
        /\ driver_state' = IF driver_state = "Started" THEN "Enabled" ELSE "EnabledBoth"
        /\ UNCHANGED backlog
  /\ UNCHANGED <<call, feature_notify_on_empty, rx_done, txVars, was_stalled,
                 debuggerVars, packetVars>>

(* The end of releaseSentPackets, called outside the debugger.             *)
ClearStall(queue) ==
  /\ output_queue' = IF was_stalled THEN "running" ELSE queue
  /\ was_stalled' = FALSE

(* What the device returned is handled, then it is failed and closed, and  *)
(* what it still had is not seen again.  No completion action is called:   *)
(* debugger_transmit_packet_in_use stays as it is.                         *)
DisablePartial(queue) ==
  /\ ClearStall(queue)
  /\ device' = "closed" /\ interrupts' = {}
  /\ rx_posted' = 0 /\ rx_done' = 0 /\ tx_queued' = 0 /\ tx_done' = 0
  /\ debugger_transmit_packet' = IF debugger_transmit_packet = "none" THEN "none" ELSE "idle"

DisableDebugger ==
  /\ debugger
  /\ driver_state \in {"EnabledDebugging", "EnabledBoth"}
  /\ debugger_enabled' = FALSE
  /\ \/ /\ driver_state = "EnabledDebugging"
        /\ DisablePartial(output_queue)
        /\ driver_state' = "Started"
     \/ /\ driver_state = "EnabledBoth"
        /\ driver_state' = "Enabled"
        /\ UNCHANGED <<device, interrupts, rxVars, txVars, output_queue, was_stalled,
                       debugger_transmit_packet>>
  /\ UNCHANGED <<call, feature_notify_on_empty, capacity, backlog, debugger,
                 packet_data, debugger_transmit_packet_in_use>>

\* Mutated form: the output queue is stopped but not emptied.
DisableKeepingBacklog ==
  /\ UNCHANGED <<capacity, backlog>>
  /\ \/ /\ driver_state = "EnabledBoth"
        /\ driver_state' = "EnabledDebugging"
        /\ output_queue' = "stopped" /\ interrupts' = {}
        /\ UNCHANGED <<device, rxVars, txVars, was_stalled, debugger_transmit_packet>>
     \/ /\ driver_state = "Enabled"
        /\ driver_state' = "Started"
        /\ DisablePartial("stopped")

\* Mutated form: interrupts stay enabled for the debugger.
DisableKeepingInterrupts ==
  /\ capacity' = 0 /\ backlog' = 0
  /\ \/ /\ driver_state = "EnabledBoth"
        /\ driver_state' = "EnabledDebugging"
        /\ output_queue' = "stopped"
        /\ UNCHANGED <<device, interrupts, rxVars, txVars, was_stalled,
                       debugger_transmit_packet>>
     \/ /\ driver_state = "Enabled"
        /\ driver_state' = "Started"
        /\ DisablePartial("stopped")

(* disable for the interface, apart from the states it is refused in.      *)
Disable ==
  /\ capacity' = 0 /\ backlog' = 0
  /\ \/ /\ driver_state = "EnabledBoth"
        /\ driver_state' = "EnabledDebugging"
        /\ output_queue' = "stopped" /\ interrupts' = {}
        /\ UNCHANGED <<device, rxVars, txVars, was_stalled, debugger_transmit_packet>>
     \/ /\ driver_state = "Enabled"
        /\ driver_state' = "Started"
        /\ DisablePartial("stopped")

DisableInterface ==
  /\ InterfaceAttached
  /\ Disable
  /\ UNCHANGED <<call, feature_notify_on_empty, debuggerVars, packet_data,
                 debugger_transmit_packet_in_use>>

-----------------------------------------------------------------------------
(* Sending and receiving *)

(* The network stack, and the output queue, which takes no more than its   *)
(* capacity.                                                               *)
Enqueue ==
  /\ backlog < capacity
  /\ backlog' = backlog + 1
  /\ UNCHANGED <<stateVars, device, interrupts, rxVars, txVars, output_queue,
                 capacity, was_stalled, debuggerVars, packetVars>>

(* Packets that take up descriptors: n of the interface, and the           *)
(* debugger's if it is in the ring.                                        *)
InTxRing(n, packet) == n + (IF packet \in {"queued", "sent"} THEN 1 ELSE 0)

(* The loop of releaseSentPackets, which takes the debugger's packet out   *)
(* of the ring too, but leaves debugger_transmit_packet_in_use alone.      *)
ReleaseSent ==
  /\ tx_done' = 0
  /\ debugger_transmit_packet' = IF debugger_transmit_packet = "sent" THEN "idle"
                                 ELSE debugger_transmit_packet

(* outputPacket, called by the output queue while it runs.                 *)
OutputPacket ==
  /\ output_queue = "running" /\ backlog > 0
  /\ ReleaseSent
  /\ \/ /\ InTxRing(tx_queued, debugger_transmit_packet') < TxPackets
        /\ tx_queued' = tx_queued + 1         \* added to the transmit queue
        /\ backlog' = backlog - 1
        /\ ClearStall(output_queue)
        /\ UNCHANGED interrupts
     \/ /\ InTxRing(tx_queued, debugger_transmit_packet') >= TxPackets
        /\ interrupts' = IF feature_notify_on_empty THEN interrupts \cup {"tx"}
                         ELSE interrupts      \* stalled: the packet stays
        /\ was_stalled' = TRUE /\ output_queue' = "stalled"
        /\ UNCHANGED <<tx_queued, backlog>>
     \/ /\ backlog' = backlog - 1             \* dropped: no memory
        /\ ClearStall(output_queue)
        /\ UNCHANGED <<tx_queued, interrupts>>
  /\ UNCHANGED <<stateVars, device, rxVars, capacity, debuggerVars, packet_data,
                 debugger_transmit_packet_in_use>>

(* The device, while it runs.                                              *)
DeviceWorks ==
  /\ device = "running"
  /\ \/ /\ tx_queued > 0
        /\ tx_queued' = tx_queued - 1 /\ tx_done' = tx_done + 1
        /\ UNCHANGED <<rxVars, debugger_transmit_packet>>
     \/ /\ debugger_transmit_packet = "queued"
        /\ debugger_transmit_packet' = "sent"
        /\ UNCHANGED <<rxVars, txVars>>
     \/ /\ rx_posted > 0
        /\ rx_posted' = rx_posted - 1 /\ rx_done' = rx_done + 1
        /\ UNCHANGED <<txVars, debugger_transmit_packet>>
  /\ UNCHANGED <<stateVars, interrupts, device, queueVars, was_stalled, debuggerVars,
                 packet_data, debugger_transmit_packet_in_use>>

(* What the completion actions of the transmit queue do, called for all    *)
(* that was sent.                                                          *)
TransmitCompletions ==
  /\ tx_done' = 0
  /\ IF debugger_transmit_packet = "sent"
     THEN debugger_transmit_packet' = "idle" /\ debugger_transmit_packet_in_use' = FALSE
     ELSE UNCHANGED <<debugger_transmit_packet, debugger_transmit_packet_in_use>>
  /\ UNCHANGED packet_data

TransmitInterrupt ==
  /\ device = "running"
  /\ tx_done > 0 \/ debugger_transmit_packet = "sent"
  /\ \/ "tx" \in interrupts
     \/ feature_notify_on_empty /\ tx_queued = 0 /\ debugger_transmit_packet # "queued"
  /\ TransmitCompletions
  /\ UNCHANGED <<stateVars, device, interrupts, rxVars, tx_queued, queueVars,
                 was_stalled, debuggerVars>>

(* As far as memory allows.                                                *)
PopulateReceiveBuffers == rx_posted' \in rx_posted .. RxPackets - rx_done'

(* receiveQueueCompletion, outside the debugger, for one packet: hand it   *)
(* to the interface and fill the receive queue.                            *)
ReceiveInterrupt ==
  /\ device = "running" /\ "rx" \in interrupts
  /\ rx_done > 0
  /\ rx_done' = rx_done - 1
  /\ PopulateReceiveBuffers
  /\ UNCHANGED <<stateVars, device, interrupts, txVars, queueVars, was_stalled,
                 debuggerVars, packetVars>>

(* receivePacket, polling with everything else halted: every packet it     *)
(* meets is copied and queued again.                                       *)
ReceivePacket ==
  /\ debugger_enabled
  /\ rx_done > 0
  /\ rx_posted' = rx_posted + rx_done /\ rx_done' = 0
  /\ UNCHANGED <<stateVars, device, interrupts, txVars, queueVars, was_stalled,
                 debuggerVars, packetVars>>

\* Mutated form: the poll's outcome is not looked at.
StillInUseUnchecked == FALSE

StillInUse == debugger_transmit_packet_in_use /\ debugger_transmit_packet # "sent"

(* sendPacket, likewise.  A packet still in use is polled for once.        *)
SendPacket ==
  /\ debugger_enabled /\ debugger_transmit_packet # "none"
  /\ tx_done' = IF debugger_transmit_packet_in_use THEN 0 ELSE tx_done
  /\ \/ /\ StillInUse
        /\ UNCHANGED packetVars
     \/ /\ ~StillInUse
        /\ packet_data' = 1 - packet_data
        /\ IF tx_queued + tx_done' < TxPackets
           THEN debugger_transmit_packet' = "queued" /\ debugger_transmit_packet_in_use' = TRUE
           ELSE debugger_transmit_packet' = "idle" /\ debugger_transmit_packet_in_use' = FALSE
  /\ UNCHANGED <<stateVars, device, interrupts, rxVars, tx_queued, queueVars,
                 was_stalled, debuggerVars>>

-----------------------------------------------------------------------------
(* stop: the clients are detached and the reserved packet is freed, then   *)
(* the device is closed if either client still had it enabled.  A driver   *)
(* in state EnableFailed leaves the device as it is.                       *)

StopClients ==
  /\ driver_state \notin {"Initial", "StartFailed", "Stopped"} /\ call = "none"
  /\ call' = "stopping"
  /\ debugger' = FALSE /\ debugger_enabled' = FALSE
  /\ debugger_transmit_packet' = "none"
  /\ \/ /\ driver_state = "Enabled"
        /\ driver_state' = "Started"
        /\ ClearStall("stopped") /\ capacity' = 0 /\ backlog' = 0
        /\ device' = "closed" /\ interrupts' = {}
        /\ rx_posted' = 0 /\ rx_done' = 0 /\ tx_queued' = 0 /\ tx_done' = 0
     \/ /\ driver_state = "EnabledBoth"
        /\ driver_state' = "EnabledDebugging"
        /\ output_queue' = "stopped" /\ capacity' = 0 /\ backlog' = 0
        /\ interrupts' = {}
        /\ UNCHANGED <<was_stalled, device, rxVars, txVars>>
     \/ /\ driver_state \notin {"Enabled", "EnabledBoth"}
        /\ UNCHANGED <<driver_state, queueVars, was_stalled, device, interrupts,
                       rxVars, txVars>>
  /\ UNCHANGED <<feature_notify_on_empty, packet_data, debugger_transmit_packet_in_use>>

StopDevice ==
  /\ call = "stopping"
  /\ call' = "none" /\ driver_state' = "Stopped"
  /\ IF driver_state \in {"Enabled", "EnabledBoth", "EnabledDebugging"}
     THEN DisablePartial(output_queue)
     ELSE UNCHANGED <<device, interrupts, rxVars, txVars, output_queue, was_stalled,
                      debugger_transmit_packet>>
  /\ UNCHANGED <<feature_notify_on_empty, capacity, backlog, debuggerVars, packet_data,
                 debugger_transmit_packet_in_use>>

-----------------------------------------------------------------------------
Next ==
  \/ Start
  \/ StartDebugger
  \/ GatedEnableDebugger
  \/ GatedEnableInterface
  \/ DisableDebugger
  \/ DisableInterface
  \/ Enqueue
  \/ OutputPacket
  \/ DeviceWorks
  \/ TransmitInterrupt
  \/ ReceiveInterrupt
  \/ ReceivePacket
  \/ SendPacket
  \/ StopClients
  \/ StopDevice

Spec == Init /\ [][Next]_vars

-----------------------------------------------------------------------------
(* "start() completed successfully, but enable() hasn't yet been called    *)
(* (or has been negated by disable())", "enable() has been called, and     *)
(* succeeded", and so on (virtio_net.h:135): in whatever order the two     *)
(* clients come and go, the device runs exactly in the three enabled       *)
(* states, is closed when started, has receive interrupts exactly if the   *)
(* interface is enabled, and runs for as long as the debugger may call.    *)
(* The failed states are left out: see the README.                         *)
DeviceMatchesState ==
  /\ driver_state \in {"Enabled", "EnabledBoth"} => device = "running" /\ "rx" \in interrupts
  /\ driver_state = "EnabledDebugging" => device = "running" /\ interrupts = {}
  /\ driver_state = "Started" => device = "closed" /\ interrupts = {}
  /\ debugger_enabled => device = "running"

(* outputPacket is never called, with a packet for the transmit virtqueue, *)
(* while the device does not run: although disable stops the output queue, *)
(* a stall that is cleared on the way starts it again, so that it has to   *)
(* be empty and to take nothing.                                           *)
OutputOnlyWhenRunning ==
  output_queue = "running" /\ backlog > 0 => device = "running"

(* sendPacket writes the reserved packet only while the device does not    *)
(* have it, whatever poll, interrupt and restart of the device did before. *)
DebuggerPacketStable ==
  [][debugger_transmit_packet = "queued" => UNCHANGED packet_data]_vars

=============================================================================
