----------------------------- MODULE PCITransport -----------------------------
(***************************************************************************)
(* The modern PCI transport (VirtioPCIDevice.cpp) as far as it is written: *)
(* probe walks the device's capability list, looking for cycles, and       *)
(* checks the virtio structures it finds; start creates an event source    *)
(* and a work loop for every interrupt; stop takes them down again.        *)
(*                                                                         *)
(* The configuration space is the device's: what it holds at an offset is  *)
(* chosen when the offset is first read and stays.  An offset is a number: *)
(* 0 ends the list, Caps are those the walk accepts, and Bad stands for    *)
(* those below 0x40 or not divisible by 4.                                 *)
(***************************************************************************)
EXTENDS Integers

CONSTANTS
  NumCaps,      \* number of offsets a capability can be at
  Contents,     \* what can be at an offset: records, see Examine
  MaxVectors,   \* most MSI(-X) vectors a device has
  SetupFaults   \* steps of start that may fail: "super", "source", "workloop"

ASSUME NumCapsAssumption == NumCaps \in Nat \ {0}
ASSUME MaxVectorsAssumption == MaxVectors \in Nat
ASSUME FaultsAssumption == SetupFaults \subseteq {"super", "source", "workloop"}

VARIABLES
  next_offset,    \* configuration space: link and contents at an offset,
  contents,       \* Unread before the first read
  first,          \* first capability offset
  stage,          \* where the thread that probes, starts and stops is
  offset, trail, trail_skip,
  cap_checked,
  memory_enable,  \* of the PCI device
  memory_enable_reset,
  msi_vectors, irq_pin,           \* interrupts the device has
  num_sources, sources, workloops,    \* msi_handlers
  irq_source, irq_workloop,
  vector          \* i in the loop of setupInterruptHandlers

spaceVars == <<next_offset, contents, first>>
walkVars == <<offset, trail, trail_skip, cap_checked>>
memoryVars == <<memory_enable, memory_enable_reset>>
irqVars == <<msi_vectors, irq_pin>>
handlerVars == <<num_sources, sources, workloops, irq_source, irq_workloop, vector>>
pciVars == <<spaceVars, stage, walkVars, memoryVars, irqVars, handlerVars>>

Caps == 1 .. NumCaps
Bad == NumCaps + 1
Offsets == Caps \cup {Bad}
Unread == -1
Vectors == 1 .. MaxVectors
CfgTypes == 1 .. 4    \* VIRTIO_PCI_CAP_COMMON_CFG .. VIRTIO_PCI_CAP_DEVICE_CFG

PCIInit ==
  /\ next_offset = [o \in Offsets |-> Unread]
  /\ contents = [o \in Offsets |-> {}]
  /\ first \in Offsets \cup {0}
  /\ stage = "matched"
  /\ offset = 0 /\ trail = 0 /\ trail_skip = TRUE
  /\ cap_checked = [t \in CfgTypes |-> FALSE]
  /\ memory_enable \in BOOLEAN /\ memory_enable_reset = FALSE
  /\ msi_vectors = 0 /\ irq_pin = FALSE
  /\ num_sources = 0
  /\ sources = [v \in Vectors |-> "none"] /\ workloops = [v \in Vectors |-> "none"]
  /\ irq_source = "none" /\ irq_workloop = "none" /\ vector = 0

-----------------------------------------------------------------------------
(* The checks of one virtio structure.  bar_type is that of the memory     *)
(* range with the BAR's index, "none" if there is no such range.           *)

CheckBarTypeAndLength(cap) ==
  /\ cap.bar_type = "memory"
  /\ cap.bar_size >= cap.bar_length

IsPow2(val) == \E i \in 0 .. val : val = 2 ^ i

SetupCommonCFG(cap) ==
  /\ cap.bar_offset % 4 = 0
  /\ cap.bar_length >= 56      \* sizeof(virtio_pci_common_cfg)
  /\ CheckBarTypeAndLength(cap)

SetupNotificationStructure(cap) ==
  /\ cap.notify_off_multiplier = 0 \/ IsPow2(cap.notify_off_multiplier)
  /\ cap.bar_offset % 2 = 0
  /\ cap.bar_length >= 2
  /\ CheckBarTypeAndLength(cap)

SetupISRStatusStructure(cap) ==
  /\ cap.bar_length >= 1
  /\ CheckBarTypeAndLength(cap)

SetupDeviceSpecificStructure(cap) ==
  /\ cap.bar_offset % 4 = 0
  /\ CheckBarTypeAndLength(cap)

(* The part of the lambda in probe that recognises a virtio structure.     *)
IsVirtioStructure(cap) ==
  /\ cap.cap_type = "vendor_specific"
  /\ cap.cap_len >= 16         \* sizeof(virtio_pci_cap)
  /\ cap.cfg_type \in CfgTypes

Usable(cap) ==
  \/ cap.cfg_type = 1 /\ SetupCommonCFG(cap)
  \/ cap.cfg_type = 2 /\ SetupNotificationStructure(cap)
  \/ cap.cfg_type = 3 /\ SetupISRStatusStructure(cap)
  \/ cap.cfg_type = 4 /\ SetupDeviceSpecificStructure(cap)

\* Mutated form: a later structure of the same type overrides the first.
ExamineLast(cap) ==
  IF IsVirtioStructure(cap)
  THEN [cap_checked EXCEPT ![cap.cfg_type] = Usable(cap)]
  ELSE cap_checked

(* fn of djt_iopcidevice_iterate_capabilities: a type once found usable    *)
(* stays so.                                                               *)
Examine(cap) ==
  IF IsVirtioStructure(cap)
  THEN [cap_checked EXCEPT ![cap.cfg_type] = @ \/ Usable(cap)]
  ELSE cap_checked

-----------------------------------------------------------------------------
(* probe *)

ReadContents(o, cap) ==
  /\ cap \in IF contents[o] = {} THEN Contents ELSE contents[o]
  /\ contents' = [contents EXCEPT ![o] = {cap}]

ReadNext(o, n) ==
  /\ n \in IF next_offset[o] = Unread THEN Offsets \cup {0} ELSE {next_offset[o]}
  /\ next_offset' = [next_offset EXCEPT ![o] = n]

ProbeBegins ==
  /\ stage = "matched"
  /\ memory_enable_reset' = memory_enable /\ memory_enable' = TRUE
  /\ \/ /\ first = 0
        /\ stage' = "list_refused"
        /\ UNCHANGED <<contents, walkVars>>
     \/ /\ first # 0
        /\ \E cap \in Contents : ReadContents(first, cap) /\ cap_checked' = Examine(cap)
        /\ offset' = first /\ trail' = first /\ trail_skip' = TRUE
        /\ stage' = "walk"
  /\ UNCHANGED <<next_offset, first, irqVars, handlerVars>>

\* Mutated form: the trail stays at the first capability.
MoveTrailNever == trail' = trail /\ trail_skip' = ~trail_skip

MoveTrail ==
  /\ trail' = IF trail_skip THEN trail ELSE next_offset'[trail]
  /\ trail_skip' = ~trail_skip

(* One turn of the do loop: follow the link, stop at an offset outside the *)
(* list's range or at the trail, otherwise look at the capability and move *)
(* the trail in every second turn.                                         *)
WalkStep ==
  /\ stage = "walk"
  /\ \E n \in Offsets \cup {0} :
       /\ ReadNext(offset, n)
       /\ offset' = n
       /\ \/ /\ n \notin Caps \/ n = trail
             /\ stage' = IF n = 0 THEN "list_accepted" ELSE "list_refused"
             /\ UNCHANGED <<contents, trail, trail_skip, cap_checked>>
          \/ /\ n \in Caps /\ n # trail
             /\ \E cap \in Contents : ReadContents(n, cap) /\ cap_checked' = Examine(cap)
             /\ MoveTrail
             /\ UNCHANGED stage
  /\ UNCHANGED <<first, memoryVars, irqVars, handlerVars>>

(* The end of probe, with the device's interrupts as                       *)
(* djt_iopcidevice_find_interrupt_ranges finds them.                       *)
ProbeEnds ==
  /\ stage \in {"list_accepted", "list_refused"}
  /\ memory_enable' = memory_enable_reset
  /\ msi_vectors' \in 0 .. MaxVectors /\ irq_pin' \in BOOLEAN
  /\ stage' = IF stage = "list_accepted" /\ (msi_vectors' > 0 \/ irq_pin')
           THEN "accepted" ELSE "rejected"
  /\ UNCHANGED <<spaceVars, walkVars, memory_enable_reset, handlerVars>>

-----------------------------------------------------------------------------
(* start and stop *)

(* start up to the call of setupInterruptHandlers and the choice it makes  *)
(* between vectors and pin.  probe's variables are gone by then and the    *)
(* configuration space is not read again.                                  *)
StartBegins ==
  /\ stage = "accepted"
  /\ next_offset' = [o \in Offsets |-> Unread] /\ contents' = [o \in Offsets |-> {}]
  /\ offset' = 0 /\ trail' = 0 /\ trail_skip' = TRUE
  /\ cap_checked' = [t \in CfgTypes |-> FALSE]
  /\ \/ /\ "super" \in SetupFaults
        /\ stage' = "start_failed"
        /\ UNCHANGED <<num_sources, vector>>
     \/ /\ msi_vectors > 0
        /\ num_sources' = msi_vectors /\ vector' = 1
        /\ stage' = "setup_vectors"
     \/ /\ msi_vectors = 0
        /\ stage' = "setup_pin"
        /\ UNCHANGED <<num_sources, vector>>
  /\ UNCHANGED <<first, memoryVars, irqVars, sources, workloops, irq_source,
                 irq_workloop>>

(* One turn of the loop over the vectors in setupInterruptHandlers.        *)
SetupVector ==
  /\ stage = "setup_vectors"
  /\ \/ /\ vector > num_sources
        /\ stage' = "running"
        /\ UNCHANGED <<sources, workloops, vector>>
     \/ /\ vector <= num_sources /\ "source" \in SetupFaults
        /\ stage' = "start_gives_up"
        /\ UNCHANGED <<sources, workloops, vector>>
     \/ /\ vector <= num_sources /\ "workloop" \in SetupFaults
        /\ sources' = [sources EXCEPT ![vector] = "created"]
        /\ stage' = "start_gives_up"
        /\ UNCHANGED <<workloops, vector>>
     \/ /\ vector <= num_sources
        /\ sources' = [sources EXCEPT ![vector] = "enabled"]
        /\ workloops' = [workloops EXCEPT ![vector] = "created"]
        /\ vector' = vector + 1
        /\ UNCHANGED stage
  /\ UNCHANGED <<spaceVars, walkVars, memoryVars, irqVars, num_sources,
                 irq_source, irq_workloop>>

(* The pin-based interrupt, when there are no vectors.                     *)
SetupPin ==
  /\ stage = "setup_pin"
  /\ \/ /\ "source" \in SetupFaults
        /\ stage' = "start_gives_up"
        /\ UNCHANGED <<irq_source, irq_workloop>>
     \/ /\ "workloop" \in SetupFaults
        /\ irq_source' = "created"
        /\ stage' = "start_gives_up"
        /\ UNCHANGED irq_workloop
     \/ /\ irq_source' = "enabled" /\ irq_workloop' = "created"
        /\ stage' = "running"
  /\ UNCHANGED <<spaceVars, walkVars, memoryVars, irqVars, num_sources, sources,
                 workloops, vector>>

\* Mutated form: only sources that have a work loop are released.
ShutdownWithWorkloopOnly ==
  /\ sources' = [v \in Vectors |->
                   IF v <= num_sources /\ workloops[v] # "none" THEN "none" ELSE sources[v]]
  /\ workloops' = [v \in Vectors |-> IF v <= num_sources THEN "none" ELSE workloops[v]]
  /\ num_sources' = 0
  /\ IF num_sources = 0 /\ irq_workloop # "none"
     THEN irq_source' = "none" /\ irq_workloop' = "none"
     ELSE UNCHANGED <<irq_source, irq_workloop>>

(* shutdownInterruptHandlers.  A source is disabled and removed from its   *)
(* work loop if it has one, then both are released.                        *)
ShutdownInterruptHandlers ==
  /\ sources' = [v \in Vectors |-> IF v <= num_sources THEN "none" ELSE sources[v]]
  /\ workloops' = [v \in Vectors |-> IF v <= num_sources THEN "none" ELSE workloops[v]]
  /\ num_sources' = 0
  /\ IF num_sources = 0 /\ irq_workloop # "none"
     THEN irq_source' = "none" /\ irq_workloop' = "none"
     ELSE UNCHANGED <<irq_source, irq_workloop>>

(* stop, from the I/O Kit or from a start that gives up.                   *)
Stop ==
  /\ stage \in {"running", "start_gives_up"}
  /\ ShutdownInterruptHandlers
  /\ stage' = IF stage = "running" THEN "stopped" ELSE "start_failed"
  /\ UNCHANGED <<spaceVars, walkVars, memoryVars, irqVars, vector>>

(* The driver object is not used again.                                    *)
Gone ==
  /\ stage \in {"rejected", "start_failed", "stopped"}
  /\ UNCHANGED pciVars

-----------------------------------------------------------------------------
Probe == ProbeBegins \/ WalkStep \/ ProbeEnds
StartAndStop == StartBegins \/ SetupVector \/ SetupPin \/ Stop

PCINext == Probe \/ StartAndStop \/ Gone

(* The thread that probes and starts is not held up by anyone; the driver  *)
(* may run for ever.                                                       *)
PCIFairness == WF_pciVars(Probe)

PCISpec == PCIInit /\ [][PCINext]_pciVars /\ PCIFairness

-----------------------------------------------------------------------------
(* A reference for the walk: the offsets on the list, by following the     *)
(* links that were read as often as there are offsets.  The first offset   *)
(* is followed whatever it is.                                             *)
OnList[n \in 0 .. NumCaps + 2] ==
  IF n = 0 THEN first
  ELSE LET o == OnList[n - 1] IN
       IF o = 0 \/ (o = Bad /\ n > 1) THEN o ELSE next_offset[o]

ListEnds == first # 0 /\ OnList[NumCaps + 2] = 0

ListedContents ==
  UNION {contents[OnList[n]] : n \in {k \in 0 .. NumCaps + 2 : OnList[k] \in Offsets}}

(* probe accepts a device exactly if its capability list really ends       *)
(* (however it is tied into a cycle) and it has an interrupt; it has then  *)
(* seen every capability, notes a structure type exactly if the list holds *)
(* a usable structure of it, and leaves memory access as it found it.      *)
ProbeIsRight ==
  stage \in {"accepted", "rejected"} =>
    /\ stage = "accepted" <=> ListEnds /\ (msi_vectors > 0 \/ irq_pin)
    /\ \A t \in CfgTypes :
         cap_checked[t] <=> \E cap \in ListedContents :
                              IsVirtioStructure(cap) /\ cap.cfg_type = t /\ Usable(cap)
    /\ memory_enable = memory_enable_reset

(* The walk over the capability list comes to an end, whatever links the   *)
(* configuration space holds: the half-speed trail catches every cycle.    *)
WalkEnds == stage = "walk" ~> stage # "walk"

(* However far start came before it failed, and also after a normal stop,  *)
(* no event source and no work loop is left.  The one exception is the     *)
(* pin's event source if its work loop could not be created, which         *)
(* shutdownInterruptHandlers does not look at.                             *)
HandlersTakenDown ==
  stage \in {"start_failed", "stopped"} =>
    /\ \A v \in Vectors : sources[v] = "none" /\ workloops[v] = "none"
    /\ num_sources = 0 /\ irq_workloop = "none"
    /\ irq_source # "none" => irq_source = "created"

=============================================================================
