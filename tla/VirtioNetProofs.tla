--------------------------- MODULE VirtioNetProofs ---------------------------
(***************************************************************************)
(* Proofs about the two modules of the Ethernet driver: NetworkInterface,  *)
(* for every size of the virtqueues and of the output queue, and           *)
(* MemoryDescriptors, for any page size, any mbuf chains and any buffers.  *)
(*                                                                         *)
(* For the first, one inductive invariant says in which states of the      *)
(* driver each client may be active; the three properties follow from it.  *)
(* For the second, most of the work is in where a byte lies: the sums of   *)
(* the lengths before it, and what the walks over mbufs and ranges find.   *)
(***************************************************************************)
EXTENDS NetworkInterface, MemoryDescriptors, FiniteSetTheorems, WellFoundedInduction, TLAPS

-----------------------------------------------------------------------------
(* The driver and its clients *)

States == {"Initial", "Started", "StartFailed", "Stopped", "Enabled",
           "EnabledDebugging", "EnabledBoth", "EnableFailed"}

Types ==
  /\ driver_state \in States
  /\ call \in {"none", "starting", "stopping"}
  /\ device \in {"closed", "open", "running"}
  /\ debugger \in BOOLEAN /\ debugger_enabled \in BOOLEAN
  /\ debugger_transmit_packet \in {"none", "idle", "queued", "sent"}
  /\ debugger_transmit_packet_in_use \in BOOLEAN

CountTypes == capacity \in Nat /\ backlog \in Nat

(* The debugger is enabled only in the states that say so, or in           *)
(* EnableFailed when it was the interface that failed.                     *)
DebuggerKnown ==
  debugger_enabled = TRUE =>
    driver_state \in {"EnabledDebugging", "EnabledBoth", "EnableFailed"} /\ device = "running"

(* The output queue takes and holds packets only for an enabled interface. *)
QueueKnown ==
  capacity # 0 \/ backlog # 0 => driver_state \in {"Enabled", "EnabledBoth"}

(* While stop is under way neither client is there any more.               *)
StopKnown ==
  call = "stopping" =>
    /\ debugger = FALSE /\ debugger_enabled = FALSE
    /\ driver_state \notin {"Enabled", "EnabledBoth"}

Quiet == device # "running" => interrupts = {}

PacketKnown == debugger_transmit_packet = "queued" => debugger_transmit_packet_in_use = TRUE

IInv ==
  /\ Types /\ CountTypes /\ DeviceMatchesState
  /\ DebuggerKnown /\ QueueKnown /\ StopKnown /\ Quiet /\ PacketKnown

-----------------------------------------------------------------------------
(* The initial state: nothing is open, enabled or queued.                  *)
LEMMA InitEstablishes == Init => IInv
<1> SUFFICES ASSUME Init PROVE IInv
  OBVIOUS
<1>1. Types
  BY Zenon DEF Init, Types, States
<1>2. DeviceMatchesState
  BY Zenon DEF Init, DeviceMatchesState
<1>3. DebuggerKnown /\ StopKnown /\ Quiet /\ PacketKnown
  BY Zenon DEF Init, DebuggerKnown, StopKnown, Quiet, PacketKnown
<1>4. CountTypes /\ QueueKnown
  BY DEF Init, CountTypes, QueueKnown
<1> QED
  BY <1>1, <1>2, <1>3, <1>4 DEF IInv

(* Every step keeps the invariant; start, enable, disable and stop are the *)
(* ones that move driver_state.                                            *)
LEMMA StepPreserves == IInv /\ [Next]_vars => IInv'
<1> SUFFICES ASSUME IInv, [Next]_vars PROVE IInv'
  OBVIOUS
<1> USE DEF IInv, Types, CountTypes, States, DeviceMatchesState, DebuggerKnown,
     QueueKnown, StopKnown, Quiet, PacketKnown, stateVars, rxVars, txVars, queueVars,
     packetVars, debuggerVars
<1>1. CASE Start
  <2>1. Types' /\ DebuggerKnown' /\ StopKnown'
    BY <1>1, ZenonT(60) DEF Start
  <2>2. CountTypes' /\ QueueKnown'
    BY <1>1, SizesAssumption, SMTT(60) DEF Start
  <2>3. DeviceMatchesState' /\ Quiet' /\ PacketKnown'
    BY <1>1, ZenonT(60) DEF Start
  <2> QED
    BY <2>1, <2>2, <2>3
<1>2. CASE StartDebugger
  <2>1. Types' /\ DebuggerKnown' /\ StopKnown'
    BY <1>2, ZenonT(60) DEF StartDebugger
  <2>2. CountTypes' /\ QueueKnown'
    BY <1>2, SizesAssumption, SMTT(60) DEF StartDebugger
  <2>3. DeviceMatchesState' /\ Quiet' /\ PacketKnown'
    BY <1>2, ZenonT(60) DEF StartDebugger
  <2> QED
    BY <2>1, <2>2, <2>3
<1>3. CASE GatedEnableDebugger
  <2>1. Types' /\ DebuggerKnown' /\ StopKnown'
    BY <1>3, ZenonT(60) DEF GatedEnableDebugger, EnablePartial, EnablePartialFails
  <2>2. CountTypes' /\ QueueKnown'
    BY <1>3, SizesAssumption, SMTT(60) DEF GatedEnableDebugger, EnablePartial,
       EnablePartialFails
  <2>3. DeviceMatchesState' /\ Quiet' /\ PacketKnown'
    BY <1>3, ZenonT(60) DEF GatedEnableDebugger, EnablePartial, EnablePartialFails
  <2> QED
    BY <2>1, <2>2, <2>3
<1>4. CASE GatedEnableInterface
  <2>1. Types' /\ DebuggerKnown' /\ StopKnown'
    BY <1>4, ZenonT(60) DEF GatedEnableInterface, EnablePartial, EnablePartialFails,
       InterfaceAttached
  <2>2. CountTypes' /\ QueueKnown'
    BY <1>4, SizesAssumption, SMTT(60) DEF GatedEnableInterface, EnablePartial,
       EnablePartialFails, InterfaceAttached
  <2>3. DeviceMatchesState' /\ Quiet' /\ PacketKnown'
    BY <1>4, ZenonT(60) DEF GatedEnableInterface, EnablePartial, EnablePartialFails,
       InterfaceAttached
  <2> QED
    BY <2>1, <2>2, <2>3
<1>5. CASE DisableDebugger
  <2>1. Types' /\ DebuggerKnown' /\ StopKnown'
    BY <1>5, ZenonT(60) DEF DisableDebugger, DisablePartial, ClearStall
  <2>2. CountTypes' /\ QueueKnown'
    BY <1>5, SizesAssumption, SMTT(60) DEF DisableDebugger, DisablePartial, ClearStall
  <2>3. DeviceMatchesState' /\ Quiet' /\ PacketKnown'
    BY <1>5, ZenonT(60) DEF DisableDebugger, DisablePartial, ClearStall
  <2> QED
    BY <2>1, <2>2, <2>3
<1>6. CASE DisableInterface
  <2>1. Types' /\ DebuggerKnown' /\ StopKnown'
    BY <1>6, ZenonT(60) DEF DisableInterface, Disable, DisablePartial, ClearStall,
       InterfaceAttached
  <2>2. CountTypes' /\ QueueKnown'
    BY <1>6, SizesAssumption, SMTT(60) DEF DisableInterface, Disable, DisablePartial,
       ClearStall, InterfaceAttached
  <2>3. DeviceMatchesState' /\ Quiet' /\ PacketKnown'
    BY <1>6, ZenonT(60) DEF DisableInterface, Disable, DisablePartial, ClearStall,
       InterfaceAttached
  <2> QED
    BY <2>1, <2>2, <2>3
<1>7. CASE Enqueue
  <2>1. Types' /\ DebuggerKnown' /\ StopKnown'
    BY <1>7, ZenonT(60) DEF Enqueue
  <2>2. CountTypes' /\ QueueKnown'
    BY <1>7, SizesAssumption, SMTT(60) DEF Enqueue
  <2>3. DeviceMatchesState' /\ Quiet' /\ PacketKnown'
    BY <1>7, ZenonT(60) DEF Enqueue
  <2> QED
    BY <2>1, <2>2, <2>3
<1>8. CASE OutputPacket
  <2>0. driver_state \in {"Enabled", "EnabledBoth"} /\ device = "running"
    BY <1>8, SMTT(60) DEF OutputPacket
  <2>1. Types' /\ DebuggerKnown' /\ StopKnown'
    BY <2>0, <1>8, ZenonT(60) DEF OutputPacket, ReleaseSent, ClearStall
  <2>2. CountTypes' /\ QueueKnown'
    BY <2>0, <1>8, SizesAssumption, SMTT(60) DEF OutputPacket, ReleaseSent, ClearStall
  <2>3. DeviceMatchesState' /\ Quiet' /\ PacketKnown'
    BY <2>0, <1>8, ZenonT(60) DEF OutputPacket, ReleaseSent, ClearStall
  <2> QED
    BY <2>1, <2>2, <2>3
<1>9. CASE DeviceWorks
  <2>1. Types' /\ DebuggerKnown' /\ StopKnown'
    BY <1>9, ZenonT(60) DEF DeviceWorks
  <2>2. CountTypes' /\ QueueKnown'
    BY <1>9, SizesAssumption, SMTT(60) DEF DeviceWorks
  <2>3. DeviceMatchesState' /\ Quiet' /\ PacketKnown'
    BY <1>9, ZenonT(60) DEF DeviceWorks
  <2> QED
    BY <2>1, <2>2, <2>3
<1>10. CASE TransmitInterrupt
  <2>1. Types' /\ DebuggerKnown' /\ StopKnown'
    BY <1>10, ZenonT(60) DEF TransmitInterrupt, TransmitCompletions
  <2>2. CountTypes' /\ QueueKnown'
    BY <1>10, SizesAssumption, SMTT(60) DEF TransmitInterrupt, TransmitCompletions
  <2>3. DeviceMatchesState' /\ Quiet' /\ PacketKnown'
    BY <1>10, ZenonT(60) DEF TransmitInterrupt, TransmitCompletions
  <2> QED
    BY <2>1, <2>2, <2>3
<1>11. CASE ReceiveInterrupt
  <2>1. Types' /\ DebuggerKnown' /\ StopKnown'
    BY <1>11, ZenonT(60) DEF ReceiveInterrupt
  <2>2. CountTypes' /\ QueueKnown'
    BY <1>11, SizesAssumption, SMTT(60) DEF ReceiveInterrupt
  <2>3. DeviceMatchesState' /\ Quiet' /\ PacketKnown'
    BY <1>11, ZenonT(60) DEF ReceiveInterrupt
  <2> QED
    BY <2>1, <2>2, <2>3
<1>12. CASE ReceivePacket
  <2>1. Types' /\ DebuggerKnown' /\ StopKnown'
    BY <1>12, ZenonT(60) DEF ReceivePacket
  <2>2. CountTypes' /\ QueueKnown'
    BY <1>12, SizesAssumption, SMTT(60) DEF ReceivePacket
  <2>3. DeviceMatchesState' /\ Quiet' /\ PacketKnown'
    BY <1>12, ZenonT(60) DEF ReceivePacket
  <2> QED
    BY <2>1, <2>2, <2>3
<1>13. CASE SendPacket
  <2>1. Types' /\ DebuggerKnown' /\ StopKnown'
    BY <1>13, ZenonT(60) DEF SendPacket, StillInUse
  <2>2. CountTypes' /\ QueueKnown'
    BY <1>13, SizesAssumption, SMTT(60) DEF SendPacket, StillInUse
  <2>3. DeviceMatchesState' /\ Quiet' /\ PacketKnown'
    BY <1>13, ZenonT(60) DEF SendPacket, StillInUse
  <2> QED
    BY <2>1, <2>2, <2>3
<1>14. CASE StopClients
  <2>1. Types' /\ DebuggerKnown' /\ StopKnown'
    BY <1>14, ZenonT(60) DEF StopClients, ClearStall
  <2>2. CountTypes' /\ QueueKnown'
    BY <1>14, SizesAssumption, SMTT(60) DEF StopClients, ClearStall
  <2>3. DeviceMatchesState' /\ Quiet' /\ PacketKnown'
    BY <1>14, ZenonT(60) DEF StopClients, ClearStall
  <2> QED
    BY <2>1, <2>2, <2>3
<1>15. CASE StopDevice
  <2>1. Types' /\ DebuggerKnown' /\ StopKnown'
    BY <1>15, ZenonT(60) DEF StopDevice, DisablePartial, ClearStall
  <2>2. CountTypes' /\ QueueKnown'
    BY <1>15, SizesAssumption, SMTT(60) DEF StopDevice, DisablePartial, ClearStall
  <2>3. DeviceMatchesState' /\ Quiet' /\ PacketKnown'
    BY <1>15, ZenonT(60) DEF StopDevice, DisablePartial, ClearStall
  <2> QED
    BY <2>1, <2>2, <2>3
<1>16. CASE UNCHANGED vars
  <2>1. Types' /\ DebuggerKnown' /\ StopKnown'
    BY <1>16, ZenonT(60) DEF vars
  <2>2. CountTypes' /\ QueueKnown'
    BY <1>16, SizesAssumption, SMTT(60) DEF vars
  <2>3. DeviceMatchesState' /\ Quiet' /\ PacketKnown'
    BY <1>16, ZenonT(60) DEF vars
  <2> QED
    BY <2>1, <2>2, <2>3
<1> QED
  BY <1>1, <1>2, <1>3, <1>4, <1>5, <1>6, <1>7, <1>8, <1>9, <1>10, <1>11, <1>12, <1>13,
     <1>14, <1>15, <1>16, Zenon DEF Next

(* The invariant holds in every reachable state.                           *)
THEOREM Invariance == Spec => []IInv
  BY InitEstablishes, StepPreserves, PTL DEF Spec

(* In whatever order the interface and the debugger are enabled, disabled  *)
(* and stopped, the device runs exactly when driver_state says so.         *)
THEOREM DeviceAlwaysMatchesState == Spec => []DeviceMatchesState
<1>1. IInv => DeviceMatchesState
  BY DEF IInv
<1> QED
  BY <1>1, Invariance, PTL

(* outputPacket never meets a device that does not run, whatever the size  *)
(* of the output queue and whenever a stall is cleared.                    *)
THEOREM OutputAlwaysToRunningDevice == Spec => []OutputOnlyWhenRunning
<1>1. IInv => OutputOnlyWhenRunning
  BY DEF IInv, Types, QueueKnown, DeviceMatchesState, OutputOnlyWhenRunning
<1> QED
  BY <1>1, Invariance, PTL

(* sendPacket never writes the reserved packet while the device has it.    *)
THEOREM DebuggerPacketAlwaysStable == Spec => DebuggerPacketStable
<1>1. IInv /\ [Next]_vars => [debugger_transmit_packet = "queued" => UNCHANGED packet_data]_vars
  <2> SUFFICES ASSUME IInv, Next, debugger_transmit_packet = "queued"
               PROVE  packet_data' = packet_data
    OBVIOUS
  <2>1. CASE SendPacket
    BY <2>1 DEF SendPacket, StillInUse, IInv, Types, PacketKnown, packetVars
  <2>2. CASE ~SendPacket
    BY <2>2 DEF Next, Start, StartDebugger, GatedEnableDebugger, GatedEnableInterface,
       DisableDebugger, DisableInterface, Enqueue, OutputPacket, DeviceWorks,
       TransmitInterrupt, TransmitCompletions, ReceiveInterrupt, ReceivePacket,
       StopClients, StopDevice, packetVars
  <2> QED
    BY <2>1, <2>2
<1> QED
  BY <1>1, Invariance, PTL DEF Spec, DebuggerPacketStable

-----------------------------------------------------------------------------
(* Memory descriptors: sums *)

(* A set of numbers has a smallest member.                                 *)
LEMMA SmallestExists ==
  ASSUME NEW T \in SUBSET Nat, T # {}
  PROVE  \E x \in T : \A y \in T : x <= y
<1> DEFINE R == OpToRel(<, Nat)
<1>1. IsWellFoundedOn(R, Nat)
  BY NatLessThanWellFounded, Zenon
<1>2. \A a, b \in Nat : a < b => <<a, b>> \in R
  BY DEF OpToRel
<1> HIDE DEF R
<1>3. PICK x \in T : \A y \in T : ~ (<<y, x>> \in R)
  BY <1>1, WFMin, Zenon
<1>4. \A y \in T : x <= y
  <2> TAKE y \in T
  <2>1. x \in Nat /\ y \in Nat
    OBVIOUS
  <2>2. ~(y < x)
    BY <1>2, <1>3, <2>1, Zenon
  <2> QED
    BY <2>1, <2>2
<1> QED
  BY <1>4

SumStep(f, w, i, n) == IF n < i THEN 0 ELSE f[n - 1] + w[n]
IsSum(f, w, i, j) == f = [n \in 0 .. j |-> SumStep(f, w, i, n)]

(* The recursion behind Total has a solution.                              *)
LEMMA SumExists ==
  ASSUME NEW w, NEW i \in Nat \ {0}, NEW j \in Nat
  PROVE  \E f : IsSum(f, w, i, j)
<1> DEFINE Upto(f, m) == \A k \in 0 .. j : k <= m => f[k] = SumStep(f, w, i, k)
           Bad == {m \in Nat : m <= j /\ \A f : f = [k \in 0 .. j |-> f[k]] => ~Upto(f, m)}
<1>1. Bad = {}
  <2> SUFFICES ASSUME Bad # {} PROVE FALSE
    OBVIOUS
  <2>1. PICK m \in Bad : \A y \in Bad : m <= y
    <3>1. Bad \in SUBSET Nat
      OBVIOUS
    <3> HIDE DEF Bad
    <3> QED
      BY <3>1, SmallestExists, Zenon
  <2>2. m \in Nat /\ m <= j
    OBVIOUS
  <2>3. m # 0
    <3> DEFINE g == [k \in 0 .. j |-> 0]
    <3>1. Upto(g, 0)
      BY DEF SumStep
    <3>2. g = [k \in 0 .. j |-> g[k]]
      OBVIOUS
    <3> HIDE DEF g, Upto
    <3> QED
      BY <3>1, <3>2
  <2>4. PICK l \in 0 .. j : l = m - 1 /\ l \in Nat
    BY <2>2, <2>3
  <2>5. l \notin Bad
    <3> HIDE DEF Bad
    <3> QED
      BY <2>1, <2>2, <2>4
  <2>6. PICK f : f = [k \in 0 .. j |-> f[k]] /\ Upto(f, l)
    <3> HIDE DEF Upto
    <3> QED
      BY <2>4, <2>5
  <2> DEFINE h == [k \in 0 .. j |-> IF k <= l THEN f[k] ELSE SumStep(f, w, i, k)]
  <2>7. Upto(h, m)
    <3> SUFFICES ASSUME NEW k \in 0 .. j, k <= m PROVE h[k] = SumStep(h, w, i, k)
      BY Zenon
    <3>1. h[k] = SumStep(f, w, i, k)
      BY <2>6, Zenon
    <3>2. k < i \/ h[k - 1] = f[k - 1]
      <4> SUFFICES ASSUME ~(k < i) PROVE h[k - 1] = f[k - 1]
        OBVIOUS
      <4>1. PICK p \in 0 .. j : p = k - 1 /\ p <= l
        BY <2>2, <2>4
      <4> QED
        BY <4>1
    <3> HIDE DEF h
    <3> QED
      BY <3>1, <3>2, Zenon DEF SumStep
  <2>8. h = [k \in 0 .. j |-> h[k]]
    OBVIOUS
  <2> HIDE DEF h, Upto
  <2> QED
    BY <2>7, <2>8
<1>2. PICK f : f = [k \in 0 .. j |-> f[k]] /\ Upto(f, j)
  <2> HIDE DEF Upto
  <2> QED
    BY <1>1, SMTT(60)
<1>3. \A k \in 0 .. j : f[k] = SumStep(f, w, i, k)
  BY <1>2
<1>4. f = [k \in 0 .. j |-> SumStep(f, w, i, k)]
  BY <1>2, <1>3
<1> QED
  BY <1>4, Zenon DEF IsSum

(* Solutions agree where they are both defined, and are numbers.           *)
LEMMA SumsAgree ==
  ASSUME NEW w, NEW i \in Nat \ {0}, NEW j \in Nat, NEW l \in 0 .. j, NEW f, NEW g,
         IsSum(f, w, i, j), IsSum(g, w, i, l), \A k \in i .. l : w[k] \in Nat
  PROVE  f[l] = g[l] /\ f[l] \in Nat
<1> DEFINE Bad == {m \in Nat : m <= l /\ ~(f[m] = g[m] /\ f[m] \in Nat)}
<1>1. \A m \in 0 .. l : f[m] = SumStep(f, w, i, m) /\ g[m] = SumStep(g, w, i, m)
  <2> TAKE m \in 0 .. l
  <2>1. m \in 0 .. j
    OBVIOUS
  <2> QED
    BY <2>1, Zenon DEF IsSum
<1>2. Bad = {}
  <2> SUFFICES ASSUME Bad # {} PROVE FALSE
    OBVIOUS
  <2>1. PICK m \in Bad : \A y \in Bad : m <= y
    <3>1. Bad \in SUBSET Nat
      OBVIOUS
    <3> HIDE DEF Bad
    <3> QED
      BY <3>1, SmallestExists, Zenon
  <2>2. m \in 0 .. l /\ ~(f[m] = g[m] /\ f[m] \in Nat)
    OBVIOUS
  <2>3. CASE m < i
    BY <1>1, <2>2, <2>3 DEF SumStep
  <2>4. CASE ~(m < i)
    <3>1. PICK p \in 0 .. l : p = m - 1 /\ p \in Nat /\ p < m /\ m \in i .. l
      BY <2>2, <2>4
    <3>2. p \notin Bad
      <4> HIDE DEF Bad
      <4> QED
        BY <2>1, <2>2, <3>1
    <3>3. f[p] = g[p] /\ f[p] \in Nat
      BY <3>1, <3>2
    <3>4. f[m] = f[p] + w[m] /\ g[m] = g[p] + w[m] /\ w[m] \in Nat
      BY <1>1, <2>2, <2>4, <3>1, Zenon DEF SumStep
    <3> QED
      BY <2>2, <3>3, <3>4
  <2> QED
    BY <2>3, <2>4, Zenon
<1>3. l \in Nat /\ l <= l
  OBVIOUS
<1> QED
  BY <1>2, <1>3

(* Sums, one summand more.                                                 *)
LEMMA IntervalTotal ==
  ASSUME NEW i \in Nat \ {0}, NEW j \in Nat, NEW w, \A k \in i .. j : w[k] \in Nat
  PROVE  /\ Total(w, i, j) \in Nat
         /\ j < i => Total(w, i, j) = 0
         /\ i <= j => /\ Total(w, i, j - 1) \in Nat
                      /\ Total(w, i, j) = Total(w, i, j - 1) + w[j]
<1>1. ASSUME NEW l \in Nat
      PROVE  \E f : IsSum(f, w, i, l) /\ Total(w, i, l) = f[l]
  <2> DEFINE f == CHOOSE g : IsSum(g, w, i, l)
  <2>1. IsSum(f, w, i, l)
    BY SumExists, Zenon
  <2>2. Total(w, i, l) = f[l]
    BY Zenon DEF Total, IsSum, SumStep
  <2> QED
    BY <2>1, <2>2, Zenon
<1>2. PICK f : IsSum(f, w, i, j) /\ Total(w, i, j) = f[j]
  BY <1>1, Zenon
<1>3. j \in 0 .. j
  OBVIOUS
<1>4. f[j] \in Nat
  BY ONLY <1>2, <1>3, i \in Nat \ {0}, j \in Nat, \A k \in i .. j : w[k] \in Nat, SumsAgree, Zenon
<1>5. f[j] = SumStep(f, w, i, j)
  BY <1>2, <1>3 DEF IsSum
<1>6. CASE j < i
  BY <1>2, <1>4, <1>5, <1>6 DEF SumStep
<1>7. CASE i <= j
  <2>1. PICK l \in 0 .. j : l = j - 1 /\ l \in Nat /\ ~(j < i) /\ \A k \in i .. l : w[k] \in Nat
    BY <1>7
  <2>2. PICK g : IsSum(g, w, i, l) /\ Total(w, i, l) = g[l]
    BY <1>1, <2>1, Zenon
  <2>3. f[l] = g[l] /\ f[l] \in Nat
    BY ONLY <1>2, <2>1, <2>2, i \in Nat \ {0}, j \in Nat, l \in 0 .. j, SumsAgree, Zenon
  <2>4. f[j] = f[l] + w[j]
    BY <1>5, <2>1, Zenon DEF SumStep
  <2>5. Total(w, i, j) \in Nat /\ Total(w, i, j - 1) \in Nat
        /\ Total(w, i, j) = Total(w, i, j - 1) + w[j]
    BY <1>2, <1>4, <2>1, <2>2, <2>3, <2>4, Zenon
  <2> QED
    BY <1>7, <2>1, <2>5, Zenon
<1> QED
  BY <1>6, <1>7

(* And in two parts.                                                       *)
LEMMA IntervalSplit ==
  ASSUME NEW n \in Nat, NEW w, \A k \in 1 .. n : w[k] \in Nat,
         NEW i \in 1 .. n + 1, NEW j \in i - 1 .. n
  PROVE  /\ Total(w, 1, j) = Total(w, 1, i - 1) + Total(w, i, j)
         /\ Total(w, 1, i - 1) \in Nat /\ Total(w, i, j) \in Nat /\ Total(w, 1, j) \in Nat
<1> DEFINE A(a, b) == Total(w, a, b)
           Bad == {m \in Nat : m >= i - 1 /\ m <= n /\ A(1, m) # A(1, i - 1) + A(i, m)}
<1>1. \A a \in 1 .. n + 1, b \in 0 .. n :
        /\ A(a, b) \in Nat /\ (b < a => A(a, b) = 0)
        /\ (a <= b => A(a, b) = A(a, b - 1) + w[b])
  <2> TAKE a \in 1 .. n + 1, b \in 0 .. n
  <2>1. \A k \in a .. b : w[k] \in Nat
    OBVIOUS
  <2>2. a \in Nat \ {0} /\ b \in Nat
    OBVIOUS
  <2> QED
    BY ONLY <2>1, <2>2, IntervalTotal
<1> HIDE DEF A
<1>2. Bad = {}
  <2> SUFFICES ASSUME Bad # {} PROVE FALSE
    OBVIOUS
  <2>1. PICK m \in Bad : \A y \in Bad : m <= y
    <3>1. Bad \in SUBSET Nat
      OBVIOUS
    <3> HIDE DEF Bad
    <3> QED
      BY <3>1, SmallestExists
  <2>2. m \in i - 1 .. n /\ m \in Nat /\ A(1, m) # A(1, i - 1) + A(i, m)
    OBVIOUS
  <2>3. m # i - 1
    <3>1. \A b \in 0 .. n : b = i - 1 => A(i, b) = 0 /\ A(1, b) = A(1, b) + A(i, b)
      BY <1>1
    <3> QED
      BY <2>2, <3>1
  <2>4. PICK l \in 0 .. n : l = m - 1 /\ l \in Nat /\ l >= i - 1
    BY <2>2, <2>3
  <2>5. A(1, l) = A(1, i - 1) + A(i, l)
    <3>1. l \notin Bad
      <4> HIDE DEF Bad
      <4> QED
        BY <2>1, <2>2, <2>4
    <3> QED
      BY <2>4, <3>1
  <2>6. A(1, m) = A(1, l) + w[m] /\ A(i, m) = A(i, l) + w[m]
    BY <1>1, <2>2, <2>3, <2>4
  <2>7. A(1, l) \in Nat /\ A(i, l) \in Nat /\ A(1, i - 1) \in Nat /\ w[m] \in Nat
    BY <1>1, <2>2, <2>3, <2>4
  <2> QED
    BY <2>2, <2>5, <2>6, <2>7
<1>3. A(1, j) = A(1, i - 1) + A(i, j)
  BY <1>2
<1>4. A(1, i - 1) \in Nat /\ A(i, j) \in Nat /\ A(1, j) \in Nat
  BY <1>1
<1> QED
  BY <1>3, <1>4 DEF A

-----------------------------------------------------------------------------
(* Sequences one after the other *)

(* Two sequences one after the other.                                      *)
LEMMA Concatenation ==
  ASSUME NEW s \in Seq(Nat), NEW t \in Seq(Nat)
  PROVE  /\ s \o t \in Seq(Nat) /\ Len(s \o t) = Len(s) + Len(t)
         /\ \A k \in 1 .. Len(s) : (s \o t)[k] = s[k]
         /\ \A k \in 1 .. Len(t) : (s \o t)[Len(s) + k] = t[k]
  OBVIOUS

JoinStep(f, seqs, k) == IF k = 0 THEN <<>> ELSE f[k - 1] \o seqs[k]
IsJoin(f, seqs) == f = [n \in 0 .. Len(seqs) |-> JoinStep(f, seqs, n)]

(* The recursion behind Joined has a solution.                             *)
LEMMA JoinExists ==
  ASSUME NEW seqs \in Seq(Seq(Nat))
  PROVE  \E f : IsJoin(f, seqs)
<1> DEFINE n == Len(seqs)
           Upto(f, m) == \A k \in 0 .. n : k <= m => f[k] = JoinStep(f, seqs, k)
           Bad == {m \in Nat : m <= n /\ \A f : f = [k \in 0 .. n |-> f[k]] => ~Upto(f, m)}
<1>1. n \in Nat
  OBVIOUS
<1>2. Bad = {}
  <2> SUFFICES ASSUME Bad # {} PROVE FALSE
    OBVIOUS
  <2>1. PICK m \in Bad : \A y \in Bad : m <= y
    <3>1. Bad \in SUBSET Nat
      OBVIOUS
    <3> HIDE DEF Bad
    <3> QED
      BY <3>1, SmallestExists, Zenon
  <2>2. m \in Nat /\ m <= n
    OBVIOUS
  <2>3. m # 0
    <3> DEFINE g == [k \in 0 .. n |-> <<>>]
    <3>1. Upto(g, 0)
      <4> SUFFICES ASSUME NEW k \in 0 .. n, k <= 0 PROVE g[k] = JoinStep(g, seqs, k)
        BY Zenon
      <4>1. k = 0 /\ g[k] = <<>>
        BY <1>1
      <4> QED
        BY <4>1, Zenon DEF JoinStep
    <3>2. g = [k \in 0 .. n |-> g[k]]
      OBVIOUS
    <3> HIDE DEF g, Upto
    <3> QED
      BY <3>1, <3>2
  <2>4. PICK l \in 0 .. n : l = m - 1 /\ l \in Nat
    BY <1>1, <2>2, <2>3
  <2>5. l \notin Bad
    <3> HIDE DEF Bad
    <3> QED
      BY <2>1, <2>2, <2>4
  <2>6. PICK f : f = [k \in 0 .. n |-> f[k]] /\ Upto(f, l)
    <3> HIDE DEF Upto
    <3> QED
      BY <2>4, <2>5
  <2> DEFINE h == [k \in 0 .. n |-> IF k <= l THEN f[k] ELSE JoinStep(f, seqs, k)]
  <2>7. Upto(h, m)
    <3> SUFFICES ASSUME NEW k \in 0 .. n, k <= m PROVE h[k] = JoinStep(h, seqs, k)
      BY Zenon
    <3>1. h[k] = JoinStep(f, seqs, k)
      BY <2>6, Zenon
    <3>2. k # 0 => h[k - 1] = f[k - 1]
      <4> SUFFICES ASSUME k # 0 PROVE h[k - 1] = f[k - 1]
        OBVIOUS
      <4>1. PICK p \in 0 .. n : p = k - 1 /\ p <= l
        BY <1>1, <2>2, <2>4
      <4> QED
        BY <4>1
    <3> HIDE DEF h
    <3> QED
      BY <3>1, <3>2, Zenon DEF JoinStep
  <2>8. h = [k \in 0 .. n |-> h[k]]
    OBVIOUS
  <2> HIDE DEF h, Upto
  <2> QED
    BY <2>7, <2>8
<1>3. PICK f : f = [k \in 0 .. n |-> f[k]] /\ Upto(f, n)
  <2> HIDE DEF Upto
  <2> QED
    BY <1>1, <1>2, SMTT(60)
<1>4. \A k \in 0 .. n : f[k] = JoinStep(f, seqs, k)
  BY <1>1, <1>3
<1>5. f = [k \in 0 .. n |-> JoinStep(f, seqs, k)]
  BY <1>3, <1>4
<1> QED
  BY <1>5, Zenon DEF IsJoin

(* The lengths of the sequences that are joined.                           *)
Lengths(seqs) == [i \in 1 .. Len(seqs) |-> Len(seqs[i])]

(* What is joined: the length is the sum of the lengths, and every member  *)
(* is found behind those before it.                                        *)
LEMMA JoinedPlaces ==
  ASSUME NEW seqs \in Seq(Seq(Nat))
  PROVE  /\ Joined(seqs) \in Seq(Nat) /\ Len(Joined(seqs)) = Total(Lengths(seqs), 1, Len(seqs))
         /\ \A i \in 1 .. Len(seqs) : \A k \in 1 .. Len(seqs[i]) :
              Joined(seqs)[Total(Lengths(seqs), 1, i - 1) + k] = seqs[i][k]
<1> DEFINE n == Len(seqs)
           w == Lengths(seqs)
           f == CHOOSE g : IsJoin(g, seqs)
           A(j) == Total(w, 1, j)
           Right(m) ==
             /\ f[m] \in Seq(Nat) /\ Len(f[m]) = A(m)
             /\ \A i \in 1 .. m : \A k \in 1 .. Len(seqs[i]) : f[m][A(i - 1) + k] = seqs[i][k]
           Bad == {m \in Nat : m <= n /\ ~Right(m)}
<1>1. n \in Nat /\ \A i \in 1 .. n : seqs[i] \in Seq(Nat) /\ w[i] = Len(seqs[i]) /\ w[i] \in Nat
  BY DEF Lengths
<1>2. IsJoin(f, seqs)
  BY JoinExists
<1>3. Joined(seqs) = f[n]
  BY Zenon DEF Joined, IsJoin, JoinStep
<1>4. \A k \in 0 .. n : f[k] = JoinStep(f, seqs, k)
  BY <1>2, Zenon DEF IsJoin
<1> HIDE DEF f, w, n
<1>5. \A j \in 0 .. n : /\ A(j) \in Nat /\ (j = 0 => A(j) = 0)
                        /\ j # 0 => A(j) = A(j - 1) + w[j]
  <2> TAKE j \in 0 .. n
  <2>1. \A k \in 1 .. j : w[k] \in Nat
    BY <1>1
  <2>2. j \in Nat /\ 1 \in Nat
    BY <1>1
  <2>3. /\ A(j) \in Nat /\ (j < 1 => A(j) = 0) /\ (1 <= j => A(j) = A(j - 1) + w[j])
    BY ONLY <2>1, <2>2, IntervalTotal
  <2> QED
    BY <2>2, <2>3
<1>6. \A i \in 1 .. n : \A j \in i .. n : A(i) <= A(j)
  <2> TAKE i \in 1 .. n
  <2> TAKE j \in i .. n
  <2>1. PICK a : a = i + 1
    BY Zenon
  <2>2. a \in 1 .. n + 1 /\ j \in a - 1 .. n /\ a - 1 = i
    BY <1>1, <2>1
  <2>3. \A k \in 1 .. n : w[k] \in Nat
    BY <1>1
  <2>4. /\ Total(w, 1, j) = Total(w, 1, a - 1) + Total(w, a, j)
        /\ Total(w, 1, a - 1) \in Nat /\ Total(w, a, j) \in Nat
    BY ONLY <1>1, <2>2, <2>3, IntervalSplit, Zenon
  <2> QED
    BY <2>2, <2>4
<1> HIDE DEF A
<1>7. Bad = {}
  <2> SUFFICES ASSUME Bad # {} PROVE FALSE
    OBVIOUS
  <2>1. PICK m \in Bad : \A y \in Bad : m <= y
    <3>1. Bad \in SUBSET Nat
      OBVIOUS
    <3> HIDE DEF Bad
    <3> QED
      BY <3>1, SmallestExists, Zenon
  <2>2. m \in Nat /\ m <= n /\ ~Right(m)
    OBVIOUS
  <2>3. m # 0
    <3>1. 0 \in 0 .. n
      BY <1>1
    <3>2. f[0] = <<>>
      BY <1>4, <3>1, Zenon DEF JoinStep
    <3>3. f[0] \in Seq(Nat) /\ Len(f[0]) = 0
      BY <3>2
    <3>4. A(0) = 0
      BY <1>5, <3>1
    <3>5. Right(0)
      BY <3>3, <3>4
    <3> QED
      BY <2>2, <3>5, Zenon
  <2>4. PICK l \in 0 .. n : l = m - 1 /\ l \in Nat
    BY <1>1, <2>2, <2>3
  <2>5. Right(l)
    <3>1. l \notin Bad
      <4> HIDE DEF Bad
      <4> QED
        BY <2>1, <2>2, <2>4
    <3> HIDE DEF Right
    <3> QED
      BY <2>4, <3>1
  <2>6. f[m] = f[l] \o seqs[m] /\ seqs[m] \in Seq(Nat)
    <3>1. m \in 0 .. n /\ m \in 1 .. n
      BY <1>1, <2>2, <2>3
    <3> QED
      BY <1>1, <1>4, <2>3, <2>4, <3>1, Zenon DEF JoinStep
  <2>7. A(m) = A(l) + Len(seqs[m]) /\ A(l) \in Nat
    BY <1>1, <1>5, <2>2, <2>3, <2>4
  <2>8. PICK s \in Seq(Nat), t \in Seq(Nat) : s = f[l] /\ t = seqs[m] /\ f[m] = s \o t
    BY <2>5, <2>6, Zenon
  <2>9. Len(s) = A(l) /\ \A i \in 1 .. l : \A k \in 1 .. Len(seqs[i]) : s[A(i - 1) + k] = seqs[i][k]
    BY <2>5, <2>8, Zenon
  <2> HIDE DEF Bad
  <2>10. f[m] \in Seq(Nat) /\ Len(f[m]) = A(m)
    <3>1. s \o t \in Seq(Nat) /\ Len(s \o t) = Len(s) + Len(t)
      BY Concatenation
    <3> QED
      BY <2>7, <2>8, <2>9, <3>1, Zenon
  <2>11. ASSUME NEW i \in 1 .. m, NEW k \in 1 .. Len(seqs[i])
         PROVE  f[m][A(i - 1) + k] = seqs[i][k]
    <3>1. PICK h \in 0 .. n : h = i - 1
      BY <1>1, <2>2
    <3>2. A(h) \in Nat /\ A(i) = A(h) + Len(seqs[i]) /\ Len(seqs[i]) \in Nat
      <4>1. i \in 0 .. n /\ i \in 1 .. n /\ i # 0
        BY <1>1, <2>2
      <4>2. w[i] = Len(seqs[i]) /\ w[i] \in Nat
        BY <1>1, <4>1, Zenon
      <4>3. A(i) = A(h) + w[i] /\ A(h) \in Nat
        BY <1>5, <3>1, <4>1, Zenon
      <4> QED
        BY <4>2, <4>3, Zenon
    <3>3. PICK a \in Nat : a = A(h)
      BY <3>2
    <3>4. CASE i = m
      <4>1. h = l
        BY <2>4, <3>1, <3>4
      <4>2. Len(s) = a /\ k \in 1 .. Len(t)
        BY <2>8, <2>9, <3>3, <3>4, <4>1
      <4>3. f[m][a + k] = t[k]
        <5>1. (s \o t)[Len(s) + k] = t[k]
          BY <4>2, Concatenation, Zenon
        <5> QED
          BY <2>8, <4>2, <5>1, Zenon
      <4> QED
        BY <2>8, <3>1, <3>3, <3>4, <4>3, Zenon
    <3>5. CASE i # m
      <4>1. i \in 1 .. l /\ i \in 1 .. n /\ l \in i .. n
        BY <1>1, <2>2, <2>4, <3>5
      <4>2. A(i) <= A(l)
        BY <1>6, <4>1
      <4>3. a + k \in 1 .. Len(s)
        <5>1. Len(s) = A(l)
          BY <2>9, Zenon
        <5>2. PICK b \in Nat : b = Len(seqs[i])
          BY <3>2, Zenon
        <5>3. a + b <= Len(s) /\ k \in 1 .. b
          BY <3>2, <3>3, <4>2, <5>1, <5>2, Zenon
        <5> QED
          BY <5>2, <5>3
      <4>4. f[m][a + k] = s[a + k]
        BY <2>8, <4>3
      <4> QED
        BY <2>9, <3>1, <3>3, <4>1, <4>4
    <3> QED
      BY <3>4, <3>5
  <2> QED
    BY <2>2, <2>10, <2>11
<1>8. Right(n)
  <2> HIDE DEF Right
  <2> QED
    BY <1>1, <1>7
<1> QED
  BY <1>3, <1>8 DEF A, w, n

-----------------------------------------------------------------------------
(* Lengths of chains and of ranges *)

MbufLengths(w, chain, n) ==
  /\ DOMAIN chain = 1 .. n /\ DOMAIN w = 1 .. n /\ w = [k \in DOMAIN w |-> w[k]]
  /\ \A k \in 1 .. n : w[k] = chain[k].len

RangeLengths(w, ranges, n) ==
  /\ DOMAIN ranges = 1 .. n /\ DOMAIN w = 1 .. n /\ w = [k \in DOMAIN w |-> w[k]]
  /\ \A k \in 1 .. n : w[k] = ranges[k].length

(* The lengths that the code adds up are sums, over the mbufs ...          *)
LEMMA LengthIsTotal ==
  ASSUME NEW w, NEW chain, NEW n, MbufLengths(w, chain, n)
  PROVE  \A i, j : LengthOf(chain, i, j) = Total(w, i, j)
<1>1. [k \in DOMAIN chain |-> chain[k].len] = w
  BY Zenon DEF MbufLengths
<1> QED
  BY <1>1, Zenon DEF LengthOf

(* ... and over the ranges.                                                *)
LEMMA RangeStartIsTotal ==
  ASSUME NEW w, NEW ranges, NEW n, RangeLengths(w, ranges, n)
  PROVE  \A i : RangeStart(ranges, i) = Total(w, 1, i - 1)
<1>1. [k \in DOMAIN ranges |-> ranges[k].length] = w
  BY Zenon DEF RangeLengths
<1> QED
  BY <1>1, Zenon DEF RangeStart

MbufRecords == [data : Nat, len : Nat]

(* The lengths of the parts of a chain.                                    *)
LEMMA ChainLengths ==
  ASSUME NEW chain \in Seq(MbufRecords)
  PROVE  /\ \A i \in 1 .. Len(chain) + 1 : \A j \in i - 1 .. Len(chain) :
              /\ LengthOf(chain, i, j) \in Nat /\ LengthOf(chain, 1, i - 1) \in Nat
              /\ LengthOf(chain, 1, j) = LengthOf(chain, 1, i - 1) + LengthOf(chain, i, j)
         /\ LengthOf(chain, 1, 0) = 0
         /\ \A j \in 1 .. Len(chain) :
              LengthOf(chain, 1, j) = LengthOf(chain, 1, j - 1) + chain[j].len
         /\ \A i \in 1 .. Len(chain) : \A j \in i .. Len(chain) :
              LengthOf(chain, i, j) = LengthOf(chain, i, j - 1) + chain[j].len
<1> DEFINE n == Len(chain)
           w == [k \in 1 .. n |-> chain[k].len]
<1>0. DOMAIN chain = 1 .. n /\ DOMAIN w = 1 .. n /\ w = [k \in DOMAIN w |-> w[k]]
  OBVIOUS
<1>1. n \in Nat /\ \A k \in 1 .. n : w[k] = chain[k].len /\ w[k] \in Nat
  <2>1. \A k \in 1 .. n : chain[k] \in MbufRecords
    OBVIOUS
  <2> QED
    BY <2>1 DEF MbufRecords
<1> HIDE DEF w, n
<1>2. \A i \in 1 .. n + 1, j \in 0 .. n : LengthOf(chain, i, j) = Total(w, i, j)
  <2>1. MbufLengths(w, chain, n)
    BY <1>0, <1>1, Zenon DEF MbufLengths
  <2> QED
    BY <2>1, LengthIsTotal, Zenon
<1>3. \A i \in 1 .. n + 1, j \in 0 .. n :
        /\ Total(w, i, j) \in Nat /\ (j < i => Total(w, i, j) = 0)
        /\ (i <= j => Total(w, i, j) = Total(w, i, j - 1) + w[j])
  <2> TAKE i \in 1 .. n + 1, j \in 0 .. n
  <2>1. i \in Nat \ {0} /\ j \in Nat /\ \A k \in i .. j : w[k] \in Nat
    BY <1>1
  <2> QED
    BY ONLY <2>1, IntervalTotal
<1>4. ASSUME NEW i \in 1 .. n + 1, NEW j \in i - 1 .. n
      PROVE  /\ LengthOf(chain, i, j) \in Nat /\ LengthOf(chain, 1, i - 1) \in Nat
             /\ LengthOf(chain, 1, j) = LengthOf(chain, 1, i - 1) + LengthOf(chain, i, j)
  <2>1. \A k \in 1 .. n : w[k] \in Nat
    BY <1>1
  <2>2. /\ Total(w, 1, j) = Total(w, 1, i - 1) + Total(w, i, j)
        /\ Total(w, 1, i - 1) \in Nat /\ Total(w, i, j) \in Nat
    BY ONLY <1>1, <2>1, i \in 1 .. n + 1, j \in i - 1 .. n, IntervalSplit, Zenon
  <2>3. 1 \in 1 .. n + 1 /\ i - 1 \in 0 .. n /\ j \in 0 .. n
    BY <1>1
  <2> QED
    BY <1>2, <2>2, <2>3, Zenon
<1>5. LengthOf(chain, 1, 0) = 0
  <2>1. 1 \in 1 .. n + 1 /\ 0 \in 0 .. n /\ 0 < 1
    BY <1>1
  <2> QED
    BY <1>2, <1>3, <2>1, Zenon
<1>6. ASSUME NEW i \in 1 .. n, NEW j \in i .. n
      PROVE  LengthOf(chain, i, j) = LengthOf(chain, i, j - 1) + chain[j].len
  <2>1. i \in 1 .. n + 1 /\ j \in 0 .. n /\ j - 1 \in 0 .. n /\ i <= j /\ j \in 1 .. n
    BY <1>1
  <2> QED
    BY <1>1, <1>2, <1>3, <2>1, Zenon
<1>7. ASSUME NEW j \in 1 .. n
      PROVE  LengthOf(chain, 1, j) = LengthOf(chain, 1, j - 1) + chain[j].len
  <2>1. 1 \in 1 .. n + 1 /\ j \in 0 .. n /\ j - 1 \in 0 .. n /\ 1 <= j
    BY <1>1
  <2> QED
    BY <1>1, <1>2, <1>3, <2>1, Zenon
<1> QED
  BY <1>4, <1>5, <1>6, <1>7, Zenon DEF n

RangeRecords == [md : Descriptors, offset : Nat, length : Nat]

(* Where the ranges start, one behind the other.                           *)
LEMMA RangeStarts ==
  ASSUME NEW ranges \in Seq(RangeRecords)
  PROVE  /\ RangeStart(ranges, 1) = 0
         /\ \A i \in 1 .. Len(ranges) + 1 : RangeStart(ranges, i) \in Nat
         /\ \A i \in 1 .. Len(ranges) :
              RangeStart(ranges, i + 1) = RangeStart(ranges, i) + ranges[i].length
         /\ \A i \in 1 .. Len(ranges) + 1 : \A j \in i .. Len(ranges) + 1 :
              RangeStart(ranges, i) <= RangeStart(ranges, j)
<1> DEFINE n == Len(ranges)
           w == [k \in 1 .. n |-> ranges[k].length]
<1>0. DOMAIN ranges = 1 .. n /\ DOMAIN w = 1 .. n /\ w = [k \in DOMAIN w |-> w[k]]
  OBVIOUS
<1>1. n \in Nat /\ \A k \in 1 .. n : w[k] = ranges[k].length /\ w[k] \in Nat
  <2>1. \A k \in 1 .. n : ranges[k] \in RangeRecords
    OBVIOUS
  <2> QED
    BY <2>1 DEF RangeRecords
<1> HIDE DEF w, n
<1>2. \A i \in 1 .. n + 1 : RangeStart(ranges, i) = Total(w, 1, i - 1)
  <2>1. RangeLengths(w, ranges, n)
    BY <1>0, <1>1, Zenon DEF RangeLengths
  <2> QED
    BY <2>1, RangeStartIsTotal, Zenon
<1>3. \A j \in 0 .. n :
        /\ Total(w, 1, j) \in Nat /\ (j = 0 => Total(w, 1, j) = 0)
        /\ (j # 0 => Total(w, 1, j) = Total(w, 1, j - 1) + w[j])
  <2> TAKE j \in 0 .. n
  <2>1. 1 \in Nat \ {0} /\ j \in Nat /\ \A k \in 1 .. j : w[k] \in Nat
    BY <1>1
  <2>2. /\ Total(w, 1, j) \in Nat /\ (j < 1 => Total(w, 1, j) = 0)
        /\ (1 <= j => Total(w, 1, j) = Total(w, 1, j - 1) + w[j])
    BY ONLY <2>1, IntervalTotal
  <2> QED
    BY <2>1, <2>2
<1>4. RangeStart(ranges, 1) = 0
  <2>1. 1 \in 1 .. n + 1 /\ 0 \in 0 .. n /\ 1 - 1 = 0
    BY <1>1
  <2> QED
    BY <1>2, <1>3, <2>1, Zenon
<1>5. \A i \in 1 .. n + 1 : RangeStart(ranges, i) \in Nat
  <2> TAKE i \in 1 .. n + 1
  <2>1. i - 1 \in 0 .. n
    BY <1>1
  <2> QED
    BY <1>2, <1>3, <2>1, Zenon
<1>6. \A i \in 1 .. n : RangeStart(ranges, i + 1) = RangeStart(ranges, i) + ranges[i].length
  <2> TAKE i \in 1 .. n
  <2>1. i \in 1 .. n + 1 /\ i + 1 \in 1 .. n + 1 /\ i \in 0 .. n /\ (i + 1) - 1 = i /\ i # 0
    BY <1>1
  <2>2. RangeStart(ranges, i + 1) = Total(w, 1, i) /\ RangeStart(ranges, i) = Total(w, 1, i - 1)
    BY <1>2, <2>1, Zenon
  <2> QED
    BY <1>1, <1>3, <2>1, <2>2, Zenon
<1>7. \A i \in 1 .. n + 1 : \A j \in i .. n + 1 : RangeStart(ranges, i) <= RangeStart(ranges, j)
  <2> TAKE i \in 1 .. n + 1
  <2> TAKE j \in i .. n + 1
  <2>1. PICK m : m = j - 1
    BY Zenon
  <2>2. \A k \in 1 .. n : w[k] \in Nat
    BY <1>1
  <2>3. m \in i - 1 .. n /\ j \in 1 .. n + 1
    BY <1>1, <2>1
  <2>4. /\ Total(w, 1, m) = Total(w, 1, i - 1) + Total(w, i, m)
        /\ Total(w, 1, i - 1) \in Nat /\ Total(w, i, m) \in Nat
    BY ONLY <1>1, <2>2, <2>3, i \in 1 .. n + 1, IntervalSplit, Zenon
  <2>5. RangeStart(ranges, i) = Total(w, 1, i - 1) /\ RangeStart(ranges, j) = Total(w, 1, m)
    BY <1>2, <2>1, <2>3, Zenon
  <2> QED
    BY <2>4, <2>5
<1> QED
  BY <1>4, <1>5, <1>6, <1>7, Zenon DEF n

(* Quotient and remainder are unique.                                      *)
LEMMA Division ==
  ASSUME NEW p \in Nat \ {0}, NEW v \in Nat
  PROVE  /\ v \div p \in Nat /\ v % p \in 0 .. p - 1 /\ v = (v \div p) * p + (v % p)
         /\ \A q \in Nat, r \in 0 .. p - 1 : v = q * p + r => q = v \div p /\ r = v % p
<1>1. v \div p \in Nat /\ v % p \in 0 .. p - 1 /\ v = (v \div p) * p + (v % p)
  OBVIOUS
<1>2. PICK a \in Nat, b \in 0 .. p - 1 : a = v \div p /\ b = v % p /\ v = a * p + b
  BY <1>1, Zenon
<1>3. ASSUME NEW q \in Nat, NEW r \in 0 .. p - 1, v = q * p + r PROVE q = a /\ r = b
  <2>1. ASSUME NEW c \in Nat, NEW d \in Nat, c < d PROVE d * p >= c * p + p
    <3>1. PICK e \in Nat : d = c + 1 + e
      <4>1. d - c - 1 \in Nat /\ d = c + 1 + (d - c - 1)
        BY <2>1
      <4> QED
        BY <4>1
    <3>2. d * p = c * p + p + e * p /\ e * p \in Nat /\ c * p \in Nat
      BY <3>1
    <3> QED
      BY <3>2
  <2>2. q * p \in Nat /\ a * p \in Nat
    OBVIOUS
  <2>3. ~(q < a)
    BY <1>2, <1>3, <2>1, <2>2
  <2>4. ~(a < q)
    BY <1>2, <1>3, <2>1, <2>2
  <2>5. q = a
    BY <2>3, <2>4
  <2> QED
    BY <1>2, <1>3, <2>2, <2>5
<1> QED
  BY <1>1, <1>2, <1>3

(* The smallest member of a set of numbers.                                *)
LEMMA MinIsSmallest ==
  ASSUME NEW S \in SUBSET Nat, S # {}
  PROVE  Min(S) \in S /\ \A y \in S : Min(S) <= y
<1>1. \E x \in S : \A y \in S : x <= y
  BY SmallestExists
<1> QED
  BY <1>1, Zenon DEF Min

-----------------------------------------------------------------------------
(* Segments *)

(* An address is a page and a place in it.                                 *)
LEMMA PageAndPlace ==
  /\ \A b \in Nat : \E q \in Nat, r \in 0 .. PageSize - 1 :
       q = b \div PageSize /\ r = b % PageSize /\ b = q * PageSize + r
  /\ \A b \in Nat, q \in Nat, r \in 0 .. PageSize - 1 :
       b = q * PageSize + r => q = b \div PageSize /\ r = b % PageSize
<1>1. PageSize \in Nat \ {0}
  BY PageAssumption
<1> SUFFICES ASSUME NEW b \in Nat
             PROVE  /\ \E q \in Nat, r \in 0 .. PageSize - 1 :
                         q = b \div PageSize /\ r = b % PageSize /\ b = q * PageSize + r
                    /\ \A q \in Nat, r \in 0 .. PageSize - 1 :
                         b = q * PageSize + r => q = b \div PageSize /\ r = b % PageSize
  BY Zenon
<1>2. /\ b \div PageSize \in Nat /\ b % PageSize \in 0 .. PageSize - 1
      /\ b = (b \div PageSize) * PageSize + (b % PageSize)
      /\ \A q \in Nat, r \in 0 .. PageSize - 1 :
           b = q * PageSize + r => q = b \div PageSize /\ r = b % PageSize
  BY ONLY <1>1, b \in Nat, Division, Zenon
<1> QED
  BY <1>2, Zenon

(* Addresses run on within a page.                                         *)
LEMMA WithinOnePage ==
  ASSUME NEW b \in Nat, NEW v \in Nat, b - (b % PageSize) <= v, v <= b
  PROVE  /\ v \div PageSize = b \div PageSize
         /\ v % PageSize = (b % PageSize) - (b - v)
<1>1. PageSize \in Nat \ {0}
  BY PageAssumption
<1>2. PICK q \in Nat, r \in 0 .. PageSize - 1 :
        q = b \div PageSize /\ r = b % PageSize /\ b = q * PageSize + r
  BY <1>1, Division
<1>3. PICK m \in Nat : m = q * PageSize
  BY <1>1
<1>4. PICK s \in 0 .. PageSize - 1 : s = r - (b - v)
  BY <1>1, <1>2
<1>5. v = q * PageSize + s
  BY <1>1, <1>2, <1>3, <1>4
<1>6. q = v \div PageSize /\ s = v % PageSize
  BY <1>1, <1>5, Division, Zenon
<1> QED
  BY <1>2, <1>4, <1>6

(* What Extent returns: at least one byte and never more than there are,   *)
(* all of them one after the other in memory; all that are in one page.    *)
LEMMA ExtentRun ==
  ASSUME NEW v \in Nat, NEW remain \in Nat \ {0},
         \A x \in v .. v + remain - 1 : page_map[x \div PageSize] \in Nat
  PROVE  /\ Extent(v, remain) \in 1 .. remain
         /\ \A k \in 1 .. Extent(v, remain) :
              mbuf_data_to_physical(v + k - 1) = mbuf_data_to_physical(v) + k - 1
         /\ (v % PageSize) + remain <= PageSize => Extent(v, remain) = remain
         /\ mbuf_data_to_physical(v) \in Nat
<1> DEFINE phys(x) == mbuf_data_to_physical(x)
           breaks == {b \in v + 1 .. v + remain - 1 :
                        b % PageSize = 0 /\ phys(b) # phys(v) + (b - v)}
           e == Extent(v, remain)
<1>1. PageSize \in Nat \ {0}
  BY PageAssumption
<1>2. e = IF breaks = {} THEN remain ELSE Min(breaks) - v
  BY Zenon DEF Extent
<1>3. e \in 1 .. remain /\ \A b \in breaks : v + e <= b
  <2>1. CASE breaks = {}
    BY <1>2, <2>1
  <2>2. CASE breaks # {}
    <3>1. breaks \in SUBSET Nat
      OBVIOUS
    <3>2. Min(breaks) \in breaks /\ \A b \in breaks : Min(breaks) <= b
      <4> HIDE DEF breaks
      <4> QED
        BY <2>2, <3>1, MinIsSmallest
    <3>3. PICK m \in Nat : m = Min(breaks)
      BY <3>1, <3>2, Zenon
    <3>4. m \in v + 1 .. v + remain - 1 /\ e = m - v /\ \A b \in breaks : m <= b
      BY <1>2, <2>2, <3>2, <3>3, Zenon
    <3> QED
      BY <3>4
  <2> QED
    BY <2>1, <2>2
<1> HIDE DEF e
<1>4. \A x \in v .. v + remain - 1 : phys(x) \in Nat
  <2> TAKE x \in v .. v + remain - 1
  <2>1. x \in Nat /\ page_map[x \div PageSize] \in Nat
    OBVIOUS
  <2>2. x % PageSize \in Nat
    BY <1>1, <2>1, Division
  <2>3. PICK m \in Nat : m = page_map[x \div PageSize] * PageSize
    <3>1. \A f \in Nat : f * PageSize \in Nat
      BY <1>1
    <3> QED
      BY <2>1, <3>1, Zenon
  <2>4. phys(x) = m + (x % PageSize)
    BY <2>3, Zenon DEF mbuf_data_to_physical
  <2> QED
    BY <2>2, <2>4
<1>5. ASSUME NEW b \in v .. v + remain - 1, NEW x \in v .. v + remain - 1,
             b - (b % PageSize) <= x, x <= b
      PROVE  phys(b) = phys(x) + (b - x)
  <2>1. b \in Nat /\ x \in Nat
    OBVIOUS
  <2>2. x \div PageSize = b \div PageSize /\ x % PageSize = (b % PageSize) - (b - x)
    BY <1>5, <2>1, WithinOnePage
  <2>3. b % PageSize \in Nat
    BY <1>1, <2>1, Division
  <2>4. PICK m \in Nat : m = page_map[b \div PageSize] * PageSize
    <3>1. \A f \in Nat : f * PageSize \in Nat
      BY <1>1
    <3>2. page_map[b \div PageSize] \in Nat
      BY Zenon
    <3> QED
      BY <3>1, <3>2, Zenon
  <2>5. phys(b) = m + (b % PageSize) /\ phys(x) = m + (x % PageSize)
    BY <2>2, <2>4, Zenon DEF mbuf_data_to_physical
  <2> QED
    BY <2>1, <2>2, <2>3, <2>5
<1>6. ASSUME NEW k \in 1 .. e PROVE phys(v + k - 1) = phys(v) + k - 1
  <2>1. PICK b \in v .. v + remain - 1 : b = v + k - 1
    BY <1>3
  <2>2. b \in Nat /\ b % PageSize \in 0 .. b
    <3>1. b \in Nat
      BY <2>1
    <3>2. PICK q \in Nat, r \in 0 .. PageSize - 1 :
            q = b \div PageSize /\ r = b % PageSize /\ b = q * PageSize + r
      BY <3>1, PageAndPlace, Zenon
    <3>3. PICK m \in Nat : m = q * PageSize
      BY <1>1
    <3>4. b = m + r
      BY <3>2, <3>3, Zenon
    <3>5. r \in 0 .. b
      BY <1>1, <3>4
    <3> QED
      BY <3>1, <3>2, <3>5, Zenon
  <2>3. CASE b - (b % PageSize) <= v
    <3>1. v \in v .. v + remain - 1 /\ v <= b
      BY <2>1
    <3>2. phys(b) = phys(v) + (b - v)
      BY <1>5, <2>3, <3>1
    <3>3. phys(v) \in Nat
      BY <1>4, <3>1
    <3> QED
      BY <2>1, <3>2, <3>3
  <2>4. CASE b - (b % PageSize) > v
    <3>1. PICK p \in v + 1 .. v + remain - 1 : p = b - (b % PageSize) /\ p <= b
      BY <2>1, <2>2, <2>4
    <3>2. phys(b) = phys(p) + (b - p)
      BY <1>5, <3>1
    <3>3. p % PageSize = 0
      <4>1. p \in Nat
        BY <3>1
      <4>2. p % PageSize = (b % PageSize) - (b - p)
        BY <2>2, <3>1, <4>1, WithinOnePage
      <4> QED
        BY <2>2, <3>1, <4>2
    <3>4. p \notin breaks
      BY <1>3, <2>1, <3>1
    <3>5. phys(p) = phys(v) + (p - v)
      BY <3>1, <3>3, <3>4
    <3>6. phys(v) \in Nat
      BY <1>4
    <3> QED
      BY <2>1, <3>1, <3>2, <3>5, <3>6
  <2> QED
    BY <2>1, <2>2, <2>3, <2>4
<1>7. ASSUME (v % PageSize) + remain <= PageSize PROVE e = remain
  <2>1. breaks = {}
    <3> SUFFICES ASSUME NEW b \in v + 1 .. v + remain - 1, b % PageSize = 0 PROVE FALSE
      OBVIOUS
    <3>1. PICK q \in Nat, r \in 0 .. PageSize - 1 :
            q = v \div PageSize /\ r = v % PageSize /\ v = q * PageSize + r
      BY PageAndPlace, Zenon
    <3>2. PICK m \in Nat : m = q * PageSize
      BY <1>1
    <3>3. v = m + r /\ r + remain <= PageSize
      BY <1>7, <3>1, <3>2, Zenon
    <3>4. PICK s \in 0 .. PageSize - 1 : s = b - m
      BY <1>1, <3>3
    <3>5. b \in Nat /\ b = m + s
      BY <3>4
    <3>6. s = b % PageSize
      BY <3>2, <3>5, PageAndPlace, Zenon
    <3> QED
      BY <3>3, <3>4, <3>6
  <2> QED
    BY <1>2, <2>1, Zenon
<1>8. phys(v) \in Nat
  BY <1>4
<1> QED
  BY <1>3, <1>6, <1>7, <1>8 DEF e

-----------------------------------------------------------------------------
(* The inductive invariant *)

(* What is known of the parts of the state.                                *)
MemoryTypes ==
  /\ structure \in {"none", "pooled", "in_use"}
  /\ page_map \in PageMaps
  /\ mbuf \in Chains \cup {<<>>} /\ data \in DataBuffers \cup {<<>>}
  /\ array \in Seq(RangeRecords)
  /\ num_subranges \in 0 .. Len(array)
  /\ users \in Nat /\ position \in Nat

(* The place that mbuf_md remembers is the start of an mbuf.               *)
PlaceIsStart ==
  /\ cur_mbuf \in 1 .. Len(mbuf) + 1
  /\ cur_mbuf_begin = LengthOf(mbuf, 1, cur_mbuf - 1)

(* Nothing is left in a structure that is not in use.                      *)
NothingLeft ==
  structure # "in_use" => num_subranges = 0 /\ users = 0 /\ position = 0 /\ answer = NoAnswer

(* A packet uses all bytes of its chain, or a part of a single mbuf that   *)
(* lies in one page.                                                       *)
WholeChain(range) == range.length = mbufChainLen(mbuf)
WithinPage(range) ==
  /\ Len(mbuf) = 1 /\ range.length <= mbuf[1].len
  /\ (mbuf[1].data % PageSize) + mbuf[1].len <= PageSize

RangeFits(range) ==
  IF range.md = Mbuf THEN range.offset = 0 /\ (WholeChain(range) \/ WithinPage(range))
  ELSE range.offset + range.length <= Len(BytesOf(range.md))

RangesFit ==
  \A i \in DOMAIN Ranges : RangeFits(Ranges[i])

(* If all ranges end with a segment, IODMACommand comes to a halt inside a *)
(* range only where a segment of it ends.                                  *)
SegmentEnds(range, within) ==
  IF range.md = Mbuf THEN WholeChain(range)
  ELSE BytesOf(range.md)[within + 1] # BytesOf(range.md)[within] + 1
HaltsInside ==
  /\ position <= RangesLength(Ranges)
  /\ \A i \in DOMAIN Ranges :
       RangeStart(Ranges, i) < position /\ position < RangeStart(Ranges, i + 1) =>
         SegmentEnds(Ranges[i], position - RangeStart(Ranges, i) + Ranges[i].offset)

HaltsAtSegments == RangesEndWithSegments => HaltsInside

MemoryInv ==
  /\ MemoryTypes /\ PlaceIsStart /\ NothingLeft /\ RangesFit /\ HaltsAtSegments
  /\ SegmentsAreTheBytes /\ PreparedAllOrNone /\ ReferencesMatchRanges

(* seg is a run of the bytes, as long as they follow each other in memory. *)
IsRun(bytes, offset, seg) ==
  /\ seg.address = bytes[offset + 1]
  /\ seg.length \in 1 .. Len(bytes) - offset
  /\ \A k \in 1 .. seg.length : bytes[offset + k] = seg.address + k - 1
  /\ \A k \in offset + 2 .. offset + seg.length : bytes[k] = bytes[k - 1] + 1
  /\ offset + seg.length < Len(bytes) =>
       bytes[offset + seg.length + 1] # bytes[offset + seg.length] + 1

(* I/O Kit's answer is a run of the buffer's bytes, and unless they end    *)
(* the next one does not follow in memory.                                 *)
LEMMA BufferRun ==
  ASSUME NEW bytes \in Seq(Nat), NEW offset \in Nat, offset < Len(bytes),
         NEW seg, seg = BufferSegment(bytes, offset)
  PROVE  IsRun(bytes, offset, seg)
<1> DEFINE breaks == {k \in offset + 2 .. Len(bytes) : bytes[k] # bytes[k - 1] + 1}
           end == IF breaks = {} THEN Len(bytes) ELSE Min(breaks) - 1
<1>1. seg.address = bytes[offset + 1] /\ seg.length = end - offset
  BY DEF BufferSegment
<1>2. /\ end \in offset + 1 .. Len(bytes) /\ \A k \in breaks : end < k
      /\ end < Len(bytes) => end + 1 \in breaks
  <2>1. CASE breaks = {}
    BY <2>1, SMTT(60)
  <2>2. CASE breaks # {}
    <3>1. breaks \in SUBSET Nat
      OBVIOUS
    <3>2. Min(breaks) \in breaks /\ \A b \in breaks : Min(breaks) <= b
      <4> HIDE DEF breaks
      <4> QED
        BY <2>2, <3>1, MinIsSmallest
    <3>3. PICK m \in Nat : m = Min(breaks)
      BY <3>1, <3>2, Zenon
    <3>4. m \in offset + 2 .. Len(bytes) /\ end = m - 1 /\ m \in breaks /\ \A b \in breaks : m <= b
      BY <2>2, <3>2, <3>3, Zenon
    <3> HIDE DEF breaks, end
    <3>5. \A b \in breaks : b \in Nat /\ end < b
      BY <3>1, <3>4
    <3> QED
      BY <3>4, <3>5
  <2> QED
    BY <2>1, <2>2, Zenon
<1> HIDE DEF end
<1>3. PICK l \in Nat : l = seg.length /\ end = offset + l /\ l \in 1 .. Len(bytes) - offset
  <2>1. /\ end - offset \in Nat /\ end = offset + (end - offset)
        /\ end - offset \in 1 .. Len(bytes) - offset
    BY <1>2
  <2> QED
    BY <1>1, <2>1, Zenon
<1>4. \A k \in offset + 2 .. offset + l : bytes[k] = bytes[k - 1] + 1
  <2> TAKE k \in offset + 2 .. offset + l
  <2>1. k \in offset + 2 .. Len(bytes) /\ ~(end < k)
    BY <1>3, SMTT(60)
  <2> QED
    BY <1>2, <2>1, Zenon
<1>5. offset + l < Len(bytes) => bytes[offset + l + 1] # bytes[offset + l] + 1
  <2>1. (end + 1) - 1 = end
    BY <1>3
  <2> QED
    BY <1>2, <1>3, <2>1, Zenon
<1> DEFINE Bad == {k \in Nat : k \in 1 .. l /\ bytes[offset + k] # seg.address + k - 1}
<1> HIDE DEF breaks
<1>6. Bad = {}
  <2> SUFFICES ASSUME Bad # {} PROVE FALSE
    OBVIOUS
  <2>1. PICK m \in Bad : \A y \in Bad : m <= y
    <3>1. Bad \in SUBSET Nat
      OBVIOUS
    <3> HIDE DEF Bad
    <3> QED
      BY <3>1, SmallestExists
  <2>2. m \in Nat /\ m \in 1 .. l /\ bytes[offset + m] # seg.address + m - 1
    OBVIOUS
  <2>3. bytes[offset + 1] \in Nat
    BY SMTT(60)
  <2>4. m # 1
    BY <1>1, <2>2, <2>3
  <2>5. PICK h \in Nat : h = m - 1 /\ h \in 1 .. l
    BY <2>2, <2>4
  <2>6. bytes[offset + h] = seg.address + h - 1
    <3>1. h \notin Bad
      <4> HIDE DEF Bad
      <4> QED
        BY <2>1, <2>2, <2>5
    <3> QED
      BY <2>5, <3>1
  <2>7. PICK k \in offset + 2 .. offset + l : k = offset + m /\ k - 1 = offset + h
    <3>1. offset + m \in offset + 2 .. offset + l /\ (offset + m) - 1 = offset + h
      BY ONLY <2>2, <2>4, <2>5, offset \in Nat, l \in Nat, h \in Nat
    <3> QED
      BY <3>1, Zenon
  <2>8. bytes[offset + m] = bytes[offset + h] + 1
    BY <1>4, <2>7, Zenon
  <2>9. seg.address \in Nat
    BY <1>1, <2>3
  <2> HIDE DEF Bad
  <2> QED
    BY <2>2, <2>5, <2>6, <2>8, <2>9
<1>7. \A k \in 1 .. l : bytes[offset + k] = seg.address + k - 1
  <2> TAKE k \in 1 .. l
  <2>1. k \in Nat
    OBVIOUS
  <2> QED
    BY <1>6, <2>1, Zenon
<1> QED
  BY <1>1, <1>3, <1>4, <1>5, <1>7, Zenon DEF IsRun

(* The chain is one of mbufs whose pages are mapped.                       *)
MbufMapped ==
  /\ mbuf \in Seq(MbufRecords)
  /\ \A i \in 1 .. Len(mbuf) : \A v \in mbuf[i].data .. mbuf[i].data + mbuf[i].len - 1 :
       page_map[v \div PageSize] \in Nat

(* The search ends in the mbuf that contains the offset, wherever the last *)
(* one ended.                                                              *)
LEMMA SearchFinds ==
  ASSUME MbufMapped, PlaceIsStart, NEW offset \in Nat, offset < mbufChainLen(mbuf),
         NEW m, m = MbufWith(offset)
  PROVE  /\ m.left /\ m.at \in 1 .. Len(mbuf)
         /\ m.begin = LengthOf(mbuf, 1, m.at - 1) /\ m.begin \in Nat
         /\ m.begin <= offset /\ offset < m.begin + mbuf[m.at].len
<1> DEFINE n == Len(mbuf)
           L(j) == LengthOf(mbuf, 1, j)
           from == SearchFrom(offset)
           found == {i \in from.at .. n : offset < from.begin + LengthOf(mbuf, from.at, i)}
<1>1. n \in Nat /\ \A i \in 1 .. n : mbuf[i].len \in Nat
  <2>1. mbuf \in Seq(MbufRecords)
    BY DEF MbufMapped
  <2>2. \A i \in 1 .. n : mbuf[i] \in MbufRecords
    BY <2>1, SMTT(60)
  <2> QED
    BY <2>1, <2>2 DEF MbufRecords
<1>2. /\ \A i \in 1 .. n + 1 : \A j \in i - 1 .. n :
              L(j) = L(i - 1) + LengthOf(mbuf, i, j) /\ LengthOf(mbuf, i, j) \in Nat
      /\ L(0) = 0 /\ \A j \in 1 .. n : L(j) = L(j - 1) + mbuf[j].len
  BY ChainLengths, Zenon DEF MbufMapped
<1>3. \A j \in 0 .. n : L(j) \in Nat
  <2>1. 1 \in 1 .. n + 1 /\ \A j \in 0 .. n : j \in 1 - 1 .. n
    BY <1>1
  <2> QED
    BY <1>2, <2>1, Zenon
<1>4. offset < L(n)
  BY DEF mbufChainLen
<1> HIDE DEF L, n
<1>5. from.at \in 1 .. n + 1 /\ from.begin = L(from.at - 1) /\ from.begin <= offset
  <2>1. cur_mbuf \in 1 .. n + 1 /\ cur_mbuf_begin = L(cur_mbuf - 1)
    BY DEF PlaceIsStart, L, n
  <2>2. CASE offset < cur_mbuf_begin
    <3>1. from = [at |-> 1, begin |-> 0]
      BY <2>2 DEF SearchFrom
    <3>2. 1 \in 1 .. n + 1 /\ 1 - 1 = 0 /\ 0 <= offset
      BY <1>1
    <3> QED
      BY <1>2, <3>1, <3>2
  <2>3. CASE ~(offset < cur_mbuf_begin)
    <3>1. from = [at |-> cur_mbuf, begin |-> cur_mbuf_begin]
      BY <2>3 DEF SearchFrom
    <3>2. cur_mbuf - 1 \in 0 .. n
      BY <1>1, <2>1
    <3>3. cur_mbuf_begin \in Nat
      BY <1>3, <2>1, <3>2, Zenon
    <3>4. cur_mbuf_begin <= offset
      BY <2>3, <3>3
    <3> QED
      BY <2>1, <3>1, <3>4
  <2> QED
    BY <2>2, <2>3
<1>6. PICK a \in 1 .. n + 1 : a = from.at /\ from.begin = L(a - 1) /\ L(a - 1) <= offset
  BY <1>5, Zenon
<1>7. a \in 1 .. n
  <2>1. a - 1 # n
    BY <1>1, <1>3, <1>4, <1>6
  <2> QED
    BY <1>1, <2>1
<1>8. \A i \in a .. n : from.begin + LengthOf(mbuf, from.at, i) = L(i)
  <2> TAKE i \in a .. n
  <2>1. i \in a - 1 .. n
    BY <1>1
  <2> QED
    BY <1>2, <1>6, <2>1, Zenon
<1>9. found = {i \in a .. n : offset < L(i)}
  BY <1>6, <1>8, Zenon
<1>10. n \in found
  BY <1>1, <1>4, <1>7, <1>9
<1>11. PICK f \in a .. n : f = Min(found) /\ f \in found /\ \A y \in found : f <= y
  <2>1. found \in SUBSET Nat
    BY <1>1, <1>9
  <2> HIDE DEF found
  <2>2. Min(found) \in found /\ \A y \in found : Min(found) <= y
    BY <1>10, <2>1, MinIsSmallest
  <2> QED
    BY <1>9, <2>2, Zenon
<1>12. m = [at |-> f, left |-> TRUE, begin |-> (from.begin + LengthOf(mbuf, from.at, f)) - mbuf[f].len]
  <2>1. found # {}
    BY <1>10, Zenon
  <2>2. m = [at |-> Min(found), left |-> TRUE,
             begin |-> (from.begin + LengthOf(mbuf, from.at, Min(found))) - mbuf[Min(found)].len]
    BY <2>1, Zenon DEF MbufWith, n
  <2> HIDE DEF found, from
  <2> QED
    BY <1>11, <2>2, Zenon
<1> HIDE DEF found, from
<1>13. f \in 1 .. n /\ f - 1 \in 0 .. n /\ L(f) = L(f - 1) + mbuf[f].len /\ L(f - 1) \in Nat
  <2>1. f \in 1 .. n /\ f - 1 \in 0 .. n
    BY <1>1, <1>7
  <2> QED
    BY <1>2, <1>3, <2>1, Zenon
<1>14. m.at = f /\ m.left /\ m.begin = L(f) - mbuf[f].len
  BY <1>8, <1>11, <1>12
<1>15. m.begin = L(f - 1)
  BY <1>1, <1>13, <1>14
<1>16. L(f - 1) <= offset
  <2>1. CASE f = a
    BY <1>6, <2>1, Zenon
  <2>2. CASE f # a
    <3>1. PICK g \in a .. n : g = f - 1
      BY <1>1, <1>7, <2>2
    <3>2. g \notin found
      BY <1>1, <1>7, <1>11, <3>1
    <3>3. ~(offset < L(g))
      BY <1>9, <3>2, Zenon
    <3> QED
      BY <1>13, <3>1, <3>3
  <2> QED
    BY <2>1, <2>2
<1>17. offset < L(f)
  BY <1>9, <1>11, Zenon
<1> QED
  BY <1>13, <1>14, <1>15, <1>16, <1>17 DEF L, n

(* The bytes of the chain, by mbuf.                                        *)
LEMMA ChainBytes ==
  ASSUME MbufMapped
  PROVE  /\ MbufBytes \in Seq(Nat) /\ Len(MbufBytes) = mbufChainLen(mbuf)
         /\ \A i \in 1 .. Len(mbuf) : \A k \in 1 .. mbuf[i].len :
              MbufBytes[LengthOf(mbuf, 1, i - 1) + k] = mbuf_data_to_physical(mbuf[i].data + k - 1)
<1> DEFINE n == Len(mbuf)
           one(i) == [k \in 1 .. mbuf[i].len |-> mbuf_data_to_physical(mbuf[i].data + k - 1)]
           seqs == [i \in DOMAIN mbuf |-> one(i)]
<1>1. /\ n \in Nat /\ DOMAIN mbuf = 1 .. n
      /\ \A i \in 1 .. n : mbuf[i].len \in Nat /\ mbuf[i].data \in Nat
  <2>1. mbuf \in Seq(MbufRecords)
    BY DEF MbufMapped
  <2>2. \A i \in 1 .. n : mbuf[i] \in MbufRecords
    BY <2>1
  <2> QED
    BY <2>1, <2>2 DEF MbufRecords
<1> HIDE DEF n
<1>2. ASSUME NEW i \in 1 .. n PROVE one(i) \in Seq(Nat) /\ Len(one(i)) = mbuf[i].len
  <2>1. PICK l \in Nat, d \in Nat : l = mbuf[i].len /\ d = mbuf[i].data
    BY <1>1, Zenon
  <2>2. \A k \in 1 .. l : mbuf_data_to_physical(d + k - 1) \in Nat
    <3> TAKE k \in 1 .. l
    <3>1. PICK v \in Nat : v = d + k - 1 /\ v \in d .. d + l - 1
      BY <2>1
    <3>2. \A x \in v .. v + 1 - 1 : page_map[x \div PageSize] \in Nat
      <4>1. \A x \in v .. v + 1 - 1 : x = v
        BY <3>1
      <4>2. page_map[v \div PageSize] \in Nat
        BY <2>1, <3>1, Zenon DEF MbufMapped, n
      <4> QED
        BY <4>1, <4>2, Zenon
    <3>3. 1 \in Nat \ {0}
      OBVIOUS
    <3>4. mbuf_data_to_physical(v) \in Nat
      BY <3>2, <3>3, ExtentRun, Zenon
    <3> QED
      BY <3>1, <3>4, Zenon
  <2>3. one(i) = [k \in 1 .. l |-> mbuf_data_to_physical(d + k - 1)]
    BY <2>1, Zenon
  <2>4. one(i) \in [1 .. l -> Nat]
    BY <2>2, <2>3, Zenon
  <2> HIDE DEF one
  <2> QED
    BY <2>1, <2>4
<1>3. seqs \in Seq(Seq(Nat)) /\ Len(seqs) = n /\ \A i \in 1 .. n : seqs[i] = one(i)
  <2>1. \A i \in 1 .. n : one(i) \in Seq(Nat)
    BY <1>2, Zenon
  <2> HIDE DEF one
  <2>2. seqs \in [1 .. n -> Seq(Nat)]
    BY <1>1, <2>1, Zenon
  <2>3. \A i \in 1 .. n : seqs[i] = one(i)
    BY <1>1, Zenon
  <2> HIDE DEF seqs
  <2>4. PICK X : X = Seq(Nat)
    BY Zenon
  <2>5. seqs \in Seq(X) /\ Len(seqs) = n
    BY <1>1, <2>2, <2>4
  <2> QED
    BY <2>3, <2>4, <2>5, Zenon
<1>4. MbufBytes = Joined(seqs)
  BY Zenon DEF MbufBytes
<1>5. PICK w : w = Lengths(seqs)
  BY Zenon
<1>6. \A i \in 1 .. n : w[i] = mbuf[i].len /\ w[i] \in Nat
  <2> TAKE i \in 1 .. n
  <2> HIDE DEF seqs, one
  <2>1. w[i] = Len(seqs[i])
    BY <1>3, <1>5 DEF Lengths
  <2>2. Len(seqs[i]) = mbuf[i].len
    BY <1>2, <1>3, Zenon
  <2> QED
    BY <1>1, <2>1, <2>2, Zenon
<1>7. \A j \in 0 .. n : LengthOf(mbuf, 1, j) = Total(w, 1, j)
  <2> HIDE DEF seqs, one
  <2>1. DOMAIN w = 1 .. n /\ w = [k \in DOMAIN w |-> w[k]]
    BY <1>3, <1>5, Zenon DEF Lengths
  <2>2. DOMAIN mbuf = 1 .. n
    BY <1>1
  <2> QED
    <3>1. MbufLengths(w, mbuf, n)
      BY <1>6, <2>1, <2>2, Zenon DEF MbufLengths
    <3> QED
      BY <3>1, LengthIsTotal, Zenon
<1> HIDE DEF seqs
<1>8. /\ Joined(seqs) \in Seq(Nat) /\ Len(Joined(seqs)) = Total(w, 1, n)
      /\ \A i \in 1 .. n : \A k \in 1 .. Len(seqs[i]) :
              Joined(seqs)[Total(w, 1, i - 1) + k] = seqs[i][k]
  <2>1. seqs \in Seq(Seq(Nat))
    BY <1>3, Zenon
  <2>2. /\ Joined(seqs) \in Seq(Nat) /\ Len(Joined(seqs)) = Total(Lengths(seqs), 1, Len(seqs))
        /\ \A i \in 1 .. Len(seqs) : \A k \in 1 .. Len(seqs[i]) :
              Joined(seqs)[Total(Lengths(seqs), 1, i - 1) + k] = seqs[i][k]
    BY ONLY <2>1, JoinedPlaces, Zenon
  <2> QED
    BY <1>3, <1>5, <2>2, Zenon
<1>9. Len(MbufBytes) = mbufChainLen(mbuf)
  <2>1. n \in 0 .. n
    BY <1>1
  <2> QED
    BY <1>4, <1>7, <1>8, <2>1, Zenon DEF mbufChainLen, n
<1>10. ASSUME NEW i \in 1 .. n, NEW k \in 1 .. mbuf[i].len
       PROVE  MbufBytes[LengthOf(mbuf, 1, i - 1) + k] = mbuf_data_to_physical(mbuf[i].data + k - 1)
  <2>1. i - 1 \in 0 .. n
    BY <1>1
  <2>2. LengthOf(mbuf, 1, i - 1) = Total(w, 1, i - 1)
    BY <1>7, <2>1, Zenon
  <2>3. seqs[i] = one(i) /\ Len(seqs[i]) = mbuf[i].len
    BY <1>2, <1>3, Zenon
  <2>4. MbufBytes[LengthOf(mbuf, 1, i - 1) + k] = seqs[i][k]
    BY <1>4, <1>8, <2>2, <2>3, ZenonT(60)
  <2> QED
    BY <2>3, <2>4, Zenon
<1> QED
  BY <1>4, <1>8, <1>9, <1>10, Zenon DEF n

(* A place in an mbuf that starts at a and has l bytes from d on.          *)
LEMMA PlaceInMbuf ==
  ASSUME NEW offset \in Nat, NEW a \in Nat, NEW l \in Nat, NEW d \in Nat,
         a <= offset, offset < a + l
  PROVE  \E v \in Nat, remain \in Nat \ {0} :
           /\ v = d + (offset - a) /\ remain = l - (offset - a)
           /\ \A x \in v .. v + remain - 1 : x \in d .. d + l - 1
           /\ \A k \in 1 .. remain :
                \E j \in 1 .. l : a + j = offset + k /\ d + j - 1 = v + k - 1
           /\ \A c \in Nat : a + l <= c => \A e \in 1 .. remain : e \in 1 .. c - offset
<1>1. PICK v \in Nat, remain \in Nat \ {0} : v = d + (offset - a) /\ remain = l - (offset - a)
  <2>1. d + (offset - a) \in Nat /\ l - (offset - a) \in Nat \ {0}
    OBVIOUS
  <2> QED
    BY <2>1, Zenon
<1>2. ASSUME NEW k \in 1 .. remain
      PROVE  \E j \in 1 .. l : a + j = offset + k /\ d + j - 1 = v + k - 1
  <2>1. /\ (offset - a) + k \in 1 .. l /\ a + ((offset - a) + k) = offset + k
        /\ d + ((offset - a) + k) - 1 = v + k - 1
    BY <1>1
  <2> QED
    BY <2>1, Zenon
<1>3. \A x \in v .. v + remain - 1 : x \in d .. d + l - 1
  BY <1>1
<1>4. \A c \in Nat : a + l <= c => \A e \in 1 .. remain : e \in 1 .. c - offset
  BY <1>1
<1> QED
  BY <1>1, <1>2, <1>3, <1>4, Zenon

(* The answer of mbuf_md is a run of the chain's bytes; if they are in one *)
(* mbuf and one page, all of them.                                         *)
LEMMA MbufRun ==
  ASSUME MbufMapped, PlaceIsStart, NEW offset \in Nat, offset < mbufChainLen(mbuf),
         NEW seg, seg = MbufSegment(MbufWith(offset), offset)
  PROVE  /\ seg.address \in Nat /\ seg.length \in 1 .. mbufChainLen(mbuf) - offset
         /\ \A k \in 1 .. seg.length : MbufBytes[offset + k] = seg.address + k - 1
         /\ /\ Len(mbuf) = 1 /\ offset = 0
            /\ (mbuf[1].data % PageSize) + mbuf[1].len <= PageSize
            => seg.length = mbuf[1].len
<1>1. PICK m : m = MbufWith(offset)
  BY Zenon
<1>2. /\ m.left /\ m.at \in 1 .. Len(mbuf)
      /\ m.begin = LengthOf(mbuf, 1, m.at - 1) /\ m.begin \in Nat
      /\ m.begin <= offset /\ offset < m.begin + mbuf[m.at].len
  BY <1>1, SearchFinds, Zenon
<1>3. PICK i \in 1 .. Len(mbuf), a \in Nat : i = m.at /\ a = m.begin
  BY <1>2, Zenon
<1>4. mbuf \in Seq(MbufRecords) /\ mbuf[i] \in MbufRecords
  BY DEF MbufMapped
<1>5. PICK l \in Nat, d \in Nat : l = mbuf[i].len /\ d = mbuf[i].data
  BY <1>4, Zenon DEF MbufRecords
<1>6. a <= offset /\ offset < a + l /\ a = LengthOf(mbuf, 1, i - 1)
  BY <1>2, <1>3, <1>5, Zenon
<1>7. PICK v \in Nat, remain \in Nat \ {0} :
        /\ v = d + (offset - a) /\ remain = l - (offset - a)
        /\ \A x \in v .. v + remain - 1 : x \in d .. d + l - 1
        /\ \A k \in 1 .. remain :
             \E j \in 1 .. l : a + j = offset + k /\ d + j - 1 = v + k - 1
        /\ \A c \in Nat : a + l <= c => \A e \in 1 .. remain : e \in 1 .. c - offset
  <2>1. a <= offset /\ offset < a + l
    BY <1>6, ZenonT(60)
  <2> QED
    BY ONLY offset \in Nat, a \in Nat, l \in Nat, d \in Nat, <2>1, PlaceInMbuf
<1>8. seg.address = mbuf_data_to_physical(v) /\ seg.length = Extent(v, remain)
  BY <1>1, <1>2, <1>3, <1>5, <1>7 DEF MbufSegment
<1>9. \A x \in v .. v + remain - 1 : page_map[x \div PageSize] \in Nat
  <2> TAKE x \in v .. v + remain - 1
  <2>1. x \in d .. d + l - 1
    BY <1>7, Zenon
  <2> QED
    BY <1>5, <2>1, Zenon DEF MbufMapped
<1>10. PICK e : e = Extent(v, remain)
  BY Zenon
<1>11. /\ e \in 1 .. remain /\ mbuf_data_to_physical(v) \in Nat
       /\ \A k \in 1 .. e :
              mbuf_data_to_physical(v + k - 1) = mbuf_data_to_physical(v) + k - 1
       /\ (v % PageSize) + remain <= PageSize => e = remain
  BY <1>9, <1>10, ExtentRun, Zenon
<1>12. /\ \A k \in 1 .. l : MbufBytes[a + k] = mbuf_data_to_physical(d + k - 1)
       /\ Len(MbufBytes) = mbufChainLen(mbuf)
  BY <1>5, <1>6, ChainBytes, Zenon
<1>13. a + l <= mbufChainLen(mbuf) /\ mbufChainLen(mbuf) \in Nat
  <2> DEFINE L(j) == LengthOf(mbuf, 1, j)
             n == Len(mbuf)
  <2>1. n \in Nat /\ n = Len(mbuf)
    BY <1>4
  <2>2. /\ \A p \in 1 .. n + 1 : \A j \in p - 1 .. n :
              L(j) = L(p - 1) + LengthOf(mbuf, p, j) /\ LengthOf(mbuf, p, j) \in Nat /\ L(p - 1) \in Nat
        /\ \A j \in 1 .. n : L(j) = L(j - 1) + mbuf[j].len
    BY <1>4, ChainLengths, Zenon
  <2>3. mbufChainLen(mbuf) = L(n)
    BY DEF mbufChainLen
  <2> HIDE DEF L, n
  <2>4. PICK p \in 1 .. n + 1 : p = i + 1 /\ n \in p - 1 .. n /\ p - 1 = i
    BY <2>1
  <2>5. L(n) = L(i) + LengthOf(mbuf, p, n) /\ LengthOf(mbuf, p, n) \in Nat /\ L(i) \in Nat
    BY <2>2, <2>4, Zenon
  <2>6. L(i) = a + l
    BY <1>5, <1>6, <2>1, <2>2, Zenon DEF L
  <2> QED
    BY <2>3, <2>5, <2>6
<1>14. seg.address \in Nat /\ seg.length = e /\ e \in 1 .. mbufChainLen(mbuf) - offset
  BY <1>7, <1>8, <1>10, <1>11, <1>13, Zenon
<1>15. ASSUME NEW k \in 1 .. e PROVE MbufBytes[offset + k] = seg.address + k - 1
  <2>1. k \in 1 .. remain
    BY <1>11
  <2>2. PICK j \in 1 .. l : a + j = offset + k /\ d + j - 1 = v + k - 1
    BY <1>7, <2>1, Zenon
  <2>3. MbufBytes[offset + k] = mbuf_data_to_physical(v + k - 1)
    BY <1>12, <2>2, Zenon
  <2> QED
    BY <1>8, <1>11, <2>3, Zenon
<1>16. ASSUME Len(mbuf) = 1, offset = 0, (mbuf[1].data % PageSize) + mbuf[1].len <= PageSize
       PROVE  e = mbuf[1].len
  <2>1. i = 1
    BY <1>16
  <2>2. v = d /\ remain = l
    BY <1>6, <1>7, <1>16
  <2> QED
    BY <1>5, <1>11, <1>16, <2>1, <2>2, Zenon
<1> QED
  BY <1>14, <1>15, <1>16, Zenon

-----------------------------------------------------------------------------
(* The combined descriptor *)

(* The ranges, and the chain, of a state that the program can be in.       *)
LEMMA RangesKnown ==
  ASSUME MemoryTypes
  PROVE  /\ Ranges \in Seq(RangeRecords) /\ Len(Ranges) = num_subranges
         /\ DOMAIN Ranges = 1 .. Len(Ranges) /\ Len(Ranges) \in Nat
         /\ \A i \in DOMAIN Ranges : /\ Ranges[i] = array[i] /\ Ranges[i].md \in Descriptors
                                     /\ Ranges[i].offset \in Nat /\ Ranges[i].length \in Nat
<1>1. array \in Seq(RangeRecords) /\ num_subranges \in 0 .. Len(array)
  BY DEF MemoryTypes
<1>2. /\ Ranges \in Seq(RangeRecords) /\ Len(Ranges) = num_subranges
      /\ DOMAIN Ranges = 1 .. Len(Ranges) /\ Len(Ranges) \in Nat
      /\ \A i \in DOMAIN Ranges : Ranges[i] = array[i] /\ Ranges[i] \in RangeRecords
  BY <1>1 DEF Ranges
<1>3. \A r \in RangeRecords : r.md \in Descriptors /\ r.offset \in Nat /\ r.length \in Nat
  BY DEF RangeRecords
<1> QED
  BY <1>2, <1>3, Zenon

(* The bytes of the chain that mbuf_md describes have pages.               *)
LEMMA MbufKnown ==
  ASSUME MemoryTypes
  PROVE  MbufMapped
<1>1. mbuf \in Chains \cup {<<>>} /\ page_map \in PageMaps
  BY DEF MemoryTypes
<1>2. CASE mbuf \in Chains
  <2>1. /\ mbuf \in Seq(MbufRecords)
        /\ \A i \in DOMAIN mbuf : \A v \in mbuf[i].data .. mbuf[i].data + mbuf[i].len - 1 :
             page_map[v \div PageSize] \in Nat
    BY <1>1, <1>2, ChainsAssumption, Zenon DEF MbufRecords
  <2>2. DOMAIN mbuf = 1 .. Len(mbuf)
    BY <2>1
  <2> QED
    BY <2>1, <2>2, Zenon DEF MbufMapped
<1>3. CASE mbuf = <<>>
  BY <1>3 DEF MbufMapped
<1> QED
  BY <1>1, <1>2, <1>3

(* The bytes that a range refers to.                                       *)
BytesIn(range) == IF range.md = Mbuf THEN MbufBytes ELSE BytesOf(range.md)

(* A range lies within them.                                               *)
LEMMA RangeWithin ==
  ASSUME MemoryTypes, NEW range \in RangeRecords, RangeFits(range)
  PROVE  /\ BytesIn(range) \in Seq(Nat)
         /\ range.offset + range.length <= Len(BytesIn(range))
<1>1. range.md \in Descriptors /\ range.offset \in Nat /\ range.length \in Nat
  BY DEF RangeRecords
<1>2. CASE range.md = Mbuf
  <2>1. MbufMapped
    BY MbufKnown
  <2>2. BytesIn(range) \in Seq(Nat) /\ Len(BytesIn(range)) = mbufChainLen(mbuf)
    BY <1>2, <2>1, ChainBytes, Zenon DEF BytesIn
  <2>3. range.offset = 0
    BY <1>2, Zenon DEF RangeFits
  <2>4. CASE WholeChain(range)
    BY <1>1, <2>2, <2>3, <2>4 DEF WholeChain
  <2>5. CASE WithinPage(range)
    <3>1. mbuf \in Seq(MbufRecords) /\ Len(mbuf) = 1 /\ range.length <= mbuf[1].len
      BY <2>1, <2>5 DEF MbufMapped, WithinPage
    <3>2. mbuf[1].len \in Nat
      <4>1. mbuf[1] \in MbufRecords
        BY <3>1
      <4> QED
        BY <4>1 DEF MbufRecords
    <3>3. /\ LengthOf(mbuf, 1, 0) = 0
          /\ \A j \in 1 .. Len(mbuf) : LengthOf(mbuf, 1, j) = LengthOf(mbuf, 1, j - 1) + mbuf[j].len
      BY <3>1, ChainLengths
    <3>4. 1 \in 1 .. Len(mbuf) /\ 1 - 1 = 0
      BY <3>1
    <3>5. LengthOf(mbuf, 1, 1) = 0 + mbuf[1].len
      BY <3>3, <3>4, Zenon
    <3>6. mbufChainLen(mbuf) = mbuf[1].len
      BY <3>1, <3>2, <3>5 DEF mbufChainLen
    <3> QED
      BY <1>1, <2>2, <2>3, <3>1, <3>2, <3>6
  <2> QED
    BY <1>2, <2>2, <2>4, <2>5, Zenon DEF RangeFits
<1>3. CASE range.md # Mbuf
  <2>1. BytesIn(range) = BytesOf(range.md)
    BY <1>3, Zenon DEF BytesIn
  <2>2. BytesOf(range.md) \in Seq(Nat)
    <3>1. CASE range.md = Data
      <4>1. data \in DataBuffers \cup {<<>>}
        BY DEF MemoryTypes
      <4>2. <<>> \in Seq(Nat)
        OBVIOUS
      <4>3. data \in Seq(Nat)
        BY <4>1, <4>2, BuffersAssumption, Zenon
      <4> QED
        BY <3>1, <4>3, Zenon DEF BytesOf
    <3>2. CASE range.md # Data
      <4>1. range.md \in DOMAIN Own
        BY <1>1, <1>3, <3>2, Zenon DEF Descriptors
      <4> QED
        BY <3>2, <4>1, OwnAssumption, Zenon DEF BytesOf
    <3> QED
      BY <3>1, <3>2, Zenon
  <2> QED
    BY <1>3, <2>1, <2>2, Zenon DEF RangeFits
<1> QED
  BY <1>2, <1>3, Zenon

(* All bytes, by range.                                                    *)
LEMMA BytesOfRanges ==
  ASSUME MemoryTypes, RangesFit
  PROVE  /\ Len(AllBytes) = RangesLength(Ranges)
         /\ \A i \in DOMAIN Ranges : \A k \in 1 .. Ranges[i].length :
              AllBytes[RangeStart(Ranges, i) + k] = BytesIn(Ranges[i])[Ranges[i].offset + k]
<1>1. PICK ranges \in Seq(RangeRecords), n \in Nat : ranges = Ranges /\ n = Len(ranges)
  BY RangesKnown, Zenon
<1>2. /\ DOMAIN ranges = 1 .. n
      /\ \A i \in 1 .. n : /\ ranges[i] \in RangeRecords /\ RangeFits(ranges[i])
                           /\ ranges[i].offset \in Nat /\ ranges[i].length \in Nat
  <2>1. DOMAIN ranges = 1 .. n /\ \A i \in 1 .. n : ranges[i] \in RangeRecords
    BY <1>1
  <2> QED
    BY <1>1, <2>1, RangesKnown, Zenon DEF RangesFit
<1> DEFINE one(i) == SubSeq(BytesIn(ranges[i]), ranges[i].offset + 1,
                            ranges[i].offset + ranges[i].length)
           seqs == [i \in 1 .. n |-> one(i)]
<1>3. ASSUME NEW i \in 1 .. n
      PROVE  /\ one(i) \in Seq(Nat) /\ Len(one(i)) = ranges[i].length
             /\ \A k \in 1 .. ranges[i].length : one(i)[k] = BytesIn(ranges[i])[ranges[i].offset + k]
  <2>1. PICK o \in Nat, l \in Nat : o = ranges[i].offset /\ l = ranges[i].length
    BY <1>2, Zenon
  <2>2. PICK r \in RangeRecords : r = ranges[i] /\ RangeFits(r)
    BY <1>2, Zenon
  <2>3. BytesIn(r) \in Seq(Nat) /\ r.offset + r.length <= Len(BytesIn(r))
    BY <2>2, RangeWithin, Zenon
  <2>4. PICK bytes \in Seq(Nat) : bytes = BytesIn(ranges[i]) /\ o + l <= Len(bytes)
    BY <2>1, <2>2, <2>3, Zenon
  <2>5. one(i) = SubSeq(bytes, o + 1, o + l)
    BY <2>1, <2>4, Zenon
  <2>6. /\ SubSeq(bytes, o + 1, o + l) \in Seq(Nat) /\ Len(SubSeq(bytes, o + 1, o + l)) = l
        /\ \A k \in 1 .. l : SubSeq(bytes, o + 1, o + l)[k] = bytes[o + k]
    BY <2>4
  <2> QED
    BY <2>1, <2>4, <2>5, <2>6, Zenon
<1>4. AllBytes = Joined(seqs)
  BY <1>1, <1>2, Zenon DEF AllBytes, BytesIn
<1> HIDE DEF one
<1>5. seqs \in Seq(Seq(Nat)) /\ Len(seqs) = n /\ \A i \in 1 .. n : seqs[i] = one(i)
  <2>1. PICK X : X = Seq(Nat)
    BY Zenon
  <2>2. seqs \in [1 .. n -> X]
    BY <1>3, <2>1, Zenon
  <2>3. \A i \in 1 .. n : seqs[i] = one(i)
    BY Zenon
  <2> HIDE DEF seqs
  <2>4. seqs \in Seq(X) /\ Len(seqs) = n
    BY <2>2
  <2> QED
    BY <2>1, <2>3, <2>4, Zenon
<1> HIDE DEF seqs
<1>6. PICK w : w = Lengths(seqs)
  BY Zenon
<1>7. \A i \in 1 .. n : w[i] = ranges[i].length /\ w[i] \in Nat
  <2> TAKE i \in 1 .. n
  <2>1. w[i] = Len(seqs[i])
    BY <1>5, <1>6 DEF Lengths
  <2>2. seqs[i] = one(i) /\ Len(one(i)) = ranges[i].length
    BY <1>3, <1>5, Zenon
  <2>3. w[i] = ranges[i].length
    BY <2>1, <2>2, Zenon
  <2> QED
    BY <1>2, <2>3, Zenon
<1>8. \A i \in 1 .. n + 1 : RangeStart(ranges, i) = Total(w, 1, i - 1)
  <2>1. DOMAIN w = 1 .. n /\ w = [k \in DOMAIN w |-> w[k]]
    BY <1>5, <1>6, Zenon DEF Lengths
  <2>2. DOMAIN ranges = 1 .. n
    BY <1>2
  <2> QED
    <3>1. RangeLengths(w, ranges, n)
      BY <1>7, <2>1, <2>2, Zenon DEF RangeLengths
    <3> QED
      BY <3>1, RangeStartIsTotal, Zenon
<1>9. /\ Len(Joined(seqs)) = Total(w, 1, n)
      /\ \A i \in 1 .. n : \A k \in 1 .. Len(seqs[i]) :
              Joined(seqs)[Total(w, 1, i - 1) + k] = seqs[i][k]
  <2>1. seqs \in Seq(Seq(Nat))
    BY <1>5, Zenon
  <2>2. /\ Len(Joined(seqs)) = Total(Lengths(seqs), 1, Len(seqs))
        /\ \A i \in 1 .. Len(seqs) : \A k \in 1 .. Len(seqs[i]) :
              Joined(seqs)[Total(Lengths(seqs), 1, i - 1) + k] = seqs[i][k]
    BY ONLY <2>1, JoinedPlaces, Zenon
  <2> QED
    BY <1>5, <1>6, <2>2, Zenon
<1>10. Len(AllBytes) = RangesLength(Ranges)
  <2>1. n + 1 \in 1 .. n + 1 /\ (n + 1) - 1 = n
    OBVIOUS
  <2>2. RangeStart(ranges, n + 1) = Total(w, 1, n)
    BY <1>8, <2>1, Zenon
  <2> QED
    BY <1>1, <1>4, <1>9, <2>2, Zenon DEF RangesLength
<1>11. ASSUME NEW i \in 1 .. n, NEW k \in 1 .. ranges[i].length
       PROVE  AllBytes[RangeStart(ranges, i) + k] = BytesIn(ranges[i])[ranges[i].offset + k]
  <2>1. i \in 1 .. n + 1
    OBVIOUS
  <2>2. RangeStart(ranges, i) = Total(w, 1, i - 1)
    BY <1>8, <2>1, Zenon
  <2>3. seqs[i] = one(i) /\ Len(seqs[i]) = ranges[i].length
    BY <1>3, <1>5, Zenon
  <2>4. AllBytes[RangeStart(ranges, i) + k] = seqs[i][k]
    BY <1>4, <1>9, <2>2, <2>3, Zenon
  <2> QED
    BY <1>3, <2>3, <2>4, Zenon
<1> QED
  BY <1>1, <1>2, <1>10, <1>11, Zenon

(* The range in which an offset lies.                                      *)
LEMMA RangeFound ==
  ASSUME MemoryTypes, NEW p \in Nat, p < RangesLength(Ranges), NEW i, i = RangeAt(p)
  PROVE  /\ i \in DOMAIN Ranges /\ i # 0
         /\ RangeStart(Ranges, i) \in Nat /\ RangeStart(Ranges, i) <= p
         /\ RangeStart(Ranges, i + 1) = RangeStart(Ranges, i) + Ranges[i].length
         /\ p < RangeStart(Ranges, i + 1)
<1>1. PICK ranges \in Seq(RangeRecords), n \in Nat :
        ranges = Ranges /\ n = Len(ranges) /\ DOMAIN ranges = 1 .. n
  BY RangesKnown, Zenon
<1> DEFINE S(j) == RangeStart(ranges, j)
           hit == {j \in 1 .. n : p < S(j + 1)}
<1>2. /\ S(1) = 0 /\ \A j \in 1 .. n + 1 : S(j) \in Nat
      /\ \A j \in 1 .. n : S(j + 1) = S(j) + ranges[j].length
  BY <1>1, RangeStarts
<1>3. i = IF hit = {} THEN 0 ELSE Min(hit)
  BY <1>1, Zenon DEF RangeAt
<1>4. p < S(n + 1)
  BY <1>1, Zenon DEF RangesLength
<1> HIDE DEF S
<1>5. n # 0
  <2>1. 0 + 1 = 1
    OBVIOUS
  <2> QED
    BY <1>2, <1>4, <2>1
<1>6. n \in hit
  <2>1. n \in 1 .. n
    BY <1>5
  <2> QED
    BY <1>4, <2>1, Zenon
<1>7. i \in hit /\ \A y \in hit : i <= y
  <2>1. hit \in SUBSET Nat
    OBVIOUS
  <2> HIDE DEF hit
  <2>2. i = Min(hit)
    BY <1>3, <1>6, Zenon
  <2> QED
    BY <1>6, <2>1, <2>2, MinIsSmallest
<1>8. i \in 1 .. n /\ p < S(i + 1)
  BY <1>7, Zenon
<1>9. S(i) <= p
  <2>1. CASE i = 1
    BY <1>2, <2>1
  <2>2. CASE i # 1
    <3>1. PICK j \in 1 .. n : j = i - 1 /\ j + 1 = i /\ ~(i <= j)
      BY <1>8, <2>2
    <3>2. ~(p < S(i))
      BY <1>7, <3>1, Zenon
    <3>3. S(i) \in Nat
      BY <1>2, <1>8
    <3> QED
      BY <3>2, <3>3
  <2> QED
    BY <2>1, <2>2
<1>10. S(i) \in Nat /\ i # 0 /\ S(i + 1) = S(i) + ranges[i].length
  <2>1. i \in 1 .. n + 1 /\ i # 0
    BY <1>8
  <2> QED
    BY <1>2, <1>8, <2>1, Zenon
<1> QED
  BY <1>1, <1>8, <1>9, <1>10, Zenon DEF S

(* Cutting an answer of ql bytes to the length of the range.               *)
LEMMA CutAnswer ==
  ASSUME NEW l \in Nat, NEW inside \in Nat, NEW ql \in Nat, inside < l, ql >= 1,
         inside > 0 => inside + ql <= l, NEW c, c = IF ql > l THEN l ELSE ql
  PROVE  c \in 1 .. l - inside /\ c \in 1 .. ql /\ (inside + c < l => c = ql)
  OBVIOUS

(* Inside a range a walk halts only where memory breaks, and an answer     *)
(* stays within the range.                                                 *)
MayStart(bytes, o, inside) == inside > 0 => bytes[o + inside + 1] # bytes[o + inside] + 1
StaysWithin(bytes, l, inside, within, q, c) ==
  /\ q.address \in Nat /\ c \in 1 .. l - inside
  /\ \A k \in 1 .. c : bytes[within + k] = q.address + k - 1
  /\ inside + c < l => bytes[within + c + 1] # bytes[within + c] + 1

(* The answer is not empty, and is made of the bytes from its place on.    *)
RightBytes(bytes, within, q, c) ==
  /\ q.address \in Nat /\ c \in Nat /\ c > 0
  /\ \A k \in 1 .. c : bytes[within + k] = q.address + k - 1

(* Cutting an answer leaves it right, wherever it starts.                  *)
LEMMA CutIsRight ==
  ASSUME NEW bytes, NEW within, NEW q, q.address \in Nat, NEW l \in Nat, l > 0,
         NEW ql \in Nat, ql = q.length, ql >= 1,
         \A k \in 1 .. q.length : bytes[within + k] = q.address + k - 1,
         NEW c, c = IF q.length > l THEN l ELSE q.length
  PROVE  RightBytes(bytes, within, q, c)
<1>1. c = IF ql > l THEN l ELSE ql
  BY Zenon
<1>2. c \in Nat /\ c > 0 /\ \A k \in 1 .. c : k \in 1 .. ql
  BY ONLY <1>1, l \in Nat, l > 0, ql \in Nat, ql >= 1
<1> QED
  BY <1>2, Zenon DEF RightBytes

(* The answer for a range of a buffer.                                     *)
LEMMA BufferBytes ==
  ASSUME NEW bytes \in Seq(Nat), NEW l \in Nat, l > 0, NEW within \in Nat, within < Len(bytes),
         NEW q, q = BufferSegment(bytes, within),
         NEW c, c = IF q.length > l THEN l ELSE q.length
  PROVE  RightBytes(bytes, within, q, c)
<1>1. IsRun(bytes, within, q)
  BY ONLY bytes \in Seq(Nat), within \in Nat, within < Len(bytes), q = BufferSegment(bytes, within), BufferRun
<1>2. /\ q.address = bytes[within + 1] /\ q.length \in 1 .. Len(bytes) - within
      /\ \A k \in 1 .. q.length : bytes[within + k] = q.address + k - 1
  BY <1>1, Zenon DEF IsRun
<1>3. bytes[within + 1] \in Nat
  BY ONLY bytes \in Seq(Nat), within \in Nat, within < Len(bytes)
<1>4. q.address \in Nat
  BY <1>2, <1>3, Zenon
<1>5. q.length \in Nat /\ q.length >= 1
  BY ONLY <1>2, bytes \in Seq(Nat), within \in Nat, SMTT(60)
<1> QED
  BY <1>2, <1>4, <1>5, CutIsRight, Zenon

(* The answer for a range of a chain.                                      *)
LEMMA ChainBytesRight ==
  ASSUME MemoryTypes, PlaceIsStart, NEW within \in Nat, within < Len(MbufBytes),
         NEW l \in Nat, l > 0, NEW q, q = MbufSegment(MbufWith(within), within),
         NEW c, c = IF q.length > l THEN l ELSE q.length
  PROVE  RightBytes(MbufBytes, within, q, c)
<1>1. MbufMapped
  BY MbufKnown
<1>2. MbufBytes \in Seq(Nat) /\ Len(MbufBytes) = mbufChainLen(mbuf)
  BY <1>1, ChainBytes, Zenon
<1>3. PICK n \in Nat : n = mbufChainLen(mbuf) /\ within < n
  BY <1>2
<1>4. within < mbufChainLen(mbuf)
  BY <1>3, Zenon
<1>5. /\ q.address \in Nat /\ q.length \in 1 .. mbufChainLen(mbuf) - within
      /\ \A k \in 1 .. q.length : MbufBytes[within + k] = q.address + k - 1
  BY ONLY <1>1, <1>4, PlaceIsStart, within \in Nat, q = MbufSegment(MbufWith(within), within), MbufRun
<1>6. q.length \in 1 .. n - within
  BY <1>3, <1>5, Zenon
<1>7. q.length \in Nat /\ q.length >= 1
  BY ONLY <1>6, n \in Nat, within \in Nat
<1> QED
  BY <1>5, <1>7, CutIsRight, Zenon

(* A range of a buffer from o on and l bytes long: the answer, cut to l,   *)
(* stays within the range although the cut does not take into account how  *)
(* far the walk has come, because a walk stops inside a range only at a    *)
(* break, and then the range ends with one.                                *)
LEMMA BufferAnswer ==
  ASSUME NEW bytes \in Seq(Nat), NEW o \in Nat, NEW l \in Nat, NEW inside \in Nat,
         inside < l, o + l <= Len(bytes), PartEndsWithSegment(bytes, o, l),
         MayStart(bytes, o, inside), NEW within \in Nat, within = o + inside,
         NEW q, q = BufferSegment(bytes, within),
         NEW c, c = IF q.length > l THEN l ELSE q.length
  PROVE  StaysWithin(bytes, l, inside, within, q, c)
<1>1. within < Len(bytes)
  OBVIOUS
<1>2. /\ q.address = bytes[within + 1]
      /\ q.length \in 1 .. Len(bytes) - within
      /\ \A k \in 1 .. q.length : bytes[within + k] = q.address + k - 1
      /\ \A k \in within + 2 .. within + q.length : bytes[k] = bytes[k - 1] + 1
      /\ within + q.length < Len(bytes) =>
              bytes[within + q.length + 1] # bytes[within + q.length] + 1
  <2>1. IsRun(bytes, within, q)
    BY ONLY bytes \in Seq(Nat), within \in Nat, q = BufferSegment(bytes, within), <1>1, BufferRun
  <2> QED
    BY <2>1, Zenon DEF IsRun
<1>3. PICK ql \in Nat, n \in Nat :
        /\ ql = q.length /\ n = Len(bytes) /\ ql \in 1 .. n - within
        /\ n >= o + l /\ c = IF ql > l THEN l ELSE ql
  <2>1. q.length \in Nat /\ Len(bytes) \in Nat
    BY ONLY bytes \in Seq(Nat), within \in Nat, <1>1, <1>2, SMTT(60)
  <2>2. Len(bytes) >= o + l
    BY ONLY <2>1, o \in Nat, l \in Nat, o + l <= Len(bytes)
  <2> QED
    BY <1>2, <2>1, <2>2, Zenon
<1>4. q.address \in Nat
  <2>1. bytes[within + 1] \in Nat
    BY ONLY <1>1, bytes \in Seq(Nat), within \in Nat
  <2> QED
    BY <1>2, <2>1, Zenon
<1>5. inside > 0 => inside + ql <= l
  <2> SUFFICES ASSUME inside > 0, inside + ql > l PROVE FALSE
    <3>1. ~(inside + ql > l) => inside + ql <= l
      BY ONLY l \in Nat, inside \in Nat, ql \in Nat
    <3> QED
      BY <3>1, Zenon
  <2>1. PICK end \in Nat : end = o + l
    OBVIOUS
  <2>2. end < Len(bytes) /\ end + 1 \in within + 2 .. within + ql /\ (end + 1) - 1 = end
    <3>1. end < n /\ end + 1 \in within + 2 .. within + ql /\ (end + 1) - 1 = end
      BY ONLY <1>3, <2>1, o \in Nat, l \in Nat, inside \in Nat, within \in Nat,
              ql \in Nat, n \in Nat, end \in Nat,
              within = o + inside, inside < l, inside + ql > l
    <3> QED
      BY <1>3, <3>1, Zenon
  <2>3. PICK b \in o + 2 .. end : b = within + 1 /\ b - 1 = within
    BY <2>1
  <2>4. bytes[b] # bytes[b - 1] + 1
    <3>1. bytes[o + inside + 1] # bytes[o + inside] + 1
      BY Zenon DEF MayStart
    <3> QED
      BY <2>3, <3>1, Zenon
  <2>5. bytes[end + 1] # bytes[(end + 1) - 1] + 1
    BY <2>1, <2>2, <2>3, <2>4, Zenon DEF PartEndsWithSegment
  <2>6. bytes[end + 1] = bytes[(end + 1) - 1] + 1
    BY <1>2, <1>3, <2>2, Zenon
  <2> QED
    BY <2>5, <2>6, Zenon
<1>6. c \in 1 .. l - inside /\ c \in 1 .. ql /\ (inside + c < l => c = ql)
  <2>1. ql >= 1 /\ c = IF ql > l THEN l ELSE ql
    BY ONLY <1>3, ql \in Nat, n \in Nat, within \in Nat
  <2> QED
    BY ONLY <1>5, <2>1, l \in Nat, inside \in Nat, ql \in Nat, inside < l, CutAnswer
<1>7. \A k \in 1 .. c : bytes[within + k] = q.address + k - 1
  <2>1. \A k \in 1 .. c : k \in 1 .. ql
    BY <1>3, <1>6, SMTT(60)
  <2> QED
    BY <1>2, <1>3, <2>1, Zenon
<1>8. ASSUME inside + c < l PROVE bytes[within + c + 1] # bytes[within + c] + 1
  <2>1. c = ql
    BY <1>6, <1>8, Zenon
  <2>2. within + ql < n
    BY ONLY <1>3, <1>8, <2>1, o \in Nat, l \in Nat, inside \in Nat, within \in Nat,
            ql \in Nat, n \in Nat, within = o + inside
  <2>3. within + ql < Len(bytes)
    BY <1>3, <2>2, Zenon
  <2> QED
    BY <1>2, <1>3, <2>1, <2>3, Zenon
<1> QED
  BY <1>4, <1>6, <1>7, <1>8, Zenon DEF StaysWithin

(* A range of a chain: either it is the whole chain, which the answer does *)
(* not leave, or one answer is all of it.                                  *)
LEMMA MbufAnswer ==
  ASSUME MemoryTypes, PlaceIsStart, NEW range \in RangeRecords, range.md = Mbuf, RangeFits(range),
         NEW inside \in Nat, inside < range.length, inside > 0 => WholeChain(range),
         NEW q, q = MbufSegment(MbufWith(inside), inside),
         NEW c, c = IF q.length > range.length THEN range.length ELSE q.length
  PROVE  /\ range.offset = 0 /\ q.address \in Nat /\ c \in 1 .. range.length - inside
         /\ \A k \in 1 .. c : MbufBytes[inside + k] = q.address + k - 1
         /\ inside + c < range.length => WholeChain(range)
<1>1. MbufMapped
  BY MbufKnown
<1>2. PICK l \in Nat : l = range.length
  BY DEF RangeRecords
<1>3. range.offset = 0 /\ (WholeChain(range) \/ WithinPage(range))
  BY Zenon DEF RangeFits
<1>4. PICK n \in Nat : n = mbufChainLen(mbuf) /\ l <= n
  <2>1. MbufBytes \in Seq(Nat) /\ Len(MbufBytes) = mbufChainLen(mbuf)
    BY <1>1, ChainBytes, Zenon
  <2>2. Len(MbufBytes) \in Nat
    BY <2>1
  <2>3. range.offset + range.length <= Len(MbufBytes)
    <3>1. range.offset + range.length <= Len(BytesIn(range))
      BY RangeWithin, Zenon
    <3> QED
      BY <3>1, Zenon DEF BytesIn
  <2>4. 0 + l = l
    BY <1>2
  <2>5. l <= Len(MbufBytes)
    BY <1>2, <1>3, <2>3, <2>4, Zenon
  <2> QED
    BY <2>1, <2>2, <2>5, Zenon
<1>5. inside < n
  BY ONLY <1>2, <1>4, l \in Nat, n \in Nat, inside \in Nat, inside < range.length
<1>6. /\ q.address \in Nat /\ q.length \in 1 .. n - inside
      /\ \A k \in 1 .. q.length : MbufBytes[inside + k] = q.address + k - 1
      /\ /\ Len(mbuf) = 1 /\ inside = 0
         /\ (mbuf[1].data % PageSize) + mbuf[1].len <= PageSize
         => q.length = mbuf[1].len
  <2>1. inside < mbufChainLen(mbuf)
    BY <1>4, <1>5, Zenon
  <2>2. /\ q.address \in Nat /\ q.length \in 1 .. mbufChainLen(mbuf) - inside
        /\ \A k \in 1 .. q.length : MbufBytes[inside + k] = q.address + k - 1
        /\ /\ Len(mbuf) = 1 /\ inside = 0
           /\ (mbuf[1].data % PageSize) + mbuf[1].len <= PageSize
           => q.length = mbuf[1].len
    BY ONLY <1>1, <2>1, PlaceIsStart, inside \in Nat, q = MbufSegment(MbufWith(inside), inside), MbufRun
  <2> QED
    BY <1>4, <2>2, Zenon
<1>7. PICK ql \in Nat : ql = q.length /\ ql >= 1 /\ inside + ql <= n
  <2>1. q.length \in Nat /\ q.length >= 1 /\ inside + q.length <= n
    BY ONLY <1>6, n \in Nat, inside \in Nat
  <2> QED
    BY <2>1, Zenon
<1>8. WholeChain(range) => l = n
  BY <1>2, <1>4, Zenon DEF WholeChain
<1>9. inside > 0 => inside + ql <= l
  BY <1>7, <1>8, Zenon
<1>10. c = IF ql > l THEN l ELSE ql
  BY <1>2, <1>7, Zenon
<1>11. inside < l
  BY <1>2, Zenon
<1>12. c \in 1 .. l - inside /\ c \in 1 .. ql /\ (inside + c < l => c = ql)
  BY ONLY <1>7, <1>9, <1>10, <1>11, l \in Nat, inside \in Nat, ql \in Nat, CutAnswer, Zenon
<1>13. \A k \in 1 .. c : MbufBytes[inside + k] = q.address + k - 1
  <2>1. \A k \in 1 .. c : k \in 1 .. ql
    BY ONLY <1>12, ql \in Nat
  <2> QED
    BY <1>6, <1>7, <2>1, Zenon
<1>14. ASSUME inside + c < l, ~WholeChain(range) PROVE FALSE
  <2>1. WithinPage(range) /\ ~(inside > 0)
    BY <1>3, <1>14, Zenon
  <2>2. inside = 0
    BY ONLY <2>1, inside \in Nat
  <2>3. ql = mbuf[1].len /\ l <= mbuf[1].len
    BY <1>2, <1>6, <1>7, <2>1, <2>2, Zenon DEF WithinPage
  <2>4. c = ql /\ l <= ql
    BY <1>12, <1>14, <2>3, Zenon
  <2> QED
    BY ONLY <1>14, <2>2, <2>4, l \in Nat, ql \in Nat
<1> QED
  BY <1>2, <1>3, <1>6, <1>12, <1>13, <1>14, Zenon

(* The answer of the combined descriptor at the place the walk has come to *)
(* is right as far as its range goes.  If the ranges end with segments it  *)
(* stays within its range, and leaves the walk where another answer may    *)
(* begin.                                                                  *)
LEMMA AnswerRight ==
  ASSUME MemoryTypes, PlaceIsStart, RangesFit, HaltsAtSegments,
         position < RangesLength(Ranges),
         NEW i, i = RangeAt(position), NEW seg, seg = SegmentIn(i, position)
  PROVE  /\ seg.address \in Nat /\ seg.length \in Nat /\ seg.length > 0
         /\ \A k \in 1 .. seg.length : position + k <= RangeStart(Ranges, i + 1) =>
              AllBytes[position + k] = seg.address + k - 1
         /\ RangesEndWithSegments =>
              /\ position + seg.length <= RangeStart(Ranges, i + 1)
              /\ position + seg.length < RangeStart(Ranges, i + 1) =>
                   SegmentEnds(Ranges[i],
                               (position + seg.length) - RangeStart(Ranges, i) + Ranges[i].offset)
<1>1. PICK p \in Nat : p = position
  BY DEF MemoryTypes
<1>2. /\ i \in DOMAIN Ranges /\ i # 0
      /\ RangeStart(Ranges, i) \in Nat /\ RangeStart(Ranges, i) <= p
      /\ RangeStart(Ranges, i + 1) = RangeStart(Ranges, i) + Ranges[i].length
      /\ p < RangeStart(Ranges, i + 1)
  BY <1>1, RangeFound
<1>3. PICK r \in RangeRecords : r = Ranges[i] /\ RangeFits(r)
  <2>1. Ranges[i] \in RangeRecords
    <3>1. PICK rr \in Seq(RangeRecords) : rr = Ranges
      BY RangesKnown, Zenon
    <3>2. rr[i] \in RangeRecords
      BY <1>2, <3>1
    <3> QED
      BY <3>1, <3>2, Zenon
  <2> QED
    BY <1>2, <2>1, Zenon DEF RangesFit
<1>4. PICK o \in Nat, l \in Nat, s \in Nat : o = r.offset /\ l = r.length /\ s = RangeStart(Ranges, i)
  BY <1>2 DEF RangeRecords
<1>5. PICK inside \in Nat, within \in Nat :
        /\ inside = p - s /\ inside < l /\ p = s + inside /\ within = o + inside
        /\ within = p - s + o /\ (inside > 0 <=> s < p)
  <2>1. s <= p /\ p < s + l
    BY <1>2, <1>3, <1>4, Zenon
  <2>2. /\ p - s \in Nat /\ o + (p - s) \in Nat /\ p - s < l /\ p = s + (p - s)
        /\ o + (p - s) = p - s + o /\ (p - s > 0 <=> s < p)
    BY ONLY <2>1, p \in Nat, s \in Nat, l \in Nat, o \in Nat
  <2> QED
    BY <2>2, Zenon
<1>6. RangesEndWithSegments => (inside > 0 => SegmentEnds(r, within))
  BY <1>1, <1>2, <1>3, <1>4, <1>5, Zenon DEF HaltsAtSegments, HaltsInside
<1>7. PICK q, c : /\ q = IF r.md = Mbuf THEN MbufSegment(MbufWith(within), within)
                                        ELSE BufferSegment(BytesOf(r.md), within)
                  /\ c = IF q.length > l THEN l ELSE q.length
  BY Zenon
<1>8. seg.address = q.address /\ seg.length = c
  <2>1. seg = [address |-> q.address, length |-> Clipped(q.length, r)]
    BY <1>1, <1>3, <1>4, <1>5, <1>7, Zenon DEF SegmentIn
  <2>2. Clipped(q.length, r) = c
    BY <1>4, <1>7, Zenon DEF Clipped
  <2> QED
    BY <2>1, <2>2
<1>9. RightBytes(BytesIn(r), within, q, c)
  <2>1. BytesIn(r) \in Seq(Nat) /\ r.offset + r.length <= Len(BytesIn(r))
    BY <1>3, RangeWithin, Zenon
  <2>2. PICK bytes \in Seq(Nat) : bytes = BytesIn(r) /\ o + l <= Len(bytes)
    BY <1>4, <2>1, Zenon
  <2>3. within < Len(bytes) /\ l > 0
    BY ONLY <1>5, <2>2, bytes \in Seq(Nat), o \in Nat, l \in Nat, inside \in Nat, within \in Nat
  <2>4. CASE r.md = Mbuf
    <3>1. BytesIn(r) = MbufBytes /\ within < Len(MbufBytes)
      BY <2>2, <2>3, <2>4, Zenon DEF BytesIn
    <3>2. q = MbufSegment(MbufWith(within), within)
      BY <1>7, <2>4, Zenon
    <3>3. RightBytes(MbufBytes, within, q, c)
      BY ONLY MemoryTypes, PlaceIsStart, within \in Nat, l \in Nat, <1>7, <2>3, <3>1, <3>2,
              ChainBytesRight, SMTT(60)
    <3> QED
      BY <3>1, <3>3, Zenon
  <2>5. CASE r.md # Mbuf
    <3>1. bytes = BytesOf(r.md)
      BY <2>2, <2>5, Zenon DEF BytesIn
    <3>2. q = BufferSegment(bytes, within)
      BY <1>7, <2>5, <3>1, Zenon
    <3>3. RightBytes(bytes, within, q, c)
      BY ONLY bytes \in Seq(Nat), within \in Nat, l \in Nat, <1>7, <2>3, <3>2, BufferBytes, SMTT(60)
    <3> QED
      BY <2>2, <3>3, Zenon
  <2> QED
    BY <2>4, <2>5, Zenon
<1>10. ASSUME RangesEndWithSegments
       PROVE  c \in 1 .. l - inside /\ (inside + c < l => SegmentEnds(r, within + c))
  <2>0. inside > 0 => SegmentEnds(r, within)
    BY <1>6, <1>10, Zenon
  <2>1. CASE r.md = Mbuf
    <3>1. o = 0
      BY <1>3, <1>4, <2>1, Zenon DEF RangeFits
    <3>2. within = inside
      BY ONLY <1>5, <3>1, inside \in Nat
    <3>3. inside > 0 => WholeChain(r)
      BY <2>0, <2>1, Zenon DEF SegmentEnds
    <3>4. q = MbufSegment(MbufWith(inside), inside) /\ inside < r.length
          /\ c = IF q.length > r.length THEN r.length ELSE q.length
      BY <1>4, <1>5, <1>7, <2>1, <3>2, ZenonT(60)
    <3>5. /\ q.address \in Nat /\ c \in 1 .. r.length - inside
          /\ \A k \in 1 .. c : MbufBytes[inside + k] = q.address + k - 1
          /\ inside + c < r.length => WholeChain(r)
      BY ONLY MemoryTypes, PlaceIsStart, r \in RangeRecords, <1>3, <2>1, <3>3, <3>4,
              inside \in Nat, MbufAnswer, SMTT(60)
    <3>6. BytesIn(r) = MbufBytes
      BY <2>1, Zenon DEF BytesIn
    <3> QED
      BY <1>4, <2>1, <3>2, <3>5, <3>6, Zenon DEF SegmentEnds
  <2>2. CASE r.md # Mbuf
    <3>1. PICK bytes \in Seq(Nat) : bytes = BytesOf(r.md) /\ bytes = BytesIn(r)
      BY <1>3, <2>2, RangeWithin, Zenon DEF BytesIn
    <3>2. o + l <= Len(bytes) /\ PartEndsWithSegment(bytes, o, l)
      BY <1>2, <1>3, <1>4, <1>10, <2>2, <3>1, Zenon DEF RangeFits, RangesEndWithSegments
    <3>3. /\ within = o + inside /\ inside < l /\ q = BufferSegment(bytes, within)
          /\ c = IF q.length > l THEN l ELSE q.length
      BY <1>5, <1>7, <2>2, <3>1, Zenon
    <3>4. \A x : SegmentEnds(r, x) <=> bytes[x + 1] # bytes[x] + 1
      BY <2>2, <3>1, Zenon DEF SegmentEnds
    <3>5. MayStart(bytes, o, inside)
      BY <2>0, <3>3, <3>4, Zenon DEF MayStart
    <3>6. StaysWithin(bytes, l, inside, within, q, c)
      BY ONLY bytes \in Seq(Nat), o \in Nat, l \in Nat, inside \in Nat, within \in Nat,
              <3>2, <3>3, <3>5, BufferAnswer, SMTT(60)
    <3> QED
      BY <3>1, <3>4, <3>6, Zenon DEF StaysWithin
  <2> QED
    BY <2>1, <2>2, Zenon
<1>11. PICK cn \in Nat : cn = c /\ cn > 0
  BY <1>9, Zenon DEF RightBytes
<1>12. PICK t \in Nat : t = RangeStart(Ranges, i + 1) /\ t = s + l
  <2>1. s + l \in Nat
    BY ONLY s \in Nat, l \in Nat
  <2> QED
    BY <1>2, <1>3, <1>4, <2>1, Zenon
<1>13. ASSUME RangesEndWithSegments
       PROVE  p + cn <= t /\ (p + cn < t => SegmentEnds(r, (p + cn) - s + o))
  <2>1. cn \in 1 .. l - inside /\ (inside + cn < l => SegmentEnds(r, within + cn))
    BY <1>11, <1>13, <1>10, Zenon
  <2>2. /\ p + cn <= t /\ (p + cn < t => inside + cn < l)
        /\ (p + cn) - s + o = within + cn
    BY ONLY <1>5, <1>12, <2>1, p \in Nat, cn \in Nat, s \in Nat, l \in Nat, o \in Nat, t \in Nat,
            inside \in Nat, within \in Nat, SMTT(60)
  <2> QED
    BY <2>1, <2>2, Zenon
<1>14. ASSUME NEW k \in 1 .. cn, p + k <= t PROVE AllBytes[p + k] = q.address + k - 1
  <2>1. PICK j \in 1 .. l : j = inside + k /\ s + j = p + k /\ o + j = within + k
    BY ONLY <1>5, <1>12, <1>14, p \in Nat, cn \in Nat, s \in Nat, l \in Nat, o \in Nat, t \in Nat,
            inside \in Nat, within \in Nat, k \in 1 .. cn, SMTT(60)
  <2>2. AllBytes[s + j] = BytesIn(r)[o + j]
    BY <1>2, <1>3, <1>4, BytesOfRanges, Zenon
  <2>3. BytesIn(r)[within + k] = q.address + k - 1
    BY <1>9, <1>11, Zenon DEF RightBytes
  <2> QED
    BY <2>1, <2>2, <2>3, Zenon
<1>15. seg.address \in Nat /\ seg.length \in Nat /\ seg.length > 0
  BY <1>8, <1>9, Zenon DEF RightBytes
<1>16. \A k \in 1 .. seg.length : position + k <= RangeStart(Ranges, i + 1) =>
         AllBytes[position + k] = seg.address + k - 1
  BY <1>1, <1>8, <1>11, <1>12, <1>14, Zenon
<1>17. ASSUME RangesEndWithSegments
       PROVE  /\ position + seg.length <= RangeStart(Ranges, i + 1)
              /\ position + seg.length < RangeStart(Ranges, i + 1) =>
                   SegmentEnds(Ranges[i],
                               (position + seg.length) - RangeStart(Ranges, i) + Ranges[i].offset)
  BY <1>1, <1>3, <1>4, <1>8, <1>11, <1>12, <1>13, <1>17, Zenon
<1> QED
  BY <1>15, <1>16, <1>17, Zenon

-----------------------------------------------------------------------------
(* Steps *)

(* How often a descriptor is named.                                        *)
LEMMA NamedIsNumber ==
  ASSUME NEW ranges \in Seq(RangeRecords), NEW md
  PROVE  Named(ranges, md) \in Nat
<1>1. DOMAIN ranges = 1 .. Len(ranges) /\ Len(ranges) \in Nat
  OBVIOUS
<1>2. IsFiniteSet(DOMAIN ranges)
  BY <1>1, FS_Interval
<1>3. PICK S : S = {i \in DOMAIN ranges : ranges[i].md = md} /\ S \subseteq DOMAIN ranges
  BY Zenon
<1>4. IsFiniteSet(S)
  BY <1>2, <1>3, FS_Subset
<1>5. Cardinality(S) \in Nat
  BY <1>4, FS_CardinalityType
<1> QED
  BY <1>3, <1>5, Zenon DEF Named

(* No ranges name nothing.                                                 *)
LEMMA NoneNamed ==
  ASSUME NEW md
  PROVE  Named(<<>>, md) = 0
<1>1. {i \in DOMAIN <<>> : <<>>[i].md = md} = {}
  OBVIOUS
<1>2. Cardinality({}) = 0
  BY FS_EmptySet
<1> QED
  BY <1>1, <1>2, Zenon DEF Named

(* Initialising the combined descriptor that names nothing: whatever is in *)
(* the array, no reference is released that was not taken.                 *)
LEMMA RangesTaken ==
  ASSUME MemoryTypes, num_subranges = 0, ReferencesMatchRanges,
         NEW ranges \in Seq(RangeRecords), initWithDescriptorRanges(ranges)
  PROVE  /\ Ranges' = ranges /\ array' \in Seq(RangeRecords)
         /\ num_subranges' \in 0 .. Len(array') /\ ReferencesMatchRanges'
<1>1. PICK old \in Seq(RangeRecords) : old = array
  BY Zenon DEF MemoryTypes
<1>2. PICK rest \in Seq(RangeRecords) : rest = SubSeq(old, Len(ranges) + 1, Len(old))
  <2>1. SubSeq(old, Len(ranges) + 1, Len(old)) \in Seq(RangeRecords)
    OBVIOUS
  <2> QED
    BY <2>1, Zenon
<1>3. PICK written \in Seq(RangeRecords) : written = ranges \o rest
  <2>1. ranges \o rest \in Seq(RangeRecords)
    BY ONLY ranges \in Seq(RangeRecords), rest \in Seq(RangeRecords)
  <2> QED
    BY <2>1, Zenon
<1>4. /\ array' = written /\ num_subranges' = Len(ranges)
      /\ references' = [md \in Descriptors |->
           references[md] - Named(SubSeq(written, 1, 0), md) + Named(ranges, md)]
  BY <1>1, <1>2, <1>3, Zenon DEF initWithDescriptorRanges
<1>5. Len(written) = Len(ranges) + Len(rest) /\ SubSeq(written, 1, Len(ranges)) = ranges
  BY <1>3
<1>6. Ranges' = ranges
  BY <1>4, <1>5, Zenon DEF Ranges
<1>7. ReferencesMatchRanges'
  <2> SUFFICES ASSUME NEW md \in Descriptors PROVE references'[md] = Named(ranges, md)
    BY <1>6, Zenon DEF ReferencesMatchRanges
  <2>1. SubSeq(written, 1, 0) = <<>> /\ SubSeq(old, 1, 0) = <<>>
    OBVIOUS
  <2>2. references[md] = 0
    BY <1>1, <2>1, NoneNamed, Zenon DEF ReferencesMatchRanges, Ranges
  <2>3. Named(SubSeq(written, 1, 0), md) = 0
    BY <2>1, NoneNamed, Zenon
  <2>4. PICK x \in Nat : x = Named(ranges, md)
    BY NamedIsNumber, Zenon
  <2>5. references'[md] = 0 - 0 + x
    BY <1>4, <2>2, <2>3, <2>4, Zenon
  <2> QED
    BY <2>4, <2>5
<1> QED
  BY <1>4, <1>5, <1>6, <1>7

(* What does not change with the walk, the counts and the place in mbuf_md.*)
LEMMA SameRanges ==
  ASSUME UNCHANGED <<page_map, data, mbuf, array, num_subranges>>
  PROVE  /\ Ranges' = Ranges /\ AllBytes' = AllBytes /\ RangesFit' = RangesFit
         /\ \A r, x : SegmentEnds(r, x)' = SegmentEnds(r, x)
         /\ RangesEndWithSegments' = RangesEndWithSegments
         /\ \A x : RangeEnd(x)' = RangeEnd(x)
<1>1. Ranges' = Ranges
  BY Zenon DEF Ranges
<1>2. MbufBytes' = MbufBytes
  BY Zenon DEF MbufBytes, mbuf_data_to_physical
<1>3. \A md : BytesOf(md)' = BytesOf(md)
  BY Zenon DEF BytesOf
<1>4. AllBytes' = AllBytes
  BY <1>1, <1>2, <1>3, Zenon DEF AllBytes
<1>5. \A r : RangeFits(r)' = RangeFits(r)
  BY <1>3, Zenon DEF RangeFits, WholeChain, WithinPage
<1>6. RangesFit' = RangesFit
  BY <1>1, <1>5, Zenon DEF RangesFit
<1>7. \A r, x : SegmentEnds(r, x)' = SegmentEnds(r, x)
  BY <1>3, Zenon DEF SegmentEnds, WholeChain
<1>8. RangesEndWithSegments' = RangesEndWithSegments
  BY <1>1, <1>3, Zenon DEF RangesEndWithSegments
<1>9. \A x : RangeEnd(x)' = RangeEnd(x)
  BY <1>1, Zenon DEF RangeEnd, RangeAt
<1> QED
  BY <1>1, <1>4, <1>6, <1>7, <1>8, <1>9, Zenon

(* A structure is taken from the pool and given ranges that fit.           *)
LEMMA TakingRight ==
  ASSUME MemoryInv, structure = "pooled", structure' = "in_use",
         UNCHANGED <<page_map, prepareVars, walkVars>>,
         NEW ranges \in Seq(RangeRecords), initWithDescriptorRanges(ranges),
         mbuf' \in Chains \cup {<<>>}, data' \in DataBuffers \cup {<<>>}, PlaceIsStart',
         \A i \in DOMAIN ranges : RangeFits(ranges[i])'
  PROVE  MemoryInv'
<1>1. MemoryTypes /\ NothingLeft /\ ReferencesMatchRanges /\ PreparedAllOrNone
  BY Zenon DEF MemoryInv
<1>2. num_subranges = 0 /\ users = 0 /\ position = 0 /\ answer = NoAnswer
  BY <1>1, Zenon DEF NothingLeft
<1>3. /\ Ranges' = ranges /\ array' \in Seq(RangeRecords)
      /\ num_subranges' \in 0 .. Len(array') /\ ReferencesMatchRanges'
  BY <1>1, <1>2, RangesTaken, Zenon
<1>4. users' = 0 /\ position' = 0 /\ answer' = NoAnswer /\ prepare_count' = prepare_count
  BY <1>2, Zenon DEF prepareVars, walkVars
<1>5. MemoryTypes'
  <2>1. 0 \in Nat
    OBVIOUS
  <2> QED
    BY <1>1, <1>3, <1>4, <2>1, Zenon DEF MemoryTypes
<1>6. NothingLeft'
  BY Zenon DEF NothingLeft
<1>7. RangesFit'
  BY <1>3, Zenon DEF RangesFit
<1>8. /\ Len(ranges) \in Nat /\ DOMAIN ranges = 1 .. Len(ranges)
      /\ \A i \in 1 .. Len(ranges) + 1 : RangeStart(ranges, i) \in Nat
  BY RangeStarts
<1>9. HaltsAtSegments'
  <2>1. position' <= RangesLength(ranges)
    BY <1>4, <1>8 DEF RangesLength
  <2>2. \A i \in DOMAIN ranges : ~(RangeStart(ranges, i) < position')
    BY <1>4, <1>8
  <2> QED
    BY <1>3, <2>1, <2>2, Zenon DEF HaltsAtSegments, HaltsInside
<1>10. SegmentsAreTheBytes'
  <2>1. ~answer'.asked
    BY <1>4 DEF NoAnswer
  <2> QED
    BY <2>1, Zenon DEF SegmentsAreTheBytes
<1>11. PreparedAllOrNone'
  <2> SUFFICES ASSUME NEW md \in Descriptors PROVE prepare_count[md] = users' * Named(ranges, md)
    BY <1>3, <1>4, Zenon DEF PreparedAllOrNone
  <2>1. PICK x \in Nat : x = Named(ranges, md)
    BY NamedIsNumber, Zenon
  <2>2. PICK y \in Nat : y = Named(Ranges, md)
    BY <1>1, RangesKnown, NamedIsNumber
  <2>3. prepare_count[md] = 0 * y
    BY <1>1, <1>2, <2>2, Zenon DEF PreparedAllOrNone
  <2> QED
    BY <1>4, <2>1, <2>3
<1> QED
  BY <1>3, <1>5, <1>6, <1>7, <1>9, <1>10, <1>11, Zenon DEF MemoryInv

(* Nobody holds mbuf_md prepared while the structure is in the pool or has *)
(* no user, so that it takes the new chain, from its start.                *)
LEMMA MbufTaken ==
  ASSUME MemoryInv, users = 0, NEW chain \in Chains \cup {<<>>}, initWithMbuf(chain)
  PROVE  mbuf' = chain /\ PlaceIsStart' /\ chain \in Seq(MbufRecords)
<1>1. MemoryTypes /\ PreparedAllOrNone
  BY Zenon DEF MemoryInv
<1>2. prepare_count[Mbuf] = 0
  <2>1. Mbuf \in Descriptors
    BY Zenon DEF Descriptors
  <2>2. PICK y \in Nat : y = Named(Ranges, Mbuf)
    BY <1>1, RangesKnown, NamedIsNumber
  <2>3. prepare_count[Mbuf] = 0 * y
    BY <1>1, <2>1, <2>2, Zenon DEF PreparedAllOrNone
  <2> QED
    BY <2>3
<1>3. mbuf' = chain /\ cur_mbuf' = 1 /\ cur_mbuf_begin' = 0
  BY <1>2, Zenon DEF initWithMbuf
<1>4. chain \in Seq(MbufRecords)
  <2>1. <<>> \in Seq(MbufRecords)
    BY SMTT(60)
  <2> QED
    BY <2>1, ChainsAssumption, Zenon DEF MbufRecords
<1>5. LengthOf(chain, 1, 0) = 0
  BY <1>4, ChainLengths
<1>6. 1 \in 1 .. Len(chain) + 1 /\ 1 - 1 = 0
  BY <1>4
<1> QED
  BY <1>3, <1>4, <1>5, <1>6, Zenon DEF PlaceIsStart

(* Two ranges fit if each does.                                            *)
LEMMA BothFit ==
  ASSUME NEW a \in RangeRecords, NEW b \in RangeRecords, RangeFits(a)', RangeFits(b)'
  PROVE  <<a, b>> \in Seq(RangeRecords) /\ \A i \in DOMAIN <<a, b>> : RangeFits(<<a, b>>[i])'
<1>1. <<a, b>> \in Seq(RangeRecords)
  OBVIOUS
<1>2. \A i \in DOMAIN <<a, b>> : <<a, b>>[i] = a \/ <<a, b>>[i] = b
  OBVIOUS
<1> QED
  BY <1>1, <1>2, Zenon

(* The parts of the structures' own memory fit.                            *)
LEMMA OwnFits ==
  ASSUME NEW md \in {"mem", "header", "status", "task"}, NEW range \in RangeRecords, range.md = md,
         range.offset + range.length <= Len(Own[md])
  PROVE  RangeFits(range)'
<1>1. md # Mbuf /\ md # Data
  BY DEF Mbuf, Data
<1>2. BytesOf(md)' = Own[md]
  BY <1>1, Zenon DEF BytesOf
<1>3. range.md # Mbuf
  BY <1>1, Zenon
<1> QED
  BY <1>2, <1>3, Zenon DEF RangeFits

(* The packet header and the two directions of a task fit.                 *)
LEMMA PartFits ==
  /\ Part("mem", "packet_header") \in RangeRecords /\ RangeFits(Part("mem", "packet_header"))'
  /\ \A name \in {"to_device", "from_device"} :
       Part("task", name) \in RangeRecords /\ RangeFits(Part("task", name))'
<1>1. ASSUME NEW p \in {<<"mem", "packet_header">>, <<"task", "to_device">>, <<"task", "from_device">>}
      PROVE  Part(p[1], p[2]) \in RangeRecords /\ RangeFits(Part(p[1], p[2]))'
  <2>1. PICK md \in {"mem", "task"}, name \in {"packet_header", "to_device", "from_device"} : p = <<md, name>> /\ md = p[1] /\ name = p[2]
    OBVIOUS
  <2>2. PICK range : range = Part(md, name)
    BY Zenon
  <2>3. range.md = md /\ range.offset = Parts[name].offset /\ range.length = Parts[name].length
    BY <2>2 DEF Part
  <2>4. /\ Parts[name].offset \in Nat /\ Parts[name].length \in Nat
        /\ Parts[name].offset + Parts[name].length <= Len(Own[md])
    BY <2>1, OwnAssumption, Zenon
  <2>5. md \in Descriptors /\ md \in {"mem", "header", "status", "task"}
    BY OwnAssumption, SMTT(60) DEF Descriptors
  <2>6. range \in RangeRecords
    BY <2>2, <2>4, <2>5 DEF RangeRecords, Part
  <2>7. RangeFits(range)'
    BY <2>3, <2>4, <2>5, <2>6, OwnFits, Zenon
  <2> QED
    BY <2>1, <2>2, <2>6, <2>7, Zenon
<1>2. /\ <<"mem", "packet_header">>[1] = "mem" /\ <<"mem", "packet_header">>[2] = "packet_header"
      /\ \A name : <<"task", name>>[1] = "task" /\ <<"task", name>>[2] = name
  OBVIOUS
<1>3. Part("mem", "packet_header") \in RangeRecords /\ RangeFits(Part("mem", "packet_header"))'
  BY <1>1, <1>2, Zenon
<1>4. ASSUME NEW name \in {"to_device", "from_device"}
      PROVE  Part("task", name) \in RangeRecords /\ RangeFits(Part("task", name))'
  <2>1. <<"task", name>> \in {<<"mem", "packet_header">>, <<"task", "to_device">>, <<"task", "from_device">>}
    BY Zenon
  <2> QED
    BY <1>1, <1>2, <2>1, Zenon
<1> QED
  BY <1>3, <1>4, Zenon

(* The header and the status of a block request fit.                       *)
LEMMA WholeFits ==
  ASSUME NEW md \in {"header", "status"}
  PROVE  Whole(md, Own[md]) \in RangeRecords /\ RangeFits(Whole(md, Own[md]))'
<1>1. md \in DOMAIN Own /\ md \in {"mem", "header", "status", "task"}
  BY OwnAssumption
<1>2. PICK bytes \in Seq(Nat) : bytes = Own[md]
  BY <1>1, OwnAssumption, Zenon
<1>3. PICK range : range = Whole(md, Own[md])
  BY Zenon
<1>4. Len(bytes) \in Nat /\ md \in Descriptors
  BY <1>1, <1>2, SMTT(60) DEF Descriptors
<1>5. range \in RangeRecords /\ range.md = md /\ range.offset = 0 /\ range.length = Len(bytes)
  BY <1>2, <1>3, <1>4 DEF Whole, RangeRecords
<1>6. 0 + Len(bytes) <= Len(bytes)
  BY <1>4
<1>8. RangeFits(range)'
  BY <1>1, <1>2, <1>5, <1>6, OwnFits, Zenon
<1> QED
  BY <1>3, <1>5, <1>8, Zenon

(* A transfer's buffer.                                                    *)
LEMMA DataFits ==
  ASSUME NEW bytes \in DataBuffers, NEW offset \in Nat, NEW length \in Nat,
         DataRange(bytes, offset, length),
         NEW range, range = [md |-> Data, offset |-> offset, length |-> length]
  PROVE  range \in RangeRecords /\ RangeFits(range)' /\ data' \in DataBuffers \cup {<<>>}
<1>1. range.md = Data /\ range.offset = offset /\ range.length = length
  OBVIOUS
<1>2. range \in RangeRecords
  BY DEF RangeRecords, Descriptors
<1>3. range.md # Mbuf
  BY <1>1 DEF Mbuf, Data
<1>4. data' = bytes /\ offset + length <= Len(bytes)
  BY Zenon DEF DataRange
<1>5. BytesOf(Data)' = bytes
  BY <1>4, Zenon DEF BytesOf
<1>6. RangeFits(range)'
  BY <1>1, <1>3, <1>4, <1>5, Zenon DEF RangeFits
<1> QED
  BY <1>2, <1>4, <1>6, Zenon

(* A packet, of the network stack and of the debugger.                     *)
LEMMA PacketRight ==
  ASSUME MemoryInv, NEW chain \in Chains, NEW length \in Nat,
         TakenFromPool("packet"), initWithMbuf(chain),
         initWithDescriptorRanges(<<Part("mem", "packet_header"),
                                    [md |-> Mbuf, offset |-> 0, length |-> length]>>),
         UNCHANGED <<page_map, data, prepareVars, walkVars>>,
         \/ length = mbufChainLen(chain)
         \/ /\ Len(chain) = 1 /\ length <= chain[1].len
            /\ (chain[1].data % PageSize) + chain[1].len <= PageSize
  PROVE  MemoryInv'
<1>1. structure = "pooled" /\ structure' = "in_use"
  BY Zenon DEF TakenFromPool
<1>2. users = 0 /\ data \in DataBuffers \cup {<<>>}
  BY <1>1, Zenon DEF MemoryInv, NothingLeft, MemoryTypes
<1>3. mbuf' = chain /\ PlaceIsStart'
  BY <1>2, MbufTaken, Zenon
<1>4. PICK range : range = [md |-> Mbuf, offset |-> 0, length |-> length]
  BY Zenon
<1>5. range \in RangeRecords /\ range.md = Mbuf /\ range.offset = 0 /\ range.length = length
  BY <1>4 DEF RangeRecords, Descriptors
<1>6. RangeFits(range)'
  BY <1>3, <1>5, Zenon DEF RangeFits, WholeChain, WithinPage
<1>7. PICK first \in RangeRecords : first = Part("mem", "packet_header") /\ RangeFits(first)'
  BY PartFits, Zenon
<1>8. PICK ranges \in Seq(RangeRecords) :
        ranges = <<first, range>> /\ \A i \in DOMAIN ranges : RangeFits(ranges[i])'
  BY <1>5, <1>6, <1>7, BothFit, Zenon
<1>9. initWithDescriptorRanges(ranges)
  BY <1>4, <1>7, <1>8, Zenon
<1>10. mbuf' \in Chains \cup {<<>>} /\ data' \in DataBuffers \cup {<<>>}
  BY <1>2, <1>3, Zenon
<1>11. UNCHANGED <<page_map, prepareVars, walkVars>>
  BY Zenon
<1> QED
  BY <1>1, <1>3, <1>8, <1>9, <1>10, <1>11, TakingRight, Zenon

(* Packets for the stack and for the debugger.                             *)
LEMMA PacketsRight ==
  ASSUME MemoryInv, NEW chain \in Chains,
         \/ addPacketToQueue(chain)
         \/ \E pktSize \in 1 .. PageSize : Len(chain) = 1 /\ sendPacket(chain[1], pktSize)
  PROVE  MemoryInv'
<1>1. chain \in Seq(MbufRecords)
  BY ChainsAssumption, Zenon DEF MbufRecords
<1>2. CASE addPacketToQueue(chain)
  <2>1. mbufChainLen(chain) \in Nat
    <3>1. Len(chain) \in Nat /\ Len(chain) + 1 \in 1 .. Len(chain) + 1
          /\ Len(chain) \in (Len(chain) + 1) - 1 .. Len(chain) /\ (Len(chain) + 1) - 1 = Len(chain)
      BY <1>1, SMTT(60)
    <3>2. \A i \in 1 .. Len(chain) + 1 : \A j \in i - 1 .. Len(chain) :
            LengthOf(chain, 1, i - 1) \in Nat
      BY <1>1, ChainLengths, Zenon
    <3> QED
      BY <3>1, <3>2, Zenon DEF mbufChainLen
  <2> QED
    BY <1>2, <2>1, PacketRight, Zenon DEF addPacketToQueue
<1>3. CASE \E pktSize \in 1 .. PageSize : Len(chain) = 1 /\ sendPacket(chain[1], pktSize)
  <2>1. PICK pktSize \in 1 .. PageSize : Len(chain) = 1 /\ sendPacket(chain[1], pktSize)
    BY <1>3
  <2>2. pktSize \in Nat
    BY PageAssumption
  <2>3. <<chain[1]>> = chain
    BY <1>1, <2>1
  <2> QED
    BY <2>1, <2>2, <2>3, PacketRight, Zenon DEF sendPacket
<1> QED
  BY <1>2, <1>3, Zenon

(* Block requests and SCSI tasks, which leave mbuf_md alone.               *)
LEMMA TransferRight ==
  ASSUME MemoryInv, NEW k, TakenFromPool(k), UNCHANGED <<page_map, mbufVars, prepareVars, walkVars>>,
         data' \in DataBuffers \cup {<<>>},
         NEW ranges \in Seq(RangeRecords), initWithDescriptorRanges(ranges),
         \A i \in DOMAIN ranges : RangeFits(ranges[i])'
  PROVE  MemoryInv'
<1>1. structure = "pooled" /\ structure' = "in_use"
  BY Zenon DEF TakenFromPool
<1>2. PlaceIsStart' /\ mbuf' \in Chains \cup {<<>>}
  BY Zenon DEF MemoryInv, MemoryTypes, PlaceIsStart, mbufVars
<1>3. UNCHANGED <<page_map, prepareVars, walkVars>>
  BY Zenon
<1> QED
  BY <1>1, <1>2, <1>3, TakingRight, Zenon

(* Block requests and SCSI tasks that transfer data.                       *)
LEMMA TransfersRight ==
  ASSUME MemoryInv, NEW bytes \in DataBuffers, NEW length \in 0 .. Len(bytes),
         \/ \E write \in BOOLEAN : doAsyncReadWriteOnWorkLoop(bytes, length, write)
         \/ \E offset \in 0 .. Len(bytes) - length : \E part \in {"to_device", "from_device"} :
              ProcessParallelTaskInGate(bytes, offset, length, part)
  PROVE  MemoryInv'
<1>1. length \in Nat /\ 0 \in Nat
  OBVIOUS
<1>2. ASSUME NEW write \in BOOLEAN, doAsyncReadWriteOnWorkLoop(bytes, length, write)
      PROVE  MemoryInv'
  <2>1. PICK buffer : buffer = [md |-> Data, offset |-> 0, length |-> length]
    BY Zenon
  <2>2. /\ TakenFromPool("request") /\ DataRange(bytes, 0, length)
        /\ initWithDescriptorRanges(IF write THEN <<Whole("header", Own["header"]), buffer>>
                                             ELSE <<buffer, Whole("status", Own["status"])>>)
        /\ UNCHANGED <<kind, page_map, mbufVars, prepareVars, walkVars>>
    BY <1>2, <2>1, Zenon DEF doAsyncReadWriteOnWorkLoop
  <2>3. buffer \in RangeRecords /\ RangeFits(buffer)' /\ data' \in DataBuffers \cup {<<>>}
    BY <1>1, <2>1, <2>2, DataFits, Zenon
  <2>4. PICK header \in RangeRecords : header = Whole("header", Own["header"]) /\ RangeFits(header)'
    BY WholeFits, Zenon
  <2>5. PICK status \in RangeRecords : status = Whole("status", Own["status"]) /\ RangeFits(status)'
    BY WholeFits, Zenon
  <2>6. PICK ranges \in Seq(RangeRecords) :
          /\ ranges = IF write THEN <<header, buffer>> ELSE <<buffer, status>>
          /\ \A i \in DOMAIN ranges : RangeFits(ranges[i])'
    <3>1. CASE write
      BY <2>3, <2>4, <3>1, BothFit, Zenon
    <3>2. CASE ~write
      BY <2>3, <2>5, <3>2, BothFit, Zenon
    <3> QED
      BY <3>1, <3>2, Zenon
  <2>7. initWithDescriptorRanges(ranges)
    BY <2>2, <2>4, <2>5, <2>6, Zenon
  <2>8. UNCHANGED <<page_map, mbufVars, prepareVars, walkVars>>
    BY <2>2, Zenon
  <2> QED
    BY <2>2, <2>3, <2>6, <2>7, <2>8, TransferRight, Zenon
<1>3. ASSUME NEW offset \in 0 .. Len(bytes) - length, NEW part \in {"to_device", "from_device"},
             ProcessParallelTaskInGate(bytes, offset, length, part)
      PROVE  MemoryInv'
  <2>1. PICK buffer : buffer = [md |-> Data, offset |-> offset, length |-> length]
    BY Zenon
  <2>2. /\ TakenFromPool("task") /\ DataRange(bytes, offset, length)
        /\ initWithDescriptorRanges(<<Part("task", part), buffer>>)
        /\ UNCHANGED <<kind, page_map, mbufVars, prepareVars, walkVars>>
    BY <1>3, <2>1, Zenon DEF ProcessParallelTaskInGate
  <2>3. offset \in Nat
    OBVIOUS
  <2>4. buffer \in RangeRecords /\ RangeFits(buffer)' /\ data' \in DataBuffers \cup {<<>>}
    BY <1>1, <2>1, <2>2, <2>3, DataFits, Zenon
  <2>5. PICK first \in RangeRecords : first = Part("task", part) /\ RangeFits(first)'
    BY PartFits, Zenon
  <2>6. PICK ranges \in Seq(RangeRecords) :
          ranges = <<first, buffer>> /\ \A i \in DOMAIN ranges : RangeFits(ranges[i])'
    BY <2>4, <2>5, BothFit, Zenon
  <2>7. initWithDescriptorRanges(ranges)
    BY <2>2, <2>5, <2>6, Zenon
  <2>8. UNCHANGED <<page_map, mbufVars, prepareVars, walkVars>>
    BY <2>2, Zenon
  <2> QED
    BY <2>2, <2>4, <2>6, <2>7, <2>8, TransferRight, Zenon
<1> QED
  BY <1>2, <1>3, Zenon

(* A SCSI task without data names only its own structure.                  *)
LEMMA NoDataRight ==
  ASSUME MemoryInv, ProcessParallelTaskNoData
  PROVE  MemoryInv'
<1>1. PICK first \in RangeRecords : first = Part("task", "to_device") /\ RangeFits(first)'
  BY PartFits, Zenon
<1>2. PICK ranges \in Seq(RangeRecords) :
        ranges = <<first>> /\ \A i \in DOMAIN ranges : RangeFits(ranges[i])'
  <2>1. <<first>> \in Seq(RangeRecords) /\ \A i \in DOMAIN <<first>> : <<first>>[i] = first
    OBVIOUS
  <2> QED
    BY <1>1, <2>1, Zenon
<1>3. /\ TakenFromPool("task") /\ initWithDescriptorRanges(ranges)
      /\ UNCHANGED <<page_map, mbufVars, prepareVars, walkVars>> /\ data' = data
  BY <1>1, <1>2, Zenon DEF ProcessParallelTaskNoData
<1>4. data' \in DataBuffers \cup {<<>>}
  BY <1>3, Zenon DEF MemoryInv, MemoryTypes
<1> QED
  BY <1>2, <1>3, <1>4, TransferRight, Zenon

(* The place in mbuf_md after an answer.                                   *)
LEMMA PlaceKept ==
  ASSUME MemoryInv, NEW offset \in Nat, MbufGetPhysicalSegment(offset)
  PROVE  PlaceIsStart' /\ mbuf' = mbuf
<1>1. MbufMapped /\ PlaceIsStart
  BY MbufKnown, Zenon DEF MemoryInv
<1>2. CASE mbuf = <<>> \/ offset >= mbufChainLen(mbuf)
  <2>1. UNCHANGED mbufVars
    BY <1>2, Zenon DEF MbufGetPhysicalSegment
  <2> QED
    BY <1>1, <2>1, Zenon DEF PlaceIsStart, mbufVars
<1>3. CASE ~(mbuf = <<>> \/ offset >= mbufChainLen(mbuf))
  <2>1. PICK m : m = MbufWith(offset)
    BY Zenon
  <2>2. cur_mbuf' = m.at /\ cur_mbuf_begin' = m.begin /\ mbuf' = mbuf
    BY <1>3, <2>1, Zenon DEF MbufGetPhysicalSegment
  <2>3. offset < mbufChainLen(mbuf)
    <3>1. MbufBytes \in Seq(Nat) /\ Len(MbufBytes) = mbufChainLen(mbuf)
      BY <1>1, ChainBytes, Zenon
    <3>2. mbufChainLen(mbuf) \in Nat
      BY <3>1
    <3> QED
      BY ONLY <1>3, <3>2, offset \in Nat
  <2>4. m.at \in 1 .. Len(mbuf) /\ m.begin = LengthOf(mbuf, 1, m.at - 1)
    BY ONLY <1>1, <2>1, <2>3, offset \in Nat, SearchFinds
  <2>5. Len(mbuf) \in Nat
    BY <1>1 DEF MbufMapped
  <2>6. m.at \in 1 .. Len(mbuf) + 1
    BY ONLY <2>4, <2>5
  <2> QED
    BY <2>2, <2>4, <2>6, Zenon DEF PlaceIsStart
<1> QED
  BY <1>2, <1>3, Zenon

(* An answer is the next run of the bytes, and the walk halts at its end.  *)
LEMMA AnswersRight ==
  ASSUME MemoryInv, getPhysicalSegment
  PROVE  MemoryInv'
<1>1. /\ MemoryTypes /\ PlaceIsStart /\ NothingLeft /\ RangesFit /\ HaltsAtSegments
      /\ PreparedAllOrNone /\ ReferencesMatchRanges
  BY Zenon DEF MemoryInv
<1>2. PICK i, p : i = RangeAt(position) /\ p = position
  BY Zenon
<1>3. /\ structure = "in_use" /\ position < RangesLength(Ranges)
      /\ UNCHANGED <<structure, page_map, data, array, num_subranges, references, prepare_count, users>>
  BY Zenon DEF getPhysicalSegment, rangeVars, prepareVars
<1>4. p \in Nat
  BY <1>1, <1>2, Zenon DEF MemoryTypes
<1>5. /\ i \in DOMAIN Ranges /\ i # 0
      /\ RangeStart(Ranges, i) \in Nat /\ RangeStart(Ranges, i) <= p
      /\ RangeStart(Ranges, i + 1) = RangeStart(Ranges, i) + Ranges[i].length
      /\ p < RangeStart(Ranges, i + 1)
  <2>1. p < RangesLength(Ranges) /\ i = RangeAt(p)
    BY <1>2, <1>3, Zenon
  <2> QED
    BY ONLY <1>1, <1>4, <2>1, RangeFound
<1>6. PICK seg : seg = SegmentIn(i, position)
  BY Zenon
<1>7. /\ answer' = [offset |-> p, address |-> seg.address, length |-> seg.length, asked |-> TRUE]
      /\ position' = p + seg.length
      /\ IF Ranges[i].md = Mbuf
           THEN MbufGetPhysicalSegment(p - RangeStart(Ranges, i) + Ranges[i].offset)
           ELSE UNCHANGED mbufVars
  BY <1>2, <1>5, <1>6, Zenon DEF getPhysicalSegment
<1>8. /\ seg.address \in Nat /\ seg.length \in Nat /\ seg.length > 0
      /\ \A k \in 1 .. seg.length : p + k <= RangeStart(Ranges, i + 1) =>
           AllBytes[p + k] = seg.address + k - 1
      /\ RangesEndWithSegments =>
           /\ p + seg.length <= RangeStart(Ranges, i + 1)
           /\ p + seg.length < RangeStart(Ranges, i + 1) =>
                SegmentEnds(Ranges[i], (p + seg.length) - RangeStart(Ranges, i) + Ranges[i].offset)
  BY <1>1, <1>2, <1>3, <1>6, AnswerRight, Zenon
<1>9. PlaceIsStart' /\ mbuf' = mbuf
  <2>1. CASE Ranges[i].md = Mbuf
    <3>1. Ranges[i].offset \in Nat
      BY <1>1, <1>5, RangesKnown, Zenon
    <3>2. PICK offset : offset = p - RangeStart(Ranges, i) + Ranges[i].offset
      BY Zenon
    <3>3. offset \in Nat
      BY ONLY <1>4, <1>5, <3>1, <3>2
    <3> QED
      BY <1>7, <2>1, <3>2, <3>3, PlaceKept, Zenon
  <2>2. CASE Ranges[i].md # Mbuf
    BY <1>1, <1>7, <2>2, Zenon DEF PlaceIsStart, mbufVars
  <2> QED
    BY <2>1, <2>2, Zenon
<1>10. /\ Ranges' = Ranges /\ AllBytes' = AllBytes /\ RangesFit'
       /\ \A r, x : SegmentEnds(r, x)' = SegmentEnds(r, x)
       /\ RangesEndWithSegments' = RangesEndWithSegments
       /\ \A x : RangeEnd(x)' = RangeEnd(x)
  BY <1>1, <1>3, <1>9, SameRanges, Zenon
<1>11. PICK np \in Nat : np = p + seg.length /\ position' = np
  <2>1. p + seg.length \in Nat
    BY ONLY <1>4, <1>8
  <2> QED
    BY <1>7, <2>1, Zenon
<1>12. MemoryTypes'
  BY <1>1, <1>3, <1>9, <1>11, Zenon DEF MemoryTypes
<1>13. PICK ranges \in Seq(RangeRecords), n \in Nat :
         ranges = Ranges /\ n = Len(ranges) /\ DOMAIN ranges = 1 .. n
  BY <1>1, RangesKnown, Zenon
<1>14. PICK a \in Nat, b \in Nat : a = RangeStart(ranges, i) /\ b = RangeStart(ranges, i + 1)
                                   /\ a < np /\ i \in 1 .. n
  <2>1. i + 1 \in 1 .. n + 1 /\ i \in 1 .. n /\ i \in 1 .. n + 1
    BY <1>5, <1>13
  <2>2. \A j \in 1 .. n + 1 : RangeStart(ranges, j) \in Nat
    BY <1>13, RangeStarts, Zenon
  <2>3. PICK a \in Nat, b \in Nat : a = RangeStart(ranges, i) /\ b = RangeStart(ranges, i + 1)
    BY <2>1, <2>2, Zenon
  <2>4. a <= p
    BY <1>5, <1>13, <2>3, ZenonT(60)
  <2>5. a < np
    BY ONLY <1>4, <1>8, <1>11, <2>4, a \in Nat, np \in Nat, SMTT(60)
  <2> QED
    BY <2>1, <2>3, <2>4, <2>5, Zenon
<1>15. ASSUME NEW j \in 1 .. n + 1, NEW h \in j .. n + 1
       PROVE  RangeStart(ranges, j) <= RangeStart(ranges, h) /\ RangeStart(ranges, h) \in Nat
                /\ RangeStart(ranges, j) \in Nat
  <2>1. h \in 1 .. n + 1
    BY <1>13
  <2> QED
    BY <1>13, <2>1, RangeStarts, Zenon
<1>16. HaltsAtSegments'
  <2> SUFFICES ASSUME RangesEndWithSegments PROVE HaltsInside'
    BY <1>10, Zenon DEF HaltsAtSegments
  <2>5. np <= b
    BY <1>8, <1>11, <1>13, <1>14, Zenon
  <2>1. np <= RangesLength(ranges)
    <3>1. i + 1 \in 1 .. n + 1 /\ n + 1 \in i + 1 .. n + 1
      BY <1>14
    <3>2. PICK e \in Nat : e = RangeStart(ranges, n + 1) /\ b <= e
      BY <1>14, <1>15, <3>1, Zenon
    <3>3. np <= e
      BY ONLY <2>5, <3>2, np \in Nat, b \in Nat, e \in Nat
    <3> QED
      BY <1>13, <3>2, <3>3, Zenon DEF RangesLength
  <2>2. ASSUME NEW j \in 1 .. n, RangeStart(ranges, j) < np, np < RangeStart(ranges, j + 1)
        PROVE  j = i
    <3>1. CASE j < i
      <4>1. j + 1 \in 1 .. n + 1 /\ i \in j + 1 .. n + 1
        BY <1>14, <3>1
      <4>2. PICK e \in Nat : e = RangeStart(ranges, j + 1) /\ e <= a
        BY <1>14, <1>15, <4>1, Zenon
      <4>3. FALSE
        BY ONLY <1>14, <2>2, <4>2, np \in Nat, a \in Nat, e \in Nat, SMTT(60)
      <4> QED
        BY <4>3
    <3>2. CASE j > i
      <4>1. i + 1 \in 1 .. n + 1 /\ j \in i + 1 .. n + 1
        BY <1>14, <3>2
      <4>2. PICK e \in Nat : e = RangeStart(ranges, j) /\ b <= e
        BY <1>14, <1>15, <4>1, Zenon
      <4>3. FALSE
        BY ONLY <2>2, <2>5, <4>2, np \in Nat, b \in Nat, e \in Nat
      <4> QED
        BY <4>3
    <3> QED
      BY <1>14, <3>1, <3>2
  <2>3. np < RangeStart(ranges, i + 1) =>
          SegmentEnds(ranges[i], np - RangeStart(ranges, i) + ranges[i].offset)
    BY <1>8, <1>11, <1>13, Zenon
  <2>4. \A j \in 1 .. n : RangeStart(ranges, j) < np /\ np < RangeStart(ranges, j + 1) =>
          SegmentEnds(ranges[j], np - RangeStart(ranges, j) + ranges[j].offset)
    BY <2>2, <2>3, Zenon
  <2> QED
    BY <1>10, <1>11, <1>13, <2>1, <2>4, Zenon DEF HaltsInside
<1>17. SegmentsAreTheBytes'
  <2>1. answer'.offset = p /\ answer'.address = seg.address /\ answer'.length = seg.length
    BY <1>7
  <2>2. RangeEnd(p)' = RangeStart(Ranges, i + 1)
    BY <1>2, <1>10, Zenon DEF RangeEnd
  <2> QED
    BY <1>8, <1>10, <2>1, <2>2, ZenonT(60) DEF SegmentsAreTheBytes
<1>18. NothingLeft' /\ PreparedAllOrNone' /\ ReferencesMatchRanges'
  BY <1>1, <1>3, <1>10, Zenon DEF NothingLeft, PreparedAllOrNone, ReferencesMatchRanges
<1> QED
  BY <1>9, <1>10, <1>12, <1>16, <1>17, <1>18, Zenon DEF MemoryInv

(* What holds of the ranges and the place in mbuf_md stays when neither    *)
(* changes.                                                                *)
LEMMA RangesKept ==
  ASSUME MemoryInv, UNCHANGED <<page_map, data, mbufVars, rangeVars>>
  PROVE  /\ Ranges' = Ranges /\ AllBytes' = AllBytes
         /\ PlaceIsStart' /\ RangesFit' /\ ReferencesMatchRanges'
         /\ \A r, x : SegmentEnds(r, x)' = SegmentEnds(r, x)
         /\ RangesEndWithSegments' = RangesEndWithSegments
         /\ \A x : RangeEnd(x)' = RangeEnd(x)
<1>1. UNCHANGED <<page_map, data, mbuf, array, num_subranges, references, cur_mbuf, cur_mbuf_begin>>
  BY Zenon DEF mbufVars, rangeVars
<1>2. RangesFit /\ PlaceIsStart /\ ReferencesMatchRanges
  BY Zenon DEF MemoryInv
<1>3. /\ Ranges' = Ranges /\ AllBytes' = AllBytes /\ RangesFit'
      /\ \A r, x : SegmentEnds(r, x)' = SegmentEnds(r, x)
      /\ RangesEndWithSegments' = RangesEndWithSegments
      /\ \A x : RangeEnd(x)' = RangeEnd(x)
  BY <1>1, <1>2, SameRanges, Zenon
<1>4. PlaceIsStart' /\ ReferencesMatchRanges'
  BY <1>1, <1>2, <1>3, Zenon DEF PlaceIsStart, ReferencesMatchRanges
<1> QED
  BY <1>3, <1>4, Zenon

(* At the start of a walk there is nothing to say of it.                   *)
LEMMA WalkStarts ==
  ASSUME NEW ranges \in Seq(RangeRecords), Ranges' = ranges, position' = 0, answer' = NoAnswer
  PROVE  HaltsAtSegments' /\ SegmentsAreTheBytes'
<1>1. /\ Len(ranges) \in Nat /\ DOMAIN ranges = 1 .. Len(ranges)
      /\ \A i \in 1 .. Len(ranges) + 1 : RangeStart(ranges, i) \in Nat
  BY RangeStarts
<1>2. position' <= RangesLength(ranges)
  BY <1>1 DEF RangesLength
<1>3. \A i \in DOMAIN ranges : ~(RangeStart(ranges, i) < position')
  BY <1>1
<1>4. ~answer'.asked
  BY DEF NoAnswer
<1> QED
  BY <1>2, <1>3, <1>4, Zenon DEF HaltsAtSegments, HaltsInside, SegmentsAreTheBytes

(* A second walk starts where the first did, wherever mbuf_md's place is.  *)
LEMMA WalkAgainRight ==
  ASSUME MemoryInv, WalkAgain
  PROVE  MemoryInv'
<1>1. /\ structure = "in_use" /\ position' = 0 /\ answer' = NoAnswer
      /\ UNCHANGED <<structure, page_map, data, mbufVars, rangeVars, prepareVars>>
  BY Zenon DEF WalkAgain
<1>2. MemoryTypes /\ PreparedAllOrNone
  BY Zenon DEF MemoryInv
<1>3. Ranges' = Ranges /\ PlaceIsStart' /\ RangesFit' /\ ReferencesMatchRanges'
  BY <1>1, RangesKept, Zenon
<1>4. HaltsAtSegments' /\ SegmentsAreTheBytes'
  <2>1. Ranges \in Seq(RangeRecords)
    BY <1>2, RangesKnown, Zenon
  <2> QED
    BY <1>1, <1>3, <2>1, WalkStarts, Zenon
<1>5. MemoryTypes'
  <2>1. 0 \in Nat
    OBVIOUS
  <2> QED
    BY <1>1, <1>2, <2>1, Zenon DEF MemoryTypes, mbufVars, rangeVars, prepareVars
<1>6. NothingLeft' /\ PreparedAllOrNone'
  BY <1>1, <1>2, <1>3, Zenon DEF NothingLeft, PreparedAllOrNone, prepareVars
<1> QED
  BY <1>3, <1>4, <1>5, <1>6, Zenon DEF MemoryInv

(* Counting users and preparations disturbs only those two.                *)
LEMMA CountsRight ==
  ASSUME MemoryInv, structure = "in_use",
         UNCHANGED <<structure, page_map, data, mbufVars, rangeVars, walkVars>>,
         users' \in Nat,
         \A md \in Descriptors : prepare_count'[md] = users' * Named(Ranges, md)
  PROVE  MemoryInv'
<1>1. MemoryTypes /\ HaltsAtSegments /\ SegmentsAreTheBytes
  BY Zenon DEF MemoryInv
<1>2. /\ Ranges' = Ranges /\ AllBytes' = AllBytes
      /\ PlaceIsStart' /\ RangesFit' /\ ReferencesMatchRanges'
      /\ \A r, x : SegmentEnds(r, x)' = SegmentEnds(r, x)
      /\ RangesEndWithSegments' = RangesEndWithSegments
      /\ \A x : RangeEnd(x)' = RangeEnd(x)
  BY RangesKept, Zenon
<1>3. position' = position /\ answer' = answer
  BY Zenon DEF walkVars
<1>4. MemoryTypes'
  BY <1>1, <1>3, Zenon DEF MemoryTypes, mbufVars, rangeVars
<1>5. HaltsAtSegments' /\ SegmentsAreTheBytes'
  BY <1>1, <1>2, <1>3, Zenon DEF HaltsAtSegments, HaltsInside, SegmentsAreTheBytes
<1>6. PreparedAllOrNone' /\ NothingLeft'
  BY <1>2, Zenon DEF PreparedAllOrNone, NothingLeft
<1> QED
  BY <1>2, <1>4, <1>5, <1>6, Zenon DEF MemoryInv

(* One more user, or one less.                                             *)
LEMMA OneMore ==
  ASSUME NEW u \in Nat, NEW x \in Nat
  PROVE  /\ (u + 1) * x = u * x + x
         /\ u > 0 => (u - 1) * x = u * x - x
OBVIOUS

(* All ranges are the first num_subranges ones, and some ranges are too.   *)
LEMMA AllOfThem ==
  ASSUME MemoryTypes
  PROVE  /\ SubSeq(Ranges, 1, num_subranges) = Ranges
         /\ \A n \in 0 .. num_subranges : \A md : Named(SubSeq(Ranges, 1, n), md) \in Nat
         /\ \A md : Named(Ranges, md) \in Nat
<1>1. PICK a \in Seq(RangeRecords), m \in Nat : a = array /\ m = num_subranges /\ m <= Len(a)
  BY DEF MemoryTypes
<1>2. PICK r \in Seq(RangeRecords) : r = Ranges /\ r = SubSeq(a, 1, m)
  BY <1>1, RangesKnown, Zenon DEF Ranges
<1>3. Len(r) = m /\ SubSeq(r, 1, m) = r
  BY <1>1, <1>2
<1>4. \A n \in 0 .. m : SubSeq(r, 1, n) \in Seq(RangeRecords)
  BY <1>3
<1> QED
  BY <1>1, <1>2, <1>3, <1>4, NamedIsNumber, Zenon

(* prepare() prepares each member once for every range naming it.          *)
LEMMA PrepareRight ==
  ASSUME MemoryInv, prepare
  PROVE  MemoryInv'
<1>1. /\ structure = "in_use" /\ users' = users + 1
      /\ prepare_count' = PrepareFirst(prepare_count, num_subranges)
      /\ UNCHANGED <<structure, page_map, data, mbufVars, rangeVars, walkVars>>
  BY Zenon DEF prepare
<1>2. MemoryTypes /\ PreparedAllOrNone
  BY Zenon DEF MemoryInv
<1>3. users \in Nat
  BY <1>2, Zenon DEF MemoryTypes
<1>4. ASSUME NEW md \in Descriptors
      PROVE  prepare_count'[md] = users' * Named(Ranges, md)
  <2>1. PICK x \in Nat : x = Named(Ranges, md) /\ x = Named(SubSeq(Ranges, 1, num_subranges), md)
    BY <1>2, AllOfThem, Zenon
  <2>2. prepare_count'[md] = users * x + x
    BY <1>1, <1>2, <2>1, Zenon DEF PrepareFirst, PreparedAllOrNone
  <2> QED
    BY <1>1, <1>3, <2>1, <2>2, OneMore, Zenon
<1>5. users' \in Nat
  BY <1>1, <1>3
<1> QED
  BY <1>1, <1>4, <1>5, CountsRight, Zenon

(* complete() takes back exactly that.                                     *)
LEMMA CompleteRight ==
  ASSUME MemoryInv, complete
  PROVE  MemoryInv'
<1>1. /\ structure = "in_use" /\ users > 0 /\ users' = users - 1
      /\ prepare_count' = CompleteFirst(prepare_count, num_subranges)
      /\ UNCHANGED <<structure, page_map, data, mbufVars, rangeVars, walkVars>>
  BY Zenon DEF complete
<1>2. MemoryTypes /\ PreparedAllOrNone
  BY Zenon DEF MemoryInv
<1>3. users \in Nat
  BY <1>2, Zenon DEF MemoryTypes
<1>4. ASSUME NEW md \in Descriptors
      PROVE  prepare_count'[md] = users' * Named(Ranges, md)
  <2>1. PICK x \in Nat : x = Named(Ranges, md) /\ x = Named(SubSeq(Ranges, 1, num_subranges), md)
    BY <1>2, AllOfThem, Zenon
  <2>2. prepare_count'[md] = users * x - x
    BY <1>1, <1>2, <2>1, Zenon DEF CompleteFirst, PreparedAllOrNone
  <2> QED
    BY <1>1, <1>3, <2>1, <2>2, OneMore, Zenon
<1>5. users' \in Nat
  BY ONLY <1>1, <1>3
<1> QED
  BY <1>1, <1>4, <1>5, CountsRight, Zenon

(* A prepare() that fails at any member takes back what it did before.     *)
LEMMA PrepareFailsRight ==
  ASSUME MemoryInv, prepareFails
  PROVE  MemoryInv'
<1>1. /\ structure = "in_use" /\ users' = users
      /\ UNCHANGED <<structure, page_map, data, mbufVars, rangeVars, walkVars>>
  BY Zenon DEF prepareFails
<1>2. PICK failing \in 1 .. num_subranges :
        prepare_count' = Undo(PrepareFirst(prepare_count, failing - 1), failing - 1)
  BY Zenon DEF prepareFails
<1>3. MemoryTypes /\ PreparedAllOrNone
  BY Zenon DEF MemoryInv
<1>4. users \in Nat
  BY <1>3, Zenon DEF MemoryTypes
<1>5. PICK n \in 0 .. num_subranges : n = failing - 1
  <2>1. num_subranges \in Nat
    BY <1>3 DEF MemoryTypes
  <2>2. failing - 1 \in 0 .. num_subranges
    BY ONLY <2>1, failing \in 1 .. num_subranges
  <2> QED
    BY <2>2, Zenon
<1>6. ASSUME NEW md \in Descriptors
      PROVE  prepare_count'[md] = users' * Named(Ranges, md)
  <2>1. PICK x \in Nat : x = Named(Ranges, md)
    BY <1>3, AllOfThem, Zenon
  <2>2. PICK y \in Nat : y = Named(SubSeq(Ranges, 1, n), md)
    BY <1>3, AllOfThem, Zenon
  <2>3. PICK before \in Nat : before = users * x
    BY <1>4, <2>1
  <2>4. prepare_count[md] = before
    BY <1>3, <2>1, <2>3, Zenon DEF PreparedAllOrNone
  <2>5. PrepareFirst(prepare_count, n)[md] = before + y
    BY <2>2, <2>4, Zenon DEF PrepareFirst
  <2>6. prepare_count'[md] = (before + y) - y
    BY <1>2, <1>5, <2>2, <2>5, Zenon DEF Undo, CompleteFirst
  <2>7. (before + y) - y = before
    BY ONLY before \in Nat, y \in Nat
  <2> QED
    BY <1>1, <2>1, <2>3, <2>6, <2>7, Zenon
<1> QED
  BY <1>1, <1>4, <1>6, CountsRight, Zenon

(* Without ranges every descriptor is referenced, and prepared, zero times.*)
LEMMA NothingNamed ==
  ASSUME NEW a \in Seq(RangeRecords)
  PROVE  /\ SubSeq(a, 1, 0) = <<>> /\ <<>> \in Seq(RangeRecords) /\ 0 \in 0 .. Len(a) /\ 0 \in Nat
         /\ \A md : Named(<<>>, md) = 0
<1>1. SubSeq(a, 1, 0) = <<>> /\ <<>> \in Seq(RangeRecords) /\ 0 \in 0 .. Len(a)
  OBVIOUS
<1> QED
  BY <1>1, NoneNamed

(* A structure left without ranges, users and walk.                        *)
LEMMA EmptyRight ==
  ASSUME array' \in Seq(RangeRecords), num_subranges' = 0, users' = 0,
         position' = 0, answer' = NoAnswer,
         structure' \in {"none", "pooled", "in_use"}, page_map' \in PageMaps,
         mbuf' \in Chains \cup {<<>>}, data' \in DataBuffers \cup {<<>>}, PlaceIsStart',
         \A md \in Descriptors : references'[md] = 0 /\ prepare_count'[md] = 0
  PROVE  MemoryInv'
<1>1. PICK a \in Seq(RangeRecords) : a = array'
  BY Zenon
<1>2. /\ SubSeq(a, 1, 0) = <<>> /\ <<>> \in Seq(RangeRecords) /\ 0 \in 0 .. Len(a) /\ 0 \in Nat
      /\ \A md : Named(<<>>, md) = 0
  BY NothingNamed, Zenon
<1>3. Ranges' = <<>>
  BY <1>1, <1>2, Zenon DEF Ranges
<1>4. MemoryTypes' /\ NothingLeft'
  BY <1>1, <1>2, Zenon DEF MemoryTypes, NothingLeft
<1>5. HaltsAtSegments' /\ SegmentsAreTheBytes'
  BY <1>2, <1>3, WalkStarts, Zenon
<1>6. DOMAIN <<>> = {}
  OBVIOUS
<1>7. RangesFit'
  BY <1>3, <1>6, Zenon DEF RangesFit
<1>8. 0 * 0 = 0
  OBVIOUS
<1>9. PreparedAllOrNone' /\ ReferencesMatchRanges'
  BY <1>2, <1>3, <1>8, Zenon DEF PreparedAllOrNone, ReferencesMatchRanges
<1> QED
  BY <1>4, <1>5, <1>7, <1>9, Zenon DEF MemoryInv

(* Nothing is prepared without a user, and releasing the ranges releases   *)
(* all references.                                                         *)
LEMMA Unprepared ==
  ASSUME MemoryInv, users = 0
  PROVE  \A md \in Descriptors :
           prepare_count[md] = 0 /\ references[md] - Named(Ranges, md) = 0
<1>1. MemoryTypes /\ PreparedAllOrNone /\ ReferencesMatchRanges
  BY Zenon DEF MemoryInv
<1> SUFFICES ASSUME NEW md \in Descriptors
             PROVE  prepare_count[md] = 0 /\ references[md] - Named(Ranges, md) = 0
  BY Zenon
<1>2. PICK x \in Nat : x = Named(Ranges, md)
  BY <1>1, AllOfThem, Zenon
<1>3. prepare_count[md] = 0 * x /\ references[md] = x
  BY <1>1, <1>2, Zenon DEF PreparedAllOrNone, ReferencesMatchRanges
<1> QED
  BY ONLY <1>2, <1>3, x \in Nat

(* The initial states.                                                     *)
LEMMA MemoryStarts ==
  ASSUME MemoryInit
  PROVE  MemoryInv
<1>1. /\ structure = "none" /\ page_map \in PageMaps /\ mbuf = <<>> /\ cur_mbuf = 1
      /\ cur_mbuf_begin = 0 /\ data = <<>> /\ array = <<>> /\ num_subranges = 0
      /\ references = [md \in Descriptors |-> 0] /\ prepare_count = [md \in Descriptors |-> 0]
      /\ users = 0 /\ position = 0 /\ answer = NoAnswer
  BY Zenon DEF MemoryInit
<1>2. <<>> \in Seq(RangeRecords) /\ <<>> \in Seq(MbufRecords) /\ DOMAIN <<>> = {} /\ 0 * 0 = 0
  OBVIOUS
<1>3. /\ SubSeq(<<>>, 1, 0) = <<>> /\ 0 \in 0 .. Len(<<>>) /\ 0 \in Nat
      /\ \A md : Named(<<>>, md) = 0
  BY <1>2, NothingNamed, Zenon
<1>4. Ranges = <<>>
  BY <1>1, <1>3, Zenon DEF Ranges
<1>5. MemoryTypes /\ NothingLeft
  BY <1>1, <1>2, <1>3, Zenon DEF MemoryTypes, NothingLeft
<1>6. PlaceIsStart
  <2>1. LengthOf(<<>>, 1, 0) = 0
    BY <1>2, ChainLengths, Zenon
  <2>2. 1 \in 1 .. Len(<<>>) + 1 /\ 1 - 1 = 0
    OBVIOUS
  <2> QED
    BY <1>1, <2>1, <2>2, Zenon DEF PlaceIsStart
<1>7. HaltsAtSegments
  <2>1. RangeStart(<<>>, Len(<<>>) + 1) \in Nat
    <3>1. PICK none \in Seq(RangeRecords) : none = <<>>
      BY <1>2, Zenon
    <3>2. /\ Len(none) \in Nat
          /\ \A i \in 1 .. Len(none) + 1 : RangeStart(none, i) \in Nat
      BY RangeStarts
    <3>3. Len(none) + 1 \in 1 .. Len(none) + 1
      BY <3>2
    <3> QED
      BY <3>1, <3>2, <3>3, Zenon
  <2>2. 0 <= RangesLength(<<>>)
    BY <2>1 DEF RangesLength
  <2> QED
    BY <1>1, <1>2, <1>4, <2>2, Zenon DEF HaltsAtSegments, HaltsInside
<1>8. ~answer.asked
  BY <1>1 DEF NoAnswer
<1>9. RangesFit /\ SegmentsAreTheBytes
  BY <1>2, <1>4, <1>8, Zenon DEF RangesFit, SegmentsAreTheBytes
<1>10. PreparedAllOrNone /\ ReferencesMatchRanges
  BY <1>1, <1>2, <1>3, <1>4, Zenon DEF PreparedAllOrNone, ReferencesMatchRanges
<1> QED
  BY <1>5, <1>6, <1>7, <1>9, <1>10, Zenon DEF MemoryInv

(* A structure created, given back or freed has no ranges and no users.    *)
LEMMA PoolRight ==
  ASSUME MemoryInv, Finish \/ Free \/ \E k \in {"packet", "request", "task"} : Create(k)
  PROVE  MemoryInv'
<1>1. MemoryTypes /\ PlaceIsStart /\ NothingLeft
  BY Zenon DEF MemoryInv
<1>2. /\ array \in Seq(RangeRecords) /\ page_map \in PageMaps
      /\ mbuf \in Chains \cup {<<>>} /\ data \in DataBuffers \cup {<<>>}
  BY <1>1, Zenon DEF MemoryTypes
<1>3. ASSUME users = 0, prepare_count' = prepare_count, ReleaseRanges
      PROVE  /\ array' = array /\ num_subranges' = 0
             /\ \A md \in Descriptors : references'[md] = 0 /\ prepare_count'[md] = 0
  <2>1. /\ array' = array /\ num_subranges' = 0
        /\ references' = [md \in Descriptors |-> references[md] - Named(Ranges, md)]
    BY <1>3, Zenon DEF ReleaseRanges
  <2>2. \A md \in Descriptors : prepare_count[md] = 0 /\ references[md] - Named(Ranges, md) = 0
    BY <1>3, Unprepared, Zenon
  <2> QED
    BY <1>3, <2>1, <2>2, Zenon
<1>4. CASE Finish
  <2>1. /\ users = 0 /\ structure' = "pooled" /\ ReleaseRanges
        /\ IF kind = "packet" THEN initWithMbuf(<<>>) ELSE UNCHANGED mbufVars
        /\ data' = <<>> /\ position' = 0 /\ answer' = NoAnswer
        /\ page_map' = page_map /\ prepare_count' = prepare_count /\ users' = users
    BY <1>4, Zenon DEF Finish, prepareVars
  <2>2. mbuf' \in Chains \cup {<<>>} /\ PlaceIsStart'
    <3>1. CASE kind = "packet"
      BY <2>1, <3>1, MbufTaken, Zenon
    <3>2. CASE kind # "packet"
      BY <1>1, <1>2, <2>1, <3>2, Zenon DEF mbufVars, PlaceIsStart
    <3> QED
      BY <3>1, <3>2, Zenon
  <2>3. /\ array' \in Seq(RangeRecords) /\ num_subranges' = 0
        /\ \A md \in Descriptors : references'[md] = 0 /\ prepare_count'[md] = 0
    BY <1>2, <1>3, <2>1, Zenon
  <2>4. users' = 0 /\ page_map' \in PageMaps /\ data' \in DataBuffers \cup {<<>>}
        /\ structure' \in {"none", "pooled", "in_use"}
    BY <1>2, <2>1, Zenon
  <2> QED
    BY <2>1, <2>2, <2>3, <2>4, EmptyRight, Zenon
<1>5. CASE Free
  <2>1. /\ structure = "pooled" /\ structure' = "none" /\ ReleaseRanges
        /\ UNCHANGED <<page_map, data, mbuf, cur_mbuf, cur_mbuf_begin, prepare_count, users, position, answer>>
    BY <1>5, Zenon DEF Free, mbufVars, prepareVars, walkVars
  <2>2. users = 0 /\ position = 0 /\ answer = NoAnswer
    BY <1>1, <2>1 DEF NothingLeft
  <2>3. /\ array' \in Seq(RangeRecords) /\ num_subranges' = 0
        /\ \A md \in Descriptors : references'[md] = 0 /\ prepare_count'[md] = 0
    BY <1>2, <1>3, <2>1, <2>2, Zenon
  <2>4. PlaceIsStart'
    BY <1>1, <2>1, Zenon DEF PlaceIsStart
  <2>5. /\ users' = 0 /\ position' = 0 /\ answer' = NoAnswer /\ page_map' \in PageMaps
        /\ data' \in DataBuffers \cup {<<>>} /\ mbuf' \in Chains \cup {<<>>}
        /\ structure' \in {"none", "pooled", "in_use"}
    BY <1>2, <2>1, <2>2, Zenon
  <2> QED
    BY <2>3, <2>4, <2>5, EmptyRight, Zenon
<1>6. CASE \E k \in {"packet", "request", "task"} : Create(k)
  <2>1. /\ structure = "none" /\ structure' = "pooled"
        /\ UNCHANGED <<page_map, data, mbuf, cur_mbuf, cur_mbuf_begin, array, num_subranges, references,
                       prepare_count, users, position, answer>>
    BY <1>6, Zenon DEF Create, mbufVars, rangeVars, prepareVars, walkVars
  <2>2. num_subranges = 0 /\ users = 0 /\ position = 0 /\ answer = NoAnswer
    BY <1>1, <2>1 DEF NothingLeft
  <2>3. \A md \in Descriptors : references[md] = 0 /\ prepare_count[md] = 0
    <3>1. Ranges = <<>> /\ \A md : Named(<<>>, md) = 0
      BY <1>2, <2>2, NothingNamed, Zenon DEF Ranges
    <3>2. ReferencesMatchRanges
      BY Zenon DEF MemoryInv
    <3> QED
      BY <2>2, <3>1, <3>2, Unprepared, Zenon DEF ReferencesMatchRanges
  <2>4. PlaceIsStart'
    BY <1>1, <2>1, Zenon DEF PlaceIsStart
  <2>5. /\ users' = 0 /\ position' = 0 /\ answer' = NoAnswer /\ page_map' \in PageMaps
        /\ data' \in DataBuffers \cup {<<>>} /\ mbuf' \in Chains \cup {<<>>}
        /\ structure' \in {"none", "pooled", "in_use"}
        /\ array' \in Seq(RangeRecords) /\ num_subranges' = 0
        /\ \A md \in Descriptors : references'[md] = 0 /\ prepare_count'[md] = 0
    BY <1>2, <2>1, <2>2, <2>3, Zenon
  <2> QED
    BY <2>4, <2>5, EmptyRight, Zenon
<1> QED
  BY <1>4, <1>5, <1>6, Zenon

(* The inductive invariant of the memory descriptors.                      *)
THEOREM MemoryInvariance == MemorySpec => []MemoryInv
<1>1. MemoryInit => MemoryInv
  BY MemoryStarts
<1>2. MemoryInv /\ [MemoryNext]_memoryVars => MemoryInv'
  <2> SUFFICES ASSUME MemoryInv, [MemoryNext]_memoryVars PROVE MemoryInv'
    OBVIOUS
  <2>1. CASE Finish \/ Free \/ \E k \in {"packet", "request", "task"} : Create(k)
    BY <2>1, PoolRight, Zenon
  <2>2. ASSUME NEW chain \in Chains,
               \/ addPacketToQueue(chain)
               \/ \E pktSize \in 1 .. PageSize : Len(chain) = 1 /\ sendPacket(chain[1], pktSize)
        PROVE  MemoryInv'
    BY <2>2, PacketsRight, Zenon
  <2>3. ASSUME NEW bytes \in DataBuffers, NEW length \in 0 .. Len(bytes),
               \/ \E write \in BOOLEAN : doAsyncReadWriteOnWorkLoop(bytes, length, write)
               \/ \E offset \in 0 .. Len(bytes) - length : \E part \in {"to_device", "from_device"} :
                    ProcessParallelTaskInGate(bytes, offset, length, part)
        PROVE  MemoryInv'
    BY <2>3, TransfersRight, Zenon
  <2>4. CASE ProcessParallelTaskNoData
    BY <2>4, NoDataRight, Zenon
  <2>5. CASE getPhysicalSegment
    BY <2>5, AnswersRight, Zenon
  <2>6. CASE WalkAgain
    BY <2>6, WalkAgainRight, Zenon
  <2>7. CASE prepare
    BY <2>7, PrepareRight, Zenon
  <2>8. CASE prepareFails
    BY <2>8, PrepareFailsRight, Zenon
  <2>9. CASE complete
    BY <2>9, CompleteRight, Zenon
  <2>10. CASE UNCHANGED memoryVars
    <3>1. /\ UNCHANGED <<page_map, data, mbufVars, rangeVars>>
          /\ UNCHANGED <<structure, prepare_count, users, position, answer>>
      BY <2>10, Zenon DEF memoryVars, prepareVars, walkVars
    <3>2. /\ Ranges' = Ranges /\ AllBytes' = AllBytes
          /\ PlaceIsStart' /\ RangesFit' /\ ReferencesMatchRanges'
          /\ \A r, x : SegmentEnds(r, x)' = SegmentEnds(r, x)
          /\ RangesEndWithSegments' = RangesEndWithSegments
          /\ \A x : RangeEnd(x)' = RangeEnd(x)
      BY <3>1, RangesKept, Zenon
    <3>3. /\ MemoryTypes /\ NothingLeft /\ HaltsAtSegments
          /\ SegmentsAreTheBytes /\ PreparedAllOrNone
      BY Zenon DEF MemoryInv
    <3>4. MemoryTypes' /\ NothingLeft'
      BY <3>1, <3>3, Zenon DEF MemoryTypes, NothingLeft, mbufVars, rangeVars
    <3>5. HaltsAtSegments' /\ SegmentsAreTheBytes' /\ PreparedAllOrNone'
      BY <3>1, <3>2, <3>3, Zenon DEF HaltsAtSegments, HaltsInside, SegmentsAreTheBytes, PreparedAllOrNone
    <3> QED
      BY <3>2, <3>4, <3>5, Zenon DEF MemoryInv
  <2> QED
    BY <2>1, <2>2, <2>3, <2>4, <2>5, <2>6, <2>7, <2>8, <2>9, <2>10, Zenon DEF MemoryNext
<1> QED
  BY <1>1, <1>2, PTL DEF MemorySpec

(* For every page size, chain and buffer: each answer of a combined        *)
(* descriptor is right as far as its range goes, and if all ranges end     *)
(* with a segment a walk gives the device exactly the bytes of the ranges. *)
THEOREM SegmentsAlwaysTheBytes == MemorySpec => []SegmentsAreTheBytes
<1>1. MemoryInv => SegmentsAreTheBytes
  BY Zenon DEF MemoryInv
<1> QED
  BY <1>1, MemoryInvariance, PTL

(* For any number of users: every member is prepared once for every user   *)
(* and range, whatever member a prepare() failed at.                       *)
THEOREM AlwaysPreparedAllOrNone == MemorySpec => []PreparedAllOrNone
<1>1. MemoryInv => PreparedAllOrNone
  BY Zenon DEF MemoryInv
<1> QED
  BY <1>1, MemoryInvariance, PTL

(* The combined descriptor always holds one reference for every range.     *)
THEOREM ReferencesAlwaysMatch == MemorySpec => []ReferencesMatchRanges
<1>1. MemoryInv => ReferencesMatchRanges
  BY Zenon DEF MemoryInv
<1> QED
  BY <1>1, MemoryInvariance, PTL

=============================================================================
