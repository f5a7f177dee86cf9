------------------------- MODULE SCSIControllerProofs -------------------------
(***************************************************************************)
(* Proofs about SCSIController, for any number of tasks, targets and       *)
(* events and all sizes of the queues.  The four pools are treated alike:  *)
(* Owned says who has the items of a pool, and three lemmas say that       *)
(* taking, answering and returning keep it.  ControlRoom counts the        *)
(* functions that direct descriptors let into the control queue.           *)
(***************************************************************************)
EXTENDS SCSIController, FiniteSetTheorems, FunctionTheorems, TLAPS

TaskStates == {"idle", "device", "ok", "error", "bad_target"}
FunctionStates == {"idle", "device", "answered"}

Events == [reason : {"removed", "rescan"}, id : Targets, events_missed : BOOLEAN]

Types ==
  /\ hotplug \in BOOLEAN /\ indirect \in BOOLEAN
  /\ task \in [Requests -> TaskStates] /\ target \in [Requests -> Targets]
  /\ DOMAIN multi_md = Requests /\ DOMAIN sub_md = Requests
  /\ function \in [Functions -> FunctionStates]
  /\ DOMAIN readable = Functions /\ DOMAIN writable = Functions
  /\ device_targets \subseteq Targets
  /\ events \in Seq(Events)

(* An item that is not in its pool is with exactly one user that is not    *)
(* idle, and every such user has one.                                      *)
Owned(pool, all, item, state) ==
  /\ pool \subseteq all
  /\ \A x \in Busy(state) : item[x] \in all \ pool
  /\ \A x, y \in Busy(state) : item[x] = item[y] => x = y
  /\ \A i \in all \ pool : \E x \in Busy(state) : item[x] = i

AllOwned ==
  phase \in {"initialized", "started"} =>
    /\ Owned(multi_subrange_MD_pool, Items, multi_md, task)
    /\ Owned(single_subrange_MD_pool, Items, sub_md, task)
    /\ Owned(ctrl_readable_pool, CtrlItems, readable, function)
    /\ Owned(ctrl_writable_pool, CtrlItems, writable, function)

(* With direct descriptors every function has two entries of the queue.    *)
ControlRoom == ~indirect => 2 * Cardinality(Busy(function)) <= ControlQueueSize

(* No event and no answer under way speaks against a target that was there *)
(* all the time.                                                           *)
NothingAgainstStable ==
  /\ stable \subseteq device_targets
  /\ \A i \in 1 .. Len(events) : events[i].reason = "removed" => events[i].id \notin stable
  /\ \A r \in Requests : task[r] = "bad_target" => target[r] \notin stable

IInv == Types /\ AllOwned /\ ControlRoom /\ NothingAgainstStable /\ StableTargetsStay

-----------------------------------------------------------------------------
(* The pools *)

(* item_from_pool: an idle user gets an item of the pool.                  *)
LEMMA Taking ==
  ASSUME NEW pool, NEW all, NEW item, NEW state, Owned(pool, all, item, state),
         DOMAIN item = DOMAIN state,
         NEW u \in DOMAIN state, state[u] = "idle", NEW i \in pool, NEW s, s # "idle"
  PROVE  Owned(pool \ {i}, all, [item EXCEPT ![u] = i], [state EXCEPT ![u] = s])
<1> DEFINE now == [state EXCEPT ![u] = s]
           with == [item EXCEPT ![u] = i]
<1>1. Busy(now) = Busy(state) \cup {u} /\ u \notin Busy(state)
  BY DEF Busy
<1>2. with[u] = i /\ \A x \in Busy(state) : with[x] = item[x]
  BY <1>1 DEF Busy
<1>3. pool \ {i} \subseteq all /\ i \in all
  BY DEF Owned
<1>4. \A x \in Busy(now) : with[x] \in all \ (pool \ {i})
  BY <1>1, <1>2, <1>3 DEF Owned
<1>5. \A x, y \in Busy(now) : with[x] = with[y] => x = y
  BY <1>1, <1>2 DEF Owned
<1>6. \A j \in all \ (pool \ {i}) : \E x \in Busy(now) : with[x] = j
  BY <1>1, <1>2, Zenon DEF Owned
<1> HIDE DEF now, with
<1>7. Owned(pool \ {i}, all, with, now)
  BY <1>3, <1>4, <1>5, <1>6 DEF Owned
<1> QED
  BY <1>7 DEF now, with

(* The device answers: who has what stays as it is.                        *)
LEMMA Answering ==
  ASSUME NEW pool, NEW all, NEW item, NEW state, Owned(pool, all, item, state),
         NEW u \in DOMAIN state, state[u] # "idle", NEW s, s # "idle"
  PROVE  Owned(pool, all, item, [state EXCEPT ![u] = s])
<1>1. Busy([state EXCEPT ![u] = s]) = Busy(state)
  BY DEF Busy
<1> QED
  BY <1>1, Zenon DEF Owned

(* A completion puts the item of its user back.                            *)
LEMMA Returning ==
  ASSUME NEW pool, NEW all, NEW item, NEW state, Owned(pool, all, item, state),
         DOMAIN item = DOMAIN state,
         NEW u \in DOMAIN state, state[u] # "idle", NEW none
  PROVE  Owned(pool \cup {item[u]}, all, [item EXCEPT ![u] = none],
               [state EXCEPT ![u] = "idle"])
<1> DEFINE now == [state EXCEPT ![u] = "idle"]
           with == [item EXCEPT ![u] = none]
<1>1. Busy(now) = Busy(state) \ {u} /\ u \in Busy(state)
  BY DEF Busy
<1>2. \A x \in Busy(now) : with[x] = item[x]
  BY <1>1 DEF Busy
<1> QED
  BY <1>1, <1>2, ZenonT(60) DEF Owned

Held(item, state) == {item[x] : x \in Busy(state)}

(* The books of a pool of n items balance, and it is empty only if n users *)
(* have one each.                                                          *)
LEMMA Balance ==
  ASSUME NEW n \in Nat, NEW all, all = 1 .. n,
         NEW pool, NEW item, NEW state, Owned(pool, all, item, state)
  PROVE  /\ pool = all \ Held(item, state)
         /\ IsFiniteSet(Busy(state))
         /\ Cardinality(Held(item, state)) = Cardinality(Busy(state))
         /\ pool = {} => Cardinality(Busy(state)) = n
<1> DEFINE B == Busy(state)
           held == {item[x] : x \in B}
           f == [x \in B |-> item[x]]
<1>1. pool = all \ held /\ held \subseteq all
  <2>0. \A x \in B : item[x] \in all \ pool
    BY Zenon DEF Owned
  <2>1. held \subseteq all \ pool
    BY <2>0, Zenon
  <2>2. all \ pool \subseteq held
    BY Zenon DEF Owned
  <2>3. pool \subseteq all
    BY Zenon DEF Owned
  <2> QED
    BY <2>1, <2>2, <2>3, Zenon
<1>2. f \in Bijection(B, held)
  <2>1. f \in [B -> held] /\ \A a, b \in B : f[a] = f[b] => a = b
    BY DEF Owned
  <2>2. \A t \in held : \E s \in B : f[s] = t
    OBVIOUS
  <2> QED
    BY <2>1, <2>2, Fun_IsBij
<1>0. IsFiniteSet(all) /\ Cardinality(all) = n
  <2>1. 1 \in Int /\ n \in Int /\ (IF 1 > n THEN 0 ELSE n - 1 + 1) = n
    BY SMTT(60)
  <2> QED
    BY <2>1, FS_Interval
<1>3. IsFiniteSet(held)
  BY <1>1, <1>0, FS_Subset
<1>4. IsFiniteSet(B) /\ Cardinality(held) = Cardinality(B)
  <2>1. f \in Injection(B, held) /\ f \in Surjection(B, held)
    BY <1>2, Fun_BijectionProperties
  <2> QED
    BY <2>1, <1>3, FS_Injection
<1>5. ASSUME pool = {} PROVE Cardinality(B) = n
  <2>1. held = all
    BY <1>1, <1>5
  <2> QED
    BY <2>1, <1>4, <1>0, Zenon
<1> QED
  BY <1>1, <1>4, <1>5 DEF Held

-----------------------------------------------------------------------------
(* Full pools, no task, no event.                                          *)
LEMMA InitEstablishes == Init => IInv
<1> SUFFICES ASSUME Init PROVE IInv
  OBVIOUS
<1>1. Types
  BY TargetsAssumption DEF Init, Types, TaskStates, FunctionStates, Targets, Events
<1>2. Busy(task) = {} /\ Busy(function) = {}
  BY DEF Init, Busy
<1>3. AllOwned
  BY <1>2, Zenon DEF Init, AllOwned, Owned
<1>4. NothingAgainstStable
  BY DEF Init, NothingAgainstStable
<1>5. StableTargetsStay
  BY Zenon DEF Init, StableTargetsStay
<1>6. ControlRoom
  BY <1>2, FS_EmptySet, SizesAssumption DEF ControlRoom
<1> QED
  BY <1>1, <1>3, <1>4, <1>5, <1>6 DEF IInv

(* One step per action, and under it one per conjunct it can disturb.      *)
LEMMA StepPreserves == IInv /\ [Next]_vars => IInv'
<1> SUFFICES ASSUME IInv, [Next]_vars PROVE IInv'
  OBVIOUS
<1> USE DEF IInv, features
<1>0. ASSUME Busy(function)' = Busy(function), indirect' = indirect PROVE ControlRoom'
  BY <1>0, Zenon DEF ControlRoom
<1>1. CASE StartController
  <2>1. Types' /\ AllOwned'
    BY <1>1, Zenon DEF StartController, Types, AllOwned, pools, tasks, control, hotplugVars
  <2>2. NothingAgainstStable'
    BY <1>1, Zenon DEF StartController, NothingAgainstStable, tasks, hotplugVars
  <2>3. StableTargetsStay'
    BY <1>1
    DEF StartController, CreateTargets, StableTargetsStay, NothingAgainstStable, hotplugVars,
        Types
  <2> QED
    BY <1>0, <1>1, <2>1, <2>2, <2>3, Zenon DEF StartController, control, Busy
<1>2. CASE TerminateController
  <2>1. Types' /\ AllOwned'
    BY <1>2, Zenon DEF TerminateController, Types, AllOwned, tasks, hotplugVars
  <2>2. NothingAgainstStable' /\ StableTargetsStay'
    BY <1>2, Zenon
    DEF TerminateController, NothingAgainstStable, StableTargetsStay, tasks, hotplugVars
  <2> QED
    BY <1>0, <1>2, <2>1, <2>2, Zenon DEF TerminateController, Busy
<1>3. ASSUME NEW r \in Requests, NEW t \in Targets, ProcessParallelTask(r, t) PROVE IInv'
  <2>1. CASE TaskSent(r, t)
    <3> USE <2>1 DEF TaskSent, MayProcess
    <3>1. Types'
      BY DEF Types, TaskStates, control, hotplugVars
    <3>2. AllOwned'
      <4>1. PICK m \in multi_subrange_MD_pool, s \in single_subrange_MD_pool :
              /\ multi_subrange_MD_pool' = multi_subrange_MD_pool \ {m}
              /\ single_subrange_MD_pool' = single_subrange_MD_pool \ {s}
              /\ multi_md' = [multi_md EXCEPT ![r] = m]
              /\ sub_md' = [sub_md EXCEPT ![r] = s]
        BY Zenon
      <4>2. task[r] = "idle" /\ task' = [task EXCEPT ![r] = "device"]
        BY Zenon
      <4>3. r \in DOMAIN task /\ DOMAIN multi_md = DOMAIN task /\ DOMAIN sub_md = DOMAIN task
        BY Zenon DEF Types
      <4>4. Owned(multi_subrange_MD_pool, Items, multi_md, task)
        BY DEF AllOwned
      <4>5. Owned(single_subrange_MD_pool, Items, sub_md, task)
        BY DEF AllOwned
      <4>6. "device" # "idle"
        OBVIOUS
      <4>7. Owned(multi_subrange_MD_pool', Items, multi_md', task')
        BY ONLY <4>1, <4>2, <4>3, <4>4, <4>6, Taking, Zenon
      <4>8. Owned(single_subrange_MD_pool', Items, sub_md', task')
        BY ONLY <4>1, <4>2, <4>3, <4>5, <4>6, Taking, Zenon
      <4> QED
        BY <4>7, <4>8, Zenon DEF AllOwned, control
    <3>3. NothingAgainstStable' /\ StableTargetsStay'
      BY DEF NothingAgainstStable, StableTargetsStay, hotplugVars, Types
    <3> QED
      BY <1>0, <3>1, <3>2, <3>3, Zenon DEF control, Busy
  <2>2. CASE TaskRefused(r, t)
    BY <1>0, <2>2, Zenon
    DEF TaskRefused, Busy, vars, pools, tasks, control, hotplugVars, Types, AllOwned,
        NothingAgainstStable, StableTargetsStay
  <2> QED
    BY <1>3, <2>1, <2>2 DEF ProcessParallelTask
<1>4. ASSUME NEW r \in Requests, DeviceAnswersTask(r) PROVE IInv'
  <2> USE <1>4 DEF DeviceAnswersTask
  <2>1. PICK answer \in {"ok", "error", "bad_target"} :
          /\ task' = [task EXCEPT ![r] = answer]
          /\ answer = "bad_target" => target[r] \notin device_targets
    BY Zenon
  <2>2. Types'
    BY <2>1 DEF Types, TaskStates, control, hotplugVars
  <2>3. AllOwned'
    <3>1. answer # "idle" /\ task[r] # "idle" /\ r \in DOMAIN task
      BY DEF Types
    <3>2. Owned(multi_subrange_MD_pool, Items, multi_md, task)'
      BY <2>1, <3>1, Answering, Zenon DEF AllOwned, pools
    <3>3. Owned(single_subrange_MD_pool, Items, sub_md, task)'
      BY <2>1, <3>1, Answering, Zenon DEF AllOwned, pools
    <3> QED
      BY <3>2, <3>3, Zenon DEF AllOwned, control
  <2>4. NothingAgainstStable' /\ StableTargetsStay'
    BY <2>1 DEF NothingAgainstStable, StableTargetsStay, hotplugVars, Types
  <2> QED
    BY <1>0, <2>2, <2>3, <2>4, Zenon DEF control, Busy
<1>5. ASSUME NEW r \in Requests, parallelTaskCompleted(r) PROVE IInv'
  <2> USE <1>5 DEF parallelTaskCompleted
  <2>1. Types'
    BY TargetsAssumption DEF Types, TaskStates, Targets, control, hotplugVars
  <2>2. AllOwned'
    <3>1. task[r] # "idle" /\ task' = [task EXCEPT ![r] = "idle"]
      BY DEF Types
    <3>2. r \in DOMAIN task /\ DOMAIN multi_md = DOMAIN task /\ DOMAIN sub_md = DOMAIN task
      BY Zenon DEF Types
    <3>3. Owned(multi_subrange_MD_pool, Items, multi_md, task)
      BY DEF AllOwned
    <3>4. Owned(single_subrange_MD_pool, Items, sub_md, task)
      BY DEF AllOwned
    <3>5. /\ multi_subrange_MD_pool' = multi_subrange_MD_pool \cup {multi_md[r]}
          /\ single_subrange_MD_pool' = single_subrange_MD_pool \cup {sub_md[r]}
          /\ multi_md' = [multi_md EXCEPT ![r] = NoItem]
          /\ sub_md' = [sub_md EXCEPT ![r] = NoItem]
      BY DEF ItemsReturned
    <3>6. Owned(multi_subrange_MD_pool', Items, multi_md', task')
      BY ONLY <3>1, <3>2, <3>3, <3>5, Returning, Zenon
    <3>7. Owned(single_subrange_MD_pool', Items, sub_md', task')
      BY ONLY <3>1, <3>2, <3>4, <3>5, Returning, Zenon
    <3> QED
      BY <3>6, <3>7, Zenon DEF AllOwned, control
  <2>3. NothingAgainstStable'
    BY DEF NothingAgainstStable, hotplugVars, Types
  <2>4. StableTargetsStay'
    BY DEF NothingAgainstStable, StableTargetsStay, hotplugVars, IsBadTarget, DestroyTarget
  <2> QED
    BY <1>0, <2>1, <2>2, <2>3, <2>4, Zenon DEF control, Busy
<1>6. ASSUME NEW f \in Functions, processTaskManagementFunction(f) PROVE IInv'
  <2> USE <1>6 DEF processTaskManagementFunction
  <2>1. NothingAgainstStable'
    BY Zenon DEF NothingAgainstStable, tasks, hotplugVars
  <2>0. StableTargetsStay'
    BY Zenon DEF StableTargetsStay, hotplugVars
  <2>2. CASE FunctionSent(f)
    <3>1. PICK i \in ctrl_readable_pool, j \in ctrl_writable_pool :
            /\ ctrl_readable_pool' = ctrl_readable_pool \ {i}
            /\ ctrl_writable_pool' = ctrl_writable_pool \ {j}
            /\ readable' = [readable EXCEPT ![f] = i]
            /\ writable' = [writable EXCEPT ![f] = j]
      BY <2>2, Zenon DEF FunctionSent
    <3>2. function' = [function EXCEPT ![f] = "device"] /\ function[f] = "idle"
      BY <2>2, Zenon DEF FunctionSent
    <3>3. /\ f \in DOMAIN function
          /\ DOMAIN readable = DOMAIN function /\ DOMAIN writable = DOMAIN function
      BY Zenon DEF Types
    <3>4. Owned(ctrl_readable_pool, CtrlItems, readable, function)'
      BY <3>1, <3>2, <3>3, Taking, Zenon DEF AllOwned
    <3>5. Owned(ctrl_writable_pool, CtrlItems, writable, function)'
      BY <3>1, <3>2, <3>3, Taking, Zenon DEF AllOwned
    <3>6. AllOwned'
      BY <3>4, <3>5, Zenon DEF AllOwned, pools, tasks
    <3>7. Types'
      BY <3>1, <3>2 DEF Types, FunctionStates, tasks, hotplugVars
    <3>8. ControlRoom'
      <4>1. Busy(function)' = Busy(function) \cup {f} /\ f \notin Busy(function)
        BY <3>2, <3>3 DEF Busy
      <4>2. ControlQueueSize \in Nat /\ CtrlItems = 1 .. ControlQueueSize
        BY SizesAssumption DEF CtrlItems
      <4>3. Owned(ctrl_readable_pool, CtrlItems, readable, function)
        BY DEF AllOwned
      <4>4. IsFiniteSet(Busy(function))
        BY ONLY <4>2, <4>3, Balance, SMTT(60)
      <4>5. Cardinality(Busy(function)') = Cardinality(Busy(function)) + 1
        BY <4>1, <4>4, FS_AddElement
      <4>6. ~indirect => 2 * (Cardinality(Busy(function)) + 1) <= ControlQueueSize
        BY <2>2, Zenon DEF FunctionSent, RoomInControlQueue
      <4> QED
        BY <4>5, <4>6, Zenon DEF ControlRoom
    <3> QED
      BY <2>0, <2>1, <3>6, <3>7, <3>8
  <2>3. CASE FunctionRefused
    BY <1>0, <2>0, <2>1, <2>3, Zenon
    DEF FunctionRefused, Busy, control, Types, AllOwned, pools, tasks, hotplugVars
  <2>4. CASE FunctionWithoutItem
    BY <1>0, <2>0, <2>1, <2>4, Zenon
    DEF FunctionWithoutItem, Busy, control, Types, AllOwned, tasks, hotplugVars
  <2> QED
    BY <2>2, <2>3, <2>4
<1>7. ASSUME NEW f \in Functions, DeviceAnswersFunction(f) PROVE IInv'
  <2> USE <1>7 DEF DeviceAnswersFunction
  <2>1. NothingAgainstStable' /\ StableTargetsStay'
    BY Zenon DEF NothingAgainstStable, StableTargetsStay, tasks, hotplugVars
  <2>2. Types'
    BY DEF Types, FunctionStates, tasks, hotplugVars
  <2>3. AllOwned'
    <3>1. f \in DOMAIN function /\ function[f] # "idle" /\ "answered" # "idle"
      BY DEF Types
    <3>2. Owned(ctrl_readable_pool, CtrlItems, readable, function)'
      BY <3>1, Answering, Zenon DEF AllOwned
    <3>3. Owned(ctrl_writable_pool, CtrlItems, writable, function)'
      BY <3>1, Answering, Zenon DEF AllOwned
    <3> QED
      BY <3>2, <3>3, Zenon DEF AllOwned, pools, tasks
  <2>4. Busy(function)' = Busy(function)
    BY DEF Types, Busy
  <2> QED
    BY <1>0, <2>1, <2>2, <2>3, <2>4, Zenon
<1>8. ASSUME NEW f \in Functions, taskManagementFunctionCompleted(f) PROVE IInv'
  <2> USE <1>8 DEF taskManagementFunctionCompleted
  <2>1. NothingAgainstStable' /\ StableTargetsStay'
    BY Zenon DEF NothingAgainstStable, StableTargetsStay, tasks, hotplugVars
  <2>2. Types'
    BY DEF Types, FunctionStates, tasks, hotplugVars
  <2>3. AllOwned'
    <3>1. /\ f \in DOMAIN function /\ function[f] # "idle"
          /\ DOMAIN readable = DOMAIN function /\ DOMAIN writable = DOMAIN function
      BY DEF Types
    <3>2. Owned(ctrl_readable_pool, CtrlItems, readable, function)'
      BY <3>1, Returning, Zenon DEF AllOwned, CtrlItemsReturned
    <3>3. Owned(ctrl_writable_pool, CtrlItems, writable, function)'
      BY <3>1, Returning, Zenon DEF AllOwned, CtrlItemsReturned
    <3> QED
      BY <3>2, <3>3, Zenon DEF AllOwned, pools, tasks
  <2>4. ControlRoom'
    <3>1. Busy(function)' = Busy(function) \ {f} /\ f \in Busy(function)
      BY DEF Types, Busy
    <3>2. ControlQueueSize \in Nat /\ CtrlItems = 1 .. ControlQueueSize
      BY SizesAssumption DEF CtrlItems
    <3>3. Owned(ctrl_readable_pool, CtrlItems, readable, function)
      BY DEF AllOwned
    <3>4. IsFiniteSet(Busy(function))
      BY ONLY <3>2, <3>3, Balance, SMTT(60)
    <3>5. /\ Cardinality(Busy(function)') = Cardinality(Busy(function)) - 1
          /\ Cardinality(Busy(function)) \in Nat
      BY <3>1, <3>4, FS_RemoveElement, FS_CardinalityType
    <3>6. indirect' = indirect
      BY Zenon
    <3> QED
      BY ONLY <3>2, <3>5, <3>6, ControlRoom DEF ControlRoom
  <2> QED
    BY <2>1, <2>2, <2>3, <2>4
<1>9. ASSUME NEW t \in Targets, DeviceChanges(t) PROVE IInv'
  <2> USE <1>9 DEF DeviceChanges
  <2>0. PICK bit \in BOOLEAN :
          \/ events' = Append(events,
               [reason |-> IF t \in device_targets THEN "removed" ELSE "rescan",
                id |-> t, events_missed |-> bit])
          \/ events' = events
    BY Zenon
  <2> DEFINE event == [reason |-> IF t \in device_targets THEN "removed" ELSE "rescan",
                       id |-> t, events_missed |-> bit]
  <2>1. events' = Append(events, event) \/ events' = events
    BY <2>0, Zenon
  <2>2. stable' \subseteq stable /\ (event.reason = "removed" => event.id \notin stable')
    BY Zenon
  <2>3. event \in Events
    BY DEF Events
  <2> HIDE DEF event
  <2>4. Types'
    <3>1. events' \in Seq(Events)
      <4>1. events \in Seq(Events)
        BY DEF Types
      <4> QED
        BY ONLY <2>1, <2>3, <4>1
    <3>2. device_targets' \subseteq Targets
      BY DEF Types
    <3> QED
      BY <3>1, <3>2, Zenon DEF Types, Events, tasks, control
  <2>5. AllOwned'
    BY Zenon DEF AllOwned, pools, tasks, control
  <2>6. NothingAgainstStable'
    <3>1. \A i \in 1 .. Len(events') :
            (i \in 1 .. Len(events) /\ events'[i] = events[i]) \/ events'[i] = event
      BY <2>1, <2>3 DEF Types
    <3>2. \A i \in 1 .. Len(events') : events'[i].reason = "removed" => events'[i].id \notin stable'
      BY <2>2, <3>1 DEF NothingAgainstStable
    <3>3. stable' \subseteq device_targets'
      BY DEF NothingAgainstStable
    <3> QED
      BY <3>2, <3>3, <2>2, Zenon DEF NothingAgainstStable, tasks
  <2>7. StableTargetsStay'
    BY <2>2, Zenon DEF StableTargetsStay
  <2> QED
    BY <1>0, <2>4, <2>5, <2>6, <2>7, Zenon DEF control, Busy
<1>10. CASE eventCompleted
  <2> USE <1>10 DEF eventCompleted
  <2>1. Types'
    BY DEF Types, tasks, control
  <2>2. AllOwned'
    BY Zenon DEF AllOwned, pools, tasks, control
  <2>3. NothingAgainstStable'
    BY DEF NothingAgainstStable, Types, tasks
  <2>4. StableTargetsStay'
    <3>1. Head(events) = events[1] /\ 1 \in 1 .. Len(events)
      BY DEF Types
    <3> QED
      BY <3>1 DEF EventHandled, CreateTargets, DestroyTarget, StableTargetsStay,
         NothingAgainstStable
  <2> QED
    BY <1>0, <2>1, <2>2, <2>3, <2>4, Zenon DEF control, Busy
<1>11. CASE UNCHANGED vars
  BY <1>0, <1>11, Zenon
  DEF Busy, vars, pools, tasks, control, hotplugVars, Types, AllOwned, NothingAgainstStable,
      StableTargetsStay
<1> QED
  BY <1>1, <1>2, <1>3, <1>4, <1>5, <1>6, <1>7, <1>8, <1>9, <1>10, <1>11, Zenon DEF Next

(* The inductive invariant holds in every state.                           *)
THEOREM Invariance == Spec => []IInv
  BY InitEstablishes, StepPreserves, PTL DEF Spec

(* No pool item of a task or of a management function is lost, or given to *)
(* two: submissions that fail and completions give back what was taken     *)
(* (ProcessParallelTaskInGate and the completions).                        *)
THEOREM ItemsAlwaysAccountedFor == Spec => []ItemsAccountedFor
<1>1. IInv => ItemsAccountedFor
  <2> SUFFICES ASSUME IInv, phase = "started" PROVE ItemsAccountedFor
    BY DEF ItemsAccountedFor
  <2>1. PICK n \in Nat : Items = 1 .. n
    BY SizesAssumption DEF AtMost, Items
  <2>2. ControlQueueSize \in Nat /\ CtrlItems = 1 .. ControlQueueSize
    BY SizesAssumption DEF CtrlItems
  <2>3. /\ Owned(multi_subrange_MD_pool, Items, multi_md, task)
        /\ Owned(single_subrange_MD_pool, Items, sub_md, task)
        /\ Owned(ctrl_readable_pool, CtrlItems, readable, function)
        /\ Owned(ctrl_writable_pool, CtrlItems, writable, function)
    BY DEF IInv, AllOwned
  <2>4. /\ multi_subrange_MD_pool = Items \ Held(multi_md, task)
        /\ Cardinality(Held(multi_md, task)) = Cardinality(Busy(task))
    BY ONLY <2>1, <2>3, Balance, SMTT(60)
  <2>5. /\ single_subrange_MD_pool = Items \ Held(sub_md, task)
        /\ Cardinality(Held(sub_md, task)) = Cardinality(Busy(task))
    BY ONLY <2>1, <2>3, Balance, SMTT(60)
  <2>6. /\ ctrl_readable_pool = CtrlItems \ Held(readable, function)
        /\ Cardinality(Held(readable, function)) = Cardinality(Busy(function))
    BY ONLY <2>2, <2>3, Balance, SMTT(60)
  <2>7. /\ ctrl_writable_pool = CtrlItems \ Held(writable, function)
        /\ Cardinality(Held(writable, function)) = Cardinality(Busy(function))
    BY ONLY <2>2, <2>3, Balance, SMTT(60)
  <2> QED
    BY <2>4, <2>5, <2>6, <2>7, Zenon DEF ItemsAccountedFor, Held
<1> QED
  BY <1>1, Invariance, PTL

(* item_from_pool finds an item for every task within the limit that       *)
(* ReportMaximumTaskCount states; for every management function if the     *)
(* queue uses direct descriptors, and otherwise as long as fewer functions *)
(* are going than the control queue has entries.                           *)
THEOREM ItemAlwaysForEveryRequest == Spec => []ItemForEveryRequest
<1>1. IInv => ItemForEveryRequest
  <2> SUFFICES ASSUME IInv, phase = "started" PROVE ItemForEveryRequest
    BY DEF ItemForEveryRequest
  <2> DEFINE n == ReportMaximumTaskCount
  <2>1. n \in Nat /\ Items = 1 .. n
    BY SizesAssumption DEF AtMost, ReportMaximumTaskCount, Items
  <2>2. ControlQueueSize \in Nat /\ CtrlItems = 1 .. ControlQueueSize
    BY SizesAssumption DEF CtrlItems
  <2>3. /\ Owned(multi_subrange_MD_pool, Items, multi_md, task)
        /\ Owned(single_subrange_MD_pool, Items, sub_md, task)
        /\ Owned(ctrl_readable_pool, CtrlItems, readable, function)
        /\ Owned(ctrl_writable_pool, CtrlItems, writable, function)
    BY DEF IInv, AllOwned
  <2>4. ASSUME Cardinality(Busy(task)) < n
        PROVE  multi_subrange_MD_pool # {} /\ single_subrange_MD_pool # {}
    <3>1. Cardinality(Busy(task)) # n
      BY <2>1, <2>4
    <3>2. multi_subrange_MD_pool # {}
      BY ONLY <2>1, <2>3, <3>1, Balance, SMTT(60)
    <3>3. single_subrange_MD_pool # {}
      BY ONLY <2>1, <2>3, <3>1, Balance, SMTT(60)
    <3> QED
      BY <3>2, <3>3
  <2>5. ASSUME ~indirect \/ Cardinality(Busy(function)) < ControlQueueSize
        PROVE  ctrl_readable_pool # {} /\ ctrl_writable_pool # {}
    <3>1. Cardinality(Busy(function)) \in Nat
      <4>1. IsFiniteSet(Busy(function))
        BY ONLY <2>2, <2>3, Balance, SMTT(60)
      <4> QED
        BY <4>1, FS_CardinalityType
    <3>2. Cardinality(Busy(function)) # ControlQueueSize
      <4>1. ControlQueueSize # 0 /\ ControlRoom
        BY SizesAssumption DEF IInv
      <4> QED
        BY ONLY <2>2, <2>5, <3>1, <4>1 DEF ControlRoom
    <3>3. ctrl_readable_pool # {}
      BY ONLY <2>2, <2>3, <3>2, Balance, SMTT(60)
    <3>4. ctrl_writable_pool # {}
      BY ONLY <2>2, <2>3, <3>2, Balance, SMTT(60)
    <3> QED
      BY <3>3, <3>4
  <2> QED
    BY <2>4, <2>5 DEF ItemForEveryRequest
<1> QED
  BY <1>1, Invariance, PTL

(* A target that never went away stays known to the SCSI family, in        *)
(* whatever order events and BAD_TARGET answers about others are handled   *)
(* (eventCompleted, parallelTaskCompleted).                                *)
THEOREM StableTargetsAlwaysStay == Spec => []StableTargetsStay
<1>1. IInv => StableTargetsStay
  BY DEF IInv
<1> QED
  BY <1>1, Invariance, PTL

=============================================================================
