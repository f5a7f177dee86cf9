----------------------------- MODULE BlockDevice ------------------------------
(***************************************************************************)
(* The block device driver (VirtioBlockDevice.cpp): a pool of request      *)
(* structures, the requests the virtqueue holds, and the queue of requests *)
(* that did not fit.  Reads and writes return at once and complete later;  *)
(* a cache flush puts its caller to sleep until it completes.  All         *)
(* handlers run in the command gate; the completion of a read or write     *)
(* calls its client, which may start another request, before it looks at   *)
(* the pending requests.                                                   *)
(*                                                                         *)
(* The virtqueue is one without indirect tables.  With them every request  *)
(* takes one descriptor, and one that does not fit is always Busy.         *)
(***************************************************************************)
EXTENDS Integers, Sequences, FiniteSets, FiniteSetsExt, Functions

CONSTANTS
  Clients,        \* threads with at most one operation each
  Structures,     \* the VirtioBlockDeviceRequest structures
  NoClient,       \* the user of a structure in the pool
  QueueSize,      \* descriptors of the virtqueue
  Needs,          \* descriptors a read or write takes
  SubmitFaults    \* submitBuffersToVirtqueue may fail for reasons of its own

FlushNeed == 2

ASSUME QueueAssumption == QueueSize \in Nat /\ QueueSize >= 2
ASSUME NeedsAssumption == Needs \subseteq 2 .. QueueSize
ASSUME StructuresAssumption == IsFiniteSet(Structures)
ASSUME NoClientAssumption == NoClient \notin Clients
ASSUME FaultsAssumption == SubmitFaults \in BOOLEAN

VARIABLES
  request_pool,      \* structures not in use
  pending_requests,  \* structures waiting for room in the virtqueue
  in_device,         \* structures the device works on
  answered,          \* structures in the used ring
  need,              \* descriptors a structure's request takes
  user,              \* the client a structure works for
  caller,            \* what each client is doing
  returned,          \* result of the call if the last step was one
  gate,              \* "free", or how far blockRequestCompleted has come
  virtio_device,     \* "open" or "closed"
  dropped            \* history: structures that line 514 kept from the pool

queues == <<request_pool, pending_requests, in_device, answered>>
vars == <<queues, need, user, caller, returned, gate, virtio_device, dropped>>

Init ==
  /\ request_pool = Structures
  /\ pending_requests = <<>>
  /\ in_device = {} /\ answered = {}
  /\ need = [r \in Structures |-> 0]
  /\ user = [r \in Structures |-> NoClient]
  /\ caller = [c \in Clients |-> "idle"]
  /\ returned = "none"
  /\ gate = "free"
  /\ virtio_device = "open"
  /\ dropped = {}

-----------------------------------------------------------------------------
(* The virtqueue, as far as it shows in submitBuffersToVirtqueue's results *)

Taken(S, needs) == MapThenSumSet(LAMBDA r : needs[r], S)

(* Whether a request for n descriptors succeeds when the queue holds S.    *)
Fits(S, needs, n) == Taken(S, needs) + n <= QueueSize

(* Busy only without a descriptor for each buffer; if the segments then do *)
(* not fit the result is an error.                                         *)
Busy(S, needs) == Taken(S, needs) + 2 > QueueSize

-----------------------------------------------------------------------------
\* Mutated form: later requests need not queue behind pending ones.
MayGoAhead == TRUE

(* A request is submitted at once only if none is pending.                 *)
NonePending == pending_requests = <<>>

\* Mutated form: the structure is not returned.
SubmitRefusedKeeping(r, c) ==
  /\ request_pool' = request_pool \ {r}
  /\ returned' = "Error"
  /\ UNCHANGED <<pending_requests, in_device, need, user, caller>>

SubmitRefused(r, c) ==
  /\ returned' = "Error"
  /\ UNCHANGED <<request_pool, pending_requests, in_device, need, user, caller>>

(* With structure r from the pool: submit, defer, or fail.                 *)
SubmitOrDefer(r, c, n, state) ==
  LET queued == in_device \cup answered
      accepted == /\ request_pool' = request_pool \ {r}
                  /\ need' = [need EXCEPT ![r] = n]
                  /\ user' = [user EXCEPT ![r] = c]
                  /\ caller' = [caller EXCEPT ![c] = state]
                  /\ returned' = "Success"
  IN
  \/ /\ NonePending /\ Fits(queued, need, n)
     /\ accepted
     /\ in_device' = in_device \cup {r}
     /\ UNCHANGED pending_requests
  \/ /\ ~NonePending \/ Busy(queued, need)
     /\ accepted
     /\ pending_requests' = Append(pending_requests, r)
     /\ UNCHANGED in_device
  \/ /\ NonePending /\ ~Busy(queued, need)
     /\ ~Fits(queued, need, n) \/ SubmitFaults
     /\ SubmitRefused(r, c)

(* requestFromPool: without a structure the caller sleeps, and the loop    *)
(* never looks at the pool again.                                          *)
requestFromPool(c, n, state) ==
  \/ \E r \in request_pool : SubmitOrDefer(r, c, n, state)
  \/ /\ request_pool = {}
     /\ caller' = [caller EXCEPT ![c] = "pool_wait"]
     /\ returned' = "none"
     /\ UNCHANGED <<request_pool, pending_requests, in_device, need, user>>

Calls(c) ==
  /\ virtio_device = "open"
  /\ caller[c] = "idle"
  /\ UNCHANGED <<answered, virtio_device>>

(* Completions may call back into doAsyncReadWrite, once.                  *)
MayReadWrite ==
  /\ gate \in {"free", "client_called"}
  /\ gate' = IF gate = "free" THEN "free" ELSE "client_returned"

doAsyncReadWrite(c, n) ==
  /\ Calls(c) /\ MayReadWrite
  /\ requestFromPool(c, n, "waiting")
  /\ UNCHANGED dropped

(* The checks of length and capacity come before the pool.                 *)
ReadWriteRejected(c) ==
  /\ Calls(c) /\ MayReadWrite
  /\ returned' = "BadArgument"
  /\ UNCHANGED <<request_pool, pending_requests, in_device, need, user, caller,
                 dropped>>

(* The check of the direction comes after it, and keeps the structure.     *)
DirectionRejected(c) ==
  /\ Calls(c) /\ MayReadWrite
  /\ \E r \in request_pool : /\ request_pool' = request_pool \ {r}
                             /\ dropped' = dropped \cup {r}
  /\ returned' = "BadArgument"
  /\ UNCHANGED <<pending_requests, in_device, need, user, caller>>

doSynchronizeCache(c) ==
  /\ Calls(c) /\ gate = "free"
  /\ requestFromPool(c, FlushNeed, "asleep")
  /\ UNCHANGED <<gate, dropped>>

-----------------------------------------------------------------------------
\* Mutated form: the loop ends after one request.
HandleOnePending(queued) ==
  \E k \in 0 .. Len(pending_requests) :
    /\ k <= 1
    /\ k = 1 => Fits(queued, need, need[pending_requests[1]])
    /\ k = 0 => NonePending \/ ~Fits(queued, need, need[pending_requests[1]])
    /\ in_device' = in_device \cup {pending_requests[i] : i \in 1 .. k}
    /\ pending_requests' = SubSeq(pending_requests, k + 1, Len(pending_requests))

(* handlePendingRequests, when the queue holds the requests in queued: the *)
(* first k are submitted; one that fails goes back to the front.           *)
handlePendingRequests(queued) ==
  \E k \in 0 .. Len(pending_requests) :
    LET first(i) == {pending_requests[j] : j \in 1 .. i}
        FitsAfter(i) == Fits(queued \cup first(i), need, need[pending_requests[i + 1]])
    IN
    /\ \A i \in 0 .. k - 1 : FitsAfter(i)
    /\ k < Len(pending_requests) => ~FitsAfter(k) \/ SubmitFaults
    /\ in_device' = in_device \cup first(k)
    /\ pending_requests' = SubSeq(pending_requests, k + 1, Len(pending_requests))

\* Mutated form: a completion waits for the requests before it in the queue.
CompletedBehindPending(r) ==
  /\ gate = "free" /\ r \in answered
  /\ caller[user[r]] = "waiting"
  /\ NonePending
  /\ answered' = answered \ {r}
  /\ request_pool' = request_pool \cup {r}
  /\ caller' = [caller EXCEPT ![user[r]] = "idle"]
  /\ user' = [user EXCEPT ![r] = NoClient]
  /\ need' = [need EXCEPT ![r] = 0]
  /\ gate' = "client_called"
  /\ returned' = "none"
  /\ UNCHANGED <<pending_requests, in_device, virtio_device, dropped>>

(* blockRequestCompleted up to its call of the client ...                  *)
blockRequestCompleted(r) ==
  /\ gate = "free" /\ r \in answered
  /\ caller[user[r]] = "waiting"
  /\ answered' = answered \ {r}
  /\ request_pool' = request_pool \cup {r}
  /\ caller' = [caller EXCEPT ![user[r]] = "idle"]
  /\ user' = [user EXCEPT ![r] = NoClient]
  /\ need' = [need EXCEPT ![r] = 0]
  /\ gate' = "client_called"
  /\ returned' = "none"
  /\ UNCHANGED <<pending_requests, in_device, virtio_device, dropped>>

(* ... and after it.                                                       *)
BlockCompletionReturns ==
  /\ gate \in {"client_called", "client_returned"}
  /\ handlePendingRequests(in_device \cup answered)
  /\ gate' = "free"
  /\ returned' = "none"
  /\ UNCHANGED <<request_pool, answered, need, user, caller, virtio_device, dropped>>

\* Mutated form: pending requests are left alone.
FlushCompletedOnly(r) ==
  /\ gate = "free" /\ r \in answered
  /\ caller[user[r]] = "asleep"
  /\ answered' = answered \ {r}
  /\ caller' = [caller EXCEPT ![user[r]] = "woken"]
  /\ returned' = "none"
  /\ UNCHANGED <<request_pool, pending_requests, in_device, need, user, gate, virtio_device, dropped>>

flushRequestCompleted(r) ==
  /\ gate = "free" /\ r \in answered
  /\ caller[user[r]] = "asleep"
  /\ answered' = answered \ {r}
  /\ handlePendingRequests(in_device \cup (answered \ {r}))
  /\ caller' = [caller EXCEPT ![user[r]] = "woken"]
  /\ returned' = "none"
  /\ UNCHANGED <<request_pool, need, user, gate, virtio_device, dropped>>

(* doSynchronizeCacheOnWorkLoop from line 391 on.                          *)
FlushReturns(r) ==
  /\ gate = "free" /\ virtio_device = "open"
  /\ user[r] # NoClient /\ caller[user[r]] = "woken"
  /\ request_pool' = request_pool \cup {r}
  /\ caller' = [caller EXCEPT ![user[r]] = "idle"]
  /\ user' = [user EXCEPT ![r] = NoClient]
  /\ need' = [need EXCEPT ![r] = 0]
  /\ returned' = "none"
  /\ UNCHANGED <<pending_requests, in_device, answered, gate, virtio_device, dropped>>

(* endDeviceOperation, from stop or didTerminate: closing the device frees *)
(* the virtqueue and calls no completion.                                  *)
endDeviceOperation ==
  /\ gate = "free" /\ virtio_device = "open"
  /\ virtio_device' = "closed"
  /\ in_device' = {} /\ answered' = {}
  /\ returned' = "none"
  /\ UNCHANGED <<request_pool, pending_requests, need, user, caller, gate,
                 dropped>>

(* The device answers in any order.                                        *)
DeviceAnswers(r) ==
  /\ r \in in_device
  /\ in_device' = in_device \ {r}
  /\ answered' = answered \cup {r}
  /\ returned' = "none"
  /\ UNCHANGED <<request_pool, pending_requests, need, user, caller, gate,
                 virtio_device, dropped>>

Next ==
  \/ \E c \in Clients :
       \/ \E n \in Needs : doAsyncReadWrite(c, n)
       \/ ReadWriteRejected(c)
       \/ DirectionRejected(c)
       \/ doSynchronizeCache(c)
  \/ \E r \in Structures :
       \/ blockRequestCompleted(r)
       \/ flushRequestCompleted(r)
       \/ FlushReturns(r)
       \/ DeviceAnswers(r)
  \/ BlockCompletionReturns
  \/ endDeviceOperation

Spec == Init /\ [][Next]_vars

(* The device answers, answers reach the driver (InterruptDelivery), and   *)
(* the gate and woken threads get to run.                                  *)
Fairness ==
  /\ \A r \in Structures :
       /\ WF_vars(DeviceAnswers(r))
       /\ SF_vars(blockRequestCompleted(r) \/ flushRequestCompleted(r) \/ FlushReturns(r))
  /\ WF_vars(BlockCompletionReturns)

FairSpec == Spec /\ Fairness

-----------------------------------------------------------------------------
Places ==
  <<request_pool, Range(pending_requests), in_device, answered,
    {r \in Structures : user[r] # NoClient /\ caller[user[r]] = "woken"}>>

(* Every structure is in one place, the pool of "unused request data       *)
(* structures" (VirtioBlockDevice.h:46) if no client uses it, and a client *)
(* with an operation under way has exactly one.  Only the rejection of a   *)
(* direction (line 514) loses structures.  Those in the virtqueue need no  *)
(* more descriptors than it has.                                           *)
RequestsAccountedFor ==
  virtio_device = "open" =>
    /\ UNION Range(Places) = Structures \ dropped
    /\ \A i, j \in DOMAIN Places : i # j => Places[i] \cap Places[j] = {}
    /\ IsInjective(pending_requests)
    /\ request_pool = {r \in Structures : user[r] = NoClient} \ dropped
    /\ \A c \in Clients :
         caller[c] \in {"waiting", "asleep", "woken"} <=>
           Cardinality({r \in Structures : user[r] = c}) = 1
    /\ Taken(in_device \cup answered, need) <= QueueSize

(* Pending requests are "requests received that will not fit into the      *)
(* device's virtqueue" (VirtioBlockDevice.h:43): while there are any, the  *)
(* virtqueue holds a request whose completion will try them again.         *)
PendingWillBeTried ==
  virtio_device = "open" /\ gate = "free" /\ pending_requests # <<>> =>
    in_device \cup answered # {}

(* Requests reach the device in the order they were made: one that is      *)
(* handed over had none pending in front of it.                            *)
ServedInOrder ==
  [][\A r \in in_device' \ in_device :
       \A i \in DOMAIN pending_requests :
         pending_requests[i] = r \/ r \notin Range(pending_requests) =>
           \A j \in 1 .. i : pending_requests[j] \in in_device']_vars

(* Every operation that got a structure ends, unless the driver is closed: *)
(* its client hears of it, or returns from its sleep.                      *)
OperationsEnd ==
  \A c \in Clients :
    caller[c] \in {"waiting", "asleep"} ~>
      caller[c] = "idle" \/ virtio_device = "closed"

=============================================================================
