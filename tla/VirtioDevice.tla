----------------------------- MODULE VirtioDevice -----------------------------
(***************************************************************************)
(* What the abstract class VirtioDevice (VirtioDevice.h) promises a client *)
(* driver about the requests of one virtqueue, with nothing said of        *)
(* descriptors, rings and interrupts.  submitBuffersToVirtqueue accepts a  *)
(* request, which is outstanding until its completion action is called,    *)
(* once; or it refuses it, and then the request has no effect.  A refusal  *)
(* with Busy is a promise too: another request is outstanding, so that a   *)
(* client that keeps the refused one (VirtioBlockDevice.cpp does) has a    *)
(* completion to come after which to try again.                            *)
(*                                                                         *)
(* DescriptorChains and Virtqueue are shown to implement this.             *)
(***************************************************************************)

CONSTANT Requests    \* the completion references clients pass in

VARIABLES
  outstanding,       \* requests whose completion action is yet to be called
  answer             \* return value if the last step was a submission

contractVars == <<outstanding, answer>>

Init == outstanding = {} /\ answer = "none"

Accept(r) ==
  /\ r \notin outstanding
  /\ outstanding' = outstanding \cup {r}
  /\ answer' = "Success"

Refusals == {"Busy", "BadArgument", "Unsupported", "Error"}

Refuse ==
  /\ answer' \in Refusals
  /\ answer' = "Busy" => outstanding # {}
  /\ UNCHANGED outstanding

(* The completion action of a request, called with its reference.          *)
Complete(r) ==
  /\ r \in outstanding
  /\ outstanding' = outstanding \ {r}
  /\ answer' = "none"

Next ==
  \/ Refuse
  \/ \E r \in Requests : Accept(r) \/ Complete(r)

Spec == Init /\ [][Next]_contractVars

(* With a device that works and a driver that is told of it, every request *)
(* that was accepted is completed.                                         *)
FairSpec == Spec /\ \A r \in Requests : WF_contractVars(Complete(r))

=============================================================================
