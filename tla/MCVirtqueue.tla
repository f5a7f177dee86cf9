----------------------------- MODULE MCVirtqueue -----------------------------
(* Instances of Virtqueue for TLC.                                         *)
EXTENDS Virtqueue

CONSTANTS r1, r2

MCRequests == {r1, r2}

(* Readable only (a page list), writable only (an event buffer), both (a   *)
(* block or SCSI command).                                                 *)
MCShapes == {<<1, 0>>, <<0, 1>>, <<1, 1>>}

DirectOrIndirect == {0, 2}
NoFaults == {}

(* Unlimited, and the debugger's one packet at a time (virtio_net.cpp:1023). *)
MCLimits == {0, 1}

=============================================================================
