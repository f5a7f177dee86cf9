----------------------------- MODULE MCBlockDevice ----------------------------
(* Instances of BlockDevice for TLC.                                       *)
EXTENDS BlockDevice

CONSTANTS c1, c2, c3, r1, r2, r3

MCClients == {c1, c2, c3}
MCStructures == {r1, r2, r3}

(* Requests that leave room for another, and one that does not.            *)
MCNeeds == 2 .. 4

=============================================================================
