------------------------- MODULE MCInterruptDelivery -------------------------
(* Instances of InterruptDelivery for TLC.                                 *)
EXTENDS InterruptDelivery

=============================================================================
