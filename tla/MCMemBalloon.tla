----------------------------- MODULE MCMemBalloon -----------------------------
(* Instances of MemBalloon for TLC.                                        *)
EXTENDS MemBalloon

CONSTANTS f1, f2, f3, f4, f5, f6, f7

MCFrames == {f1, f2, f3, f4, f5, f6, f7}
NoFaults == {}
AllFaults == Queues

=============================================================================
