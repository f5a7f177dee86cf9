-------------------------- MODULE MCSCSIController --------------------------
(* SCSIController for TLC.                                                 *)
EXTENDS SCSIController

CONSTANTS r1, r2, f1, f2, f3

MCRequests == {r1, r2}
MCFunctions == {f1, f2, f3}

=============================================================================
