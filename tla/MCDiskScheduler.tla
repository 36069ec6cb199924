-------------------------- MODULE MCDiskScheduler ---------------------------
(* TLC instances of DiskScheduler. *)
EXTENDS DiskScheduler

CONSTANTS p1, p2, p3, p4

FourPages == {p1, p2, p3, p4}
=============================================================================
