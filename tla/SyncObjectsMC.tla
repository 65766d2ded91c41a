--------------------------- MODULE SyncObjectsMC ---------------------------
(***************************************************************************)
(* Three threads that share one object of each kind.                       *)
(***************************************************************************)
EXTENDS SyncObjectsProperties

CONSTANTS t1, t2, t3, m1, c1, s1

=============================================================================
