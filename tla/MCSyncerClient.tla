---------------------------- MODULE MCSyncerClient ----------------------------
(***************************************************************************)
(* A life long enough for tasks to run out, and one that a restore ends.   *)
(***************************************************************************)
EXTENDS SyncerClientProperties

OneLifeOrTwo == {[blocks |-> 4, restarts |-> 0], [blocks |-> 2, restarts |-> 1]}
===============================================================================
