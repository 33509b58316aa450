-------------------------- MODULE MC_TaskScheduler --------------------------
(* Small instances of TaskScheduler for TLC. *)
EXTENDS TaskScheduler

CONSTANTS s1, s2, n1, u1

OneNode == [b \in BackupSets |-> n1]
=============================================================================
