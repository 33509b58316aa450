---------------------------- MODULE MC_NodeJobs ----------------------------
(* Small instances of NodeJobs for TLC. *)
EXTENDS NodeJobs

CONSTANTS s1, n1, u1

OneNode == [b \in BackupSets |-> n1]
=============================================================================
