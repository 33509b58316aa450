------------------------- MODULE MC_BackupPipeline -------------------------
(* Small instances of BackupPipeline for TLC. *)
EXTENDS BackupPipeline

CONSTANTS r1, r2, r3

\* One, two and three disks, each with one file system.
OneDrive == << << <<"a", "b">> >> >>
TwoDrives == << << <<"a">> >>, << <<"b">> >> >>
\* A disk with something to back up and one with nothing.
OneChunk == << << <<"a">> >>, << <<>> >> >>
ThreeDrives == << << <<"a", "b">> >>, << <<"c">> >>, << <<"d">> >> >>
=============================================================================
