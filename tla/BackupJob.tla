----------------------------- MODULE BackupJob -----------------------------
(***************************************************************************)
(* What a backup job of a node promises: each chunk goes into the index at *)
(* most once or is given up with a report to the hub, and unless the job   *)
(* is interrupted the index is closed, and the job ended, only when every  *)
(* chunk is one or the other.                                              *)
(***************************************************************************)
CONSTANT Chunks

VARIABLES
  indexed,   \* the chunks in the job's index
  given,     \* the chunks the hub was told of as not sent in time
  phase      \* how far the job is

vars == <<indexed, given, phase>>

Init ==
  /\ indexed = {}
  /\ given = {}
  /\ phase = "sending"

\* A chunk that a storage node has confirmed is written into the index, and
\* no chunk is once the index is closed.
Index ==
  /\ phase \in {"sending", "interrupted"}
  /\ \E k \in Chunks \ indexed : indexed' = indexed \cup {k}
  /\ UNCHANGED <<given, phase>>

\* The hub is told that a chunk was not sent, or not confirmed in time.
Report ==
  /\ \E k \in Chunks \ given : given' = given \cup {k}
  /\ UNCHANGED <<indexed, phase>>

\* The index is closed: nothing is left to be written into it.
Close ==
  /\ phase = "sending"
  /\ Chunks = indexed \cup given
  /\ phase' = "closing"
  /\ UNCHANGED <<indexed, given>>

\* The index has been sent and the hub told that the job has ended.
End ==
  /\ phase = "closing"
  /\ phase' = "done"
  /\ UNCHANGED <<indexed, given>>

\* The job is cancelled by the hub, or by itself after an error.
Interrupt ==
  /\ phase # "interrupted"
  /\ phase' = "interrupted"
  /\ UNCHANGED <<indexed, given>>

Next == Index \/ Report \/ Close \/ End \/ Interrupt

Spec == Init /\ [][Next]_vars
=============================================================================
