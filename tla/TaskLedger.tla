----------------------------- MODULE TaskLedger -----------------------------
(***************************************************************************)
(* What the hub's task table promises to whoever reads a backup's history: *)
(* tasks are numbered consecutively, a task enters the table open          *)
(* ("PendingStart"), and the record of a task is closed exactly once.      *)
(* TaskScheduler is shown to implement this module.                        *)
(***************************************************************************)
EXTENDS Naturals

CONSTANTS
  MaxTasks,      \* bound on the number of tasks ever created
  OutcomeRuns,   \* running statuses a closed record may carry
  Statuses       \* statuses (Ok, Warning, Error) a record may carry

VARIABLES
  row,           \* the task table: task id -> record
  lastId         \* the last task id given out

ledger == <<row, lastId>>

NoRow == [run |-> "NoRow", status |-> "Ok"]
OpenRow == [run |-> "PendingStart", status |-> "Ok"]

Outcomes == [run: OutcomeRuns, status: Statuses]
Open(t) == row[t].run = "PendingStart"

Init ==
  /\ row = [t \in 1..MaxTasks |-> NoRow]
  /\ lastId = 0

\* A new task is recorded under the next id.
Create ==
  /\ lastId < MaxTasks
  /\ lastId' = lastId + 1
  /\ row' = [row EXCEPT ![lastId + 1] = OpenRow]

\* Open records are closed: one when its task has ended, all of those a
\* stopped hub left behind when the hub starts again.
Close ==
  /\ row' \in [1..MaxTasks -> Outcomes \cup {NoRow, OpenRow}]
  /\ \A t \in 1..MaxTasks : row'[t] # row[t] => Open(t) /\ row'[t] \in Outcomes
  /\ UNCHANGED lastId

Next == Create \/ Close

Spec == Init /\ [][Next]_ledger
=============================================================================
