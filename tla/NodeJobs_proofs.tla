--------------------------- MODULE NodeJobs_proofs ---------------------------
(***************************************************************************)
(* What holds of NodeJobs for every value of its constants: it is a        *)
(* TaskScheduler, a task is recorded as Done only when its node has        *)
(* stopped working on it, and not when the job's last word was an error;   *)
(* and no node works on two jobs of a backup set.                          *)
(***************************************************************************)
EXTENDS NodeJobs, TaskStarts_proofs

-----------------------------------------------------------------------------
\* A step with the nodes' jobs is a step of the scheduler or leaves it alone.
LEMMA JobsStep ==
  ASSUME TypeOK, [JobsNext]_allVars
  PROVE  [Next]_vars
<1>1. SUFFICES ASSUME JobsNext PROVE Next \/ UNCHANGED vars
  BY DEF allVars
<1>2. CASE Scheduling \/ Stopping
  BY <1>2 DEF Scheduling, Stopping, Next
<1>3. ASSUME NEW n \in Nodes,
             HubReads(n) \/ Settling(n) \/ Reconnects(n) \/ Disconnects(n)
      PROVE  Next \/ UNCHANGED vars
  <2>1. CASE HubReads(n)
    <3>1. PICK r : \/ HandleTask(n, r.id, r.kind) /\ r.kind \in {"Warning", "Error"}
                   \/ HandleTaskDone(n, r.id)
                   \/ HandleNoStorage(n, r.id)
                   \/ UNCHANGED vars
                   \/ ClearNode(n)
      BY <2>1 DEF HubReads, ReadsAlarm, ReadsDone, ReadsNoStorage,
                  ReadsWithoutEffect, ReadsText
    <3>2. CASE \/ HandleTask(n, r.id, r.kind) /\ r.kind \in {"Warning", "Error"}
               \/ HandleTaskDone(n, r.id)
               \/ HandleNoStorage(n, r.id)
      <4>1. r.id \in TaskIds
        BY <3>2 DEF HandleTask, HandleTaskDone, HandleNoStorage, Handles, TypeOK
      <4>2. QED
        BY <3>2, <4>1 DEF Next, Handle
    <3>3. QED
      BY <3>1, <3>2 DEF Next, Connection
  <2>2. CASE Settling(n)
    BY <2>2 DEF Settling, Next, Handle
  <2>3. CASE Reconnects(n) \/ Disconnects(n)
    BY <2>3 DEF Reconnects, Disconnects, Next, Connection
  <2>4. QED
    BY <1>3, <2>1, <2>2, <2>3
<1>4. ASSUME NEW n \in Nodes, Listens(n)
      PROVE  Next
  BY <1>4 DEF Listens, RunBackup, CancelTask, Next, Connection
<1>5. ASSUME NEW n \in Nodes, NEW t \in TaskIds,
             \/ Works(n, t) \/ Fails(n, t)
             \/ \E kind \in {"Warning", "Error", "storage"} : Reports(n, t, kind)
      PROVE  UNCHANGED vars
  BY <1>5 DEF Works, Fails, Prepares, BackupDone, BackupRemoved, PrepareFails,
              ThreadFails, RunFails, Reports
<1>6. QED
  BY <1>1, <1>2, <1>3, <1>4, <1>5 DEF JobsNext

\* The hub with the nodes' jobs is TaskScheduler's, so that its theorems hold
\* of it: the nodes report nothing that TaskScheduler does not let them report.
THEOREM JobsSchedule == JobsSpec => Spec
<1>1. JobsInit => Init
  BY DEF JobsInit
<1>2. Inv /\ [JobsNext]_allVars => [Next]_vars /\ Inv'
  BY JobsStep, NextInv DEF Inv
<1>3. QED
  BY InitInv, <1>1, <1>2, PTL DEF JobsSpec, Spec

-----------------------------------------------------------------------------
(* The invariant.                                                          *)

\* The job is over, and if its last warning or error was an error, one of its
\* reports was lost.
Clear(t) == t \in received /\ ~OnNode(t) /\ t \notin erred \ lost

InMemory(t) == t \in Queued \/ (pc[Scheduler] = "add" /\ tid[Scheduler] = t)
Settles(n, t) == pc[n] = "settle" /\ verdict[n] = "Done" /\ tid[n] = t

\* What is Done, or is about to be, is clear.
DoneOK ==
  /\ \A t \in TaskIds : row[t].run = "Done" => Clear(t)
  /\ \A t \in TaskIds : InMemory(t) /\ task[t].run = "Done" => Clear(t)
  /\ \A n \in Nodes : \A t \in TaskIds : Settles(n, t) => Clear(t)

JobsOK ==
  /\ job \in [TaskIds -> {"none", "preparing", "running", "broken", "failed",
                          "leaving", "cancelled", "done"}]
  /\ \A t \in TaskIds : t \notin received => job[t] = "none"
  /\ erred \subseteq received
  /\ \A t \in TaskIds : task[t].set # NoSet => setOf[t] = task[t].set

\* The job is in currentJobs, or has been.
Begun(t) == job[t] \notin {"none", "preparing"}

\* Reports are on the connection of the node whose job they are about, and what
\* only a job in currentJobs or after it reports, is from such a job.
ReportsOK ==
  /\ outbox \in [Nodes -> Seq([kind : {"Warning", "Error", "storage", "done", "text"},
                               id : TaskIds])]
  /\ setOf \in [TaskIds -> BackupSets \cup {NoSet}]
  /\ \A n \in Nodes : \A i \in 1..Len(outbox[n]) :
       /\ On(n, outbox[n][i].id)
       /\ outbox[n][i].kind = "done" => ~OnNode(outbox[n][i].id)
       /\ outbox[n][i].kind = "storage" => Begun(outbox[n][i].id)

\* The report at i is one of this kind about t.
Says(n, i, kind, t) ==
  i \in 1..Len(outbox[n]) /\ outbox[n][i].kind = kind /\ outbox[n][i].id = t

\* No warning or error follows the end of a job; an error that is the last is
\* the last on the connection, or has been read and is the task's status.
AlarmsOK ==
  /\ \A n \in Nodes : \A i, j \in 1..Len(outbox[n]) : \A t \in TaskIds :
       Says(n, i, "done", t) /\ (Says(n, j, "Warning", t) \/ Says(n, j, "Error", t))
         => j < i
  /\ \A t \in erred \ lost :
       /\ \A n \in Nodes : \A i \in 1..Len(outbox[n]) :
            Says(n, i, "Warning", t) =>
              \E j \in 1..Len(outbox[n]) : j > i /\ Says(n, j, "Error", t)
       /\ t \in Queued =>
            \/ task[t].status = "Error"
            \/ \E n \in Nodes : \E j \in 1..Len(outbox[n]) : Says(n, j, "Error", t)

JobsInv == DoneOK /\ JobsOK /\ ReportsOK /\ AlarmsOK

LEMMA JobsInvHolds ==
  ASSUME Inv, JobsInv
  PROVE  DoneMeansOver /\ ErrorRecorded
<1>1. erred \ lost \subseteq TaskIds
  BY DEF JobsInv, JobsOK, Inv, TypeOK
<1>2. QED
  BY <1>1 DEF JobsInv, DoneOK, Clear, DoneMeansOver, ErrorRecorded

-----------------------------------------------------------------------------
(* The hub's steps.                                                        *)

\* What a step of the hub that handles no report leaves as it is: nothing gets
\* Done but by a settling thread, and no task that was started changes its set,
\* is queued again or loses its error.
RunsKept ==
  /\ \A t \in TaskIds : row'[t].run = "Done" =>
       row[t].run = "Done" \/ (InMemory(t) /\ task[t].run = "Done")
  /\ \A t \in TaskIds : InMemory(t)' /\ task'[t].run = "Done" =>
       \/ InMemory(t) /\ task[t].run = "Done"
       \/ \E n \in Nodes : Settles(n, t)
  /\ \A n \in Nodes : \A t \in TaskIds :
       Settles(n, t)' => Settles(n, t) \/ Clear(t)
StartedKept ==
  /\ received' = received
  /\ \A t \in received :
       /\ task'[t].set \in {NoSet, task[t].set}
       /\ t \in Queued' =>
            t \in Queued /\ task'[t].status \in {"Error", task[t].status}
HubKeeps == RunsKept /\ StartedKept

\* A step that leaves the queue alone.
LEMMA OthersHubKeeps ==
  ASSUME queue' = queue, received' = received, row' = row,
         pc'[Scheduler] = pc[Scheduler], tid'[Scheduler] = tid[Scheduler],
         task' = task \/ \E t : task' = [task EXCEPT ![t].status = "Error",
                                                     ![t].run = "Cancelled"],
         \A n \in Nodes : /\ pc'[n] = pc[n] /\ tid'[n] = tid[n]
                          /\ verdict'[n] = verdict[n],
         TypeOK
  PROVE  HubKeeps
<1>1. \A x \in TaskIds :
        /\ task'[x].set = task[x].set
        /\ task'[x].run \in {"Cancelled", task[x].run}
        /\ task'[x].status \in {"Error", task[x].status}
  <2>1. CASE task' = task
    BY <2>1
  <2>2. ASSUME NEW t, task' = [task EXCEPT ![t].status = "Error",
                                           ![t].run = "Cancelled"],
               NEW x \in TaskIds
        PROVE  /\ task'[x].set = task[x].set
               /\ task'[x].run \in {"Cancelled", task[x].run}
               /\ task'[x].status \in {"Error", task[x].status}
    BY <2>2 DEF TypeOK, TaskObjects
  <2>3. QED
    BY <2>1, <2>2
<1>2. received \subseteq TaskIds
  BY DEF TypeOK
<1>3. QED
  BY <1>1, <1>2
  DEF HubKeeps, RunsKept, StartedKept, InMemory, Queued, Settles

LEMMA DiesHubKeeps ==
  ASSUME TypeOK, Dies
  PROVE  HubKeeps
<1>1. /\ Queued' = {} /\ row' = row /\ received' = received
      /\ pc' = [w \in Threads |-> IF w = Scheduler THEN "down"
                                  ELSE IF w \in Users THEN "idle" ELSE "reading"]
      /\ task' = [t \in TaskIds |-> NoTask]
  BY DEF Dies, Queued, ToSet, database
<1>2. pc'[Scheduler] = "down" /\ \A n \in Nodes : pc'[n] = "reading"
  BY <1>1, ConstantsAssumption DEF Threads, Creators
<1>3. received \subseteq TaskIds
  BY DEF TypeOK
<1>4. QED
  BY <1>1, <1>2, <1>3
  DEF HubKeeps, RunsKept, StartedKept, InMemory, Settles, NoTask

LEMMA RemovedFrom ==
  ASSUME TypeOK, NEW i \in 1..Len(queue), queue' = RemoveAt(queue, i)
  PROVE  Queued' \subseteq Queued
<1>1. queue \in Seq(1..lastId)
  BY DEF TypeOK
<1>2. /\ queue' \in Seq(1..lastId) /\ Len(queue') = Len(queue) - 1
      /\ \A j \in 1..Len(queue) - 1 :
           queue'[j] = IF j < i THEN queue[j] ELSE queue[j + 1]
  BY <1>1, RemoveAtLemma
<1>3. \A j \in 1..Len(queue') : \E k \in 1..Len(queue) :
        queue'[j] = queue[k] /\ k = IF j < i THEN j ELSE j + 1
  BY <1>1, <1>2
<1>4. ASSUME NEW x \in Queued'
      PROVE  x \in Queued
  <2>1. PICK j \in 1..Len(queue') : x = queue'[j]
    BY <1>2 DEF Queued, ToSet
  <2>2. PICK k \in 1..Len(queue) : x = queue[k]
    BY <1>3, <2>1
  <2>3. QED
    BY <1>1, <2>2 DEF Queued, ToSet
<1>5. QED
  BY <1>4

\* The scheduler's own steps: it touches the status only of tasks whose order to
\* start has not been written.
LEMMA ScheduleHubKeeps ==
  ASSUME Inv, StartInv, Schedule
  PROVE  HubKeeps
<1> USE ConstantsAssumption
    DEF memory, database, pass, peers, counters, threads, Goto, Return,
        Threads, Creators
<1>1. TypeOK /\ PassKeepsItsPlace
  BY DEF Inv
<1> DEFINE Apart == /\ received' = received
                    /\ \A n \in Nodes : /\ pc'[n] = pc[n] /\ tid'[n] = tid[n]
                                        /\ verdict'[n] = verdict[n]
<1>2. \A n \in Nodes : n # Scheduler
  OBVIOUS
<1>3. \A t \in received : t \in TaskIds /\ Ordered(t) /\ t \in 1..lastId
  BY <1>1 DEF TypeOK, Ordered, StartInv, StartsFresh
<1>4. task \in [TaskIds -> TaskObjects]
  BY <1>1 DEF TypeOK
<1>5. ASSUME Apart PROVE \A n \in Nodes : \A t \in TaskIds : Settles(n, t)' => Settles(n, t)
  BY <1>5 DEF Settles
<1>6. CASE \/ Poll \/ NoneDue \/ (\E b \in BackupSets : NextDue(b))
           \/ ScanEnds \/ ScanSkips \/ ScanFindsEnded
           \/ CreateRefused(Scheduler) \/ CreateAllowed(Scheduler)
           \/ CreateBounded(Scheduler)
           \/ StartNotSent(Scheduler) \/ StartSends(Scheduler)
  <2>1. /\ Apart /\ queue' = queue /\ task' = task /\ row' = row
        /\ pc'[Scheduler] # "add"
    BY <1>1, <1>2, <1>6
    DEF Poll, NoneDue, NextDue, ScanEnds, ScanSkips, ScanFindsEnded,
        CreateRefused, CreateAllowed, CreateBounded, StartNotSent, StartSends,
        StartTaskReturns, AfterRefusal, TypeOK
  <2>2. QED
    BY <1>5, <2>1 DEF HubKeeps, RunsKept, StartedKept, InMemory, Queued
<1>7. CASE Recover
  <2>1. /\ Apart /\ queue' = queue /\ task' = task /\ pc'[Scheduler] # "add"
        /\ \A t \in TaskIds : row'[t].run \in {"Cancelled", row[t].run}
    BY <1>1, <1>2, <1>7 DEF Recover, TypeOK
  <2>2. QED
    BY <1>5, <2>1 DEF HubKeeps, RunsKept, StartedKept, InMemory, Queued
<1>8. CASE Complete
  <2>1. /\ Apart /\ queue' = queue /\ task' = task /\ pc'[Scheduler] # "add"
        /\ tid[Scheduler] \in Queued
        /\ \A t \in TaskIds : \/ row'[t] = row[t]
                              \/ t = tid[Scheduler] /\ row'[t].run = task[t].run
    <3>1. pc[Scheduler] = "complete" /\ queue \in Seq(1..lastId)
      BY <1>1, <1>8 DEF Complete, TypeOK
    <3>2. tid[Scheduler] \in Queued
      BY <1>1, <3>1 DEF PassKeepsItsPlace, Queued, ToSet
    <3>3. /\ Apart /\ queue' = queue /\ task' = task /\ pc'[Scheduler] # "add"
          /\ row' = [row EXCEPT ![tid[Scheduler]] =
                [run |-> task[tid[Scheduler]].run,
                 status |-> task[tid[Scheduler]].status]]
      BY <1>1, <1>2, <1>8 DEF Complete, TypeOK
    <3>4. \A t \in TaskIds : \/ row'[t] = row[t]
                             \/ t = tid[Scheduler] /\ row'[t].run = task[t].run
      <4>1. row \in [TaskIds -> Records]
        BY <1>1 DEF TypeOK
      <4>2. \A t \in TaskIds : row'[t] = IF t = tid[Scheduler]
              THEN [run |-> task[t].run, status |-> task[t].status] ELSE row[t]
        BY <3>3, <4>1
      <4>3. SUFFICES ASSUME NEW t \in TaskIds
                     PROVE  \/ row'[t] = row[t]
                            \/ t = tid[Scheduler] /\ row'[t].run = task[t].run
        OBVIOUS
      <4>4. CASE t = tid[Scheduler]
        <5>1. row'[t] = [run |-> task[t].run, status |-> task[t].status]
          BY <4>2, <4>4
        <5>2. QED
          BY <4>4, <5>1
      <4>5. CASE t # tid[Scheduler]
        BY <4>2, <4>5
      <4>6. QED
        BY <4>4, <4>5
    <3>5. QED
      BY <3>2, <3>3, <3>4
  <2>2. QED
    BY <1>5, <2>1 DEF HubKeeps, RunsKept, StartedKept, InMemory, Queued
<1>9. CASE CreateSaves(Scheduler)
  <2>1. /\ Apart /\ queue' = queue /\ lastId + 1 \in TaskIds
        /\ row' = [row EXCEPT ![lastId + 1] = OpenRow]
        /\ task' = [task EXCEPT ![lastId + 1] =
             [set |-> tset[Scheduler], run |-> "PendingStart", status |-> "Ok"]]
        /\ tid'[Scheduler] = lastId + 1 /\ lastId \in Nat
    BY <1>1, <1>2, <1>9 DEF CreateSaves, TypeOK, TaskIds
  <2>2. \A t \in TaskIds \ {lastId + 1} : task'[t] = task[t] /\ row'[t] = row[t]
    BY <1>1, <2>1 DEF TypeOK
  <2>3. task'[lastId + 1].run = "PendingStart" /\ row'[lastId + 1].run = "PendingStart"
    BY <1>1, <2>1 DEF TypeOK, OpenRow
  <2>4. lastId + 1 \notin received
    BY <1>3, <2>1
  <2>5. QED
    BY <1>3, <1>5, <2>1, <2>2, <2>3, <2>4
    DEF HubKeeps, RunsKept, StartedKept, InMemory, Queued
<1>10. CASE CreateAdds(Scheduler)
  <2>1. /\ Apart /\ task' = task /\ row' = row /\ pc'[Scheduler] # "add"
        /\ pc[Scheduler] = "add" /\ queue' = Append(queue, tid[Scheduler])
    BY <1>1, <1>2, <1>10
    DEF CreateAdds, CreateTaskReturns, Enqueue, TypeOK
  <2>2. Queued' = Queued \cup {tid[Scheduler]}
    <3>1. tid[Scheduler] \in 1..lastId /\ queue \in Seq(1..lastId)
      BY <1>1, <2>1, TaskOf DEF AtRest, TypeOK
    <3> DEFINE t == tid[Scheduler]
    <3> HIDE DEF t
    <3>2. /\ Len(queue') = Len(queue) + 1 /\ Len(queue) \in Nat
          /\ \A i \in 1..Len(queue) : queue'[i] = queue[i]
          /\ queue'[Len(queue) + 1] = t /\ queue' \in Seq(1..lastId)
      BY <2>1, <3>1 DEF t
    <3>3. /\ Queued = {queue[i] : i \in 1..Len(queue)}
          /\ Queued' = {queue'[i] : i \in 1..Len(queue')}
      BY <3>1, <3>2 DEF Queued, ToSet
    <3>4. QED
      BY <3>2, <3>3 DEF t
  <2>3. tid[Scheduler] \notin received
    BY <1>3, <2>1 DEF StartInv, StartsFresh
  <2>4. QED
    BY <1>5, <2>1, <2>2, <2>3 DEF HubKeeps, RunsKept, StartedKept, InMemory
<1>11. CASE ScanFindsPending \/ StartUnreachable(Scheduler) \/ StartOverQuota(Scheduler)
  <2>1. PICK x \in TaskIds :
          /\ ~Ordered(x)
          /\ \/ \E st : task' = [task EXCEPT ![x].status = st]
             \/ task' = [task EXCEPT ![x].status = "Error", ![x].run = "Error"]
    <3>1. CASE ScanFindsPending
      <4>1. /\ queue[idx] \in TaskIds /\ queue[idx] \in Queued
            /\ task[queue[idx]].run = "PendingStart" /\ pc[Scheduler] = "scan"
        BY <1>1, <3>1
        DEF ScanFindsPending, IsToStart, PassKeepsItsPlace, TypeOK, Queued, ToSet,
            TaskIds
      <4>2. ~Ordered(queue[idx])
        BY <4>1 DEF StartInv, StartsFresh
      <4>3. QED
        BY <3>1, <4>1, <4>2 DEF ScanFindsPending
    <3>2. CASE StartUnreachable(Scheduler) \/ StartOverQuota(Scheduler)
      <4>1. pc[Scheduler] = "start" /\ tid[Scheduler] \in TaskIds
        BY <1>1, <3>2, TaskOf DEF StartUnreachable, StartOverQuota, AtRest
      <4>2. ~Ordered(tid[Scheduler])
        BY <4>1 DEF StartInv, StartsFresh
      <4>3. QED
        BY <3>2, <4>1, <4>2 DEF StartUnreachable, StartOverQuota
    <3>3. QED
      BY <1>11, <3>1, <3>2
  <2>2. /\ Apart /\ queue' = queue /\ row' = row /\ pc'[Scheduler] # "add"
    BY <1>1, <1>2, <1>11
    DEF ScanFindsPending, StartUnreachable, StartOverQuota, TypeOK
  <2>3. /\ \A t \in TaskIds : task'[t].run \in {"Error", task[t].run}
        /\ \A t \in TaskIds \ {x} : task'[t] = task[t]
    BY <1>4, <2>1 DEF TaskObjects
  <2>4. x \notin received
    BY <1>3, <2>1
  <2>5. QED
    BY <1>3, <1>5, <2>2, <2>3, <2>4
    DEF HubKeeps, RunsKept, StartedKept, InMemory, Queued
<1>12. CASE StartMarks(Scheduler) \/ ScanMarks
  <2>1. /\ Apart /\ queue' = queue /\ row' = row /\ pc'[Scheduler] # "add"
        /\ task' = [task EXCEPT ![tid[Scheduler]].run = "Started"]
    BY <1>1, <1>2, <1>12
    DEF StartMarks, ScanMarks, StartTaskReturns, MarkStarted, SetRun, TypeOK
  <2>2. \A t \in TaskIds :
          /\ task'[t].run \in {"Started", task[t].run}
          /\ task'[t].set = task[t].set /\ task'[t].status = task[t].status
    BY <1>4, <2>1 DEF TaskObjects
  <2>3. QED
    BY <1>3, <1>5, <2>1, <2>2
    DEF HubKeeps, RunsKept, StartedKept, InMemory, Queued
<1>13. CASE Removes
  <2>1. /\ Apart /\ row' = row /\ pc'[Scheduler] # "add"
        /\ TakeOut(idx) /\ idx \in 1..Len(queue)
    BY <1>1, <1>2, <1>13 DEF Removes, TypeOK, PassKeepsItsPlace
  <2>2. /\ queue' = RemoveAt(queue, idx) /\ queue[idx] \in TaskIds /\ SetKept
        /\ \A x \in TaskIds : x # queue[idx] => task'[x] = task[x]
    BY <1>1, <2>1, TakeOutKeeps
  <2>3. queue[idx] \notin Queued'
    BY <2>1, <2>2, TakenOut DEF Queued
  <2>4. Queued' \subseteq Queued
    BY <1>1, <2>1, <2>2, RemovedFrom
  <2>5. QED
    BY <1>3, <1>5, <2>1, <2>2, <2>3, <2>4
    DEF HubKeeps, RunsKept, StartedKept, InMemory, SetKept
<1>14. CASE TaskEventFails
  BY <1>1, <1>14, DiesHubKeeps DEF TaskEventFails
<1>15. QED
  BY <1>6, <1>7, <1>8, <1>9, <1>10, <1>11, <1>12, <1>13, <1>14
  DEF Schedule, Create, StartTask

\* What a thread has read the end of gets Done, if it is to be Done.
LEMMA SettleHubKeeps ==
  ASSUME TypeOK, NEW n \in Nodes, Settle(n)
  PROVE  HubKeeps
<1> USE ConstantsAssumption
    DEF memory, database, pass, peers, counters, threads, Goto, Return,
        Threads, Creators
<1>1. /\ queue' = queue /\ row' = row /\ received' = received
      /\ pc'[Scheduler] = pc[Scheduler] /\ tid'[Scheduler] = tid[Scheduler]
      /\ pc'[n] = "reading"
      /\ \A m \in Nodes \ {n} : /\ pc'[m] = pc[m] /\ tid'[m] = tid[m]
                               /\ verdict'[m] = verdict[m]
  BY DEF Settle, TypeOK
<1>2. pc[n] = "settle" /\ SetRunIfQueued(tid[n], verdict[n])
  BY DEF Settle
<1>3. \A t \in TaskIds :
        /\ task'[t].set = task[t].set /\ task'[t].status = task[t].status
        /\ \/ task'[t].run = task[t].run
           \/ t = tid[n] /\ t \in Queued /\ task'[t].run = verdict[n]
  <2>1. CASE task' = task
    BY <2>1
  <2>2. CASE tid[n] \in Queued /\ task' = [task EXCEPT ![tid[n]].run = verdict[n]]
    <3>1. task \in [TaskIds -> TaskObjects]
      BY DEF TypeOK
    <3> DEFINE x == tid[n]
    <3> HIDE DEF x
    <3>2. QED
      BY <2>2, <3>1 DEF TaskObjects, x
  <2>3. QED
    BY <1>2, <2>1, <2>2 DEF SetRunIfQueued, SetRun
<1>4. received \subseteq TaskIds
  BY DEF TypeOK
<1>5. QED
  BY <1>1, <1>2, <1>3, <1>4
  DEF HubKeeps, RunsKept, StartedKept, InMemory, Queued, Settles

-----------------------------------------------------------------------------
(* What is Done stays what it is, and reports are read in their order.       *)

ClearKept == \A t \in TaskIds : Clear(t) => Clear(t)'

LEMMA DoneKept ==
  ASSUME DoneOK, RunsKept, ClearKept
  PROVE  DoneOK'
<1>1. \A t \in TaskIds : row'[t].run = "Done" => Clear(t)
  BY DEF DoneOK, RunsKept
<1>2. \A t \in TaskIds : InMemory(t)' /\ task'[t].run = "Done" => Clear(t)
  BY DEF DoneOK, RunsKept
<1>3. \A n \in Nodes : \A t \in TaskIds : Settles(n, t)' => Clear(t)
  BY DEF DoneOK, RunsKept
<1>4. QED
  BY <1>1, <1>2, <1>3 DEF DoneOK, ClearKept

\* The reports but the first d[n] of each connection are still there or, with
\* those of the connection, lost; no other is.
Delivers(d) ==
  /\ outbox' \in [Nodes -> Seq([kind : {"Warning", "Error", "storage", "done", "text"},
                                id : TaskIds])]
  /\ lost \subseteq lost'
  /\ \A n \in Nodes : \A i \in 1..Len(outbox'[n]) :
       i + d[n] \in 1..Len(outbox[n]) /\ outbox'[n][i] = outbox[n][i + d[n]]
  /\ \A n \in Nodes : \A k \in 1..Len(outbox[n]) :
       \/ k = d[n]
       \/ outbox[n][k].id \in lost'
       \/ k - d[n] \in 1..Len(outbox'[n]) /\ outbox'[n][k - d[n]] = outbox[n][k]

Shifts == [Nodes -> {0, 1}]
NoShift == [n \in Nodes |-> 0]
ShiftOf(m) == [n \in Nodes |-> IF n = m THEN 1 ELSE 0]

LEMMA LeavesDelivers ==
  ASSUME ReportsOK, NEW d \in Shifts, NEW f, Leaves(f),
         f = [n \in Nodes |-> IF d[n] = 1 THEN Tail(outbox[n]) ELSE outbox[n]],
         \A n \in Nodes : d[n] = 1 => outbox[n] # <<>>
  PROVE  Delivers(d)
<1> DEFINE R == [kind : {"Warning", "Error", "storage", "done", "text"}, id : TaskIds]
           D == {n \in Nodes : ~verified'[n]}
           L(n) == {r.id : r \in ToSet(f[n])}
<1>1. outbox \in [Nodes -> Seq(R)]
  BY DEF ReportsOK
<1> HIDE DEF R
<1>2. /\ outbox' = [n \in Nodes |-> IF n \in D THEN <<>> ELSE f[n]]
      /\ lost' = lost \cup UNION {L(n) : n \in D}
  BY DEF Leaves
<1>3. ASSUME NEW n \in Nodes
      PROVE  /\ f[n] \in Seq(R)
             /\ \A i \in 1..Len(f[n]) :
                  i + d[n] \in 1..Len(outbox[n]) /\ f[n][i] = outbox[n][i + d[n]]
             /\ \A k \in 1..Len(outbox[n]) :
                  \/ k = d[n]
                  \/ k - d[n] \in 1..Len(f[n]) /\ f[n][k - d[n]] = outbox[n][k]
  <2>1. outbox[n] \in Seq(R) /\ d[n] \in {0, 1}
    BY <1>1 DEF Shifts
  <2>2. CASE d[n] = 0
    <3>1. f[n] = outbox[n]
      BY <2>2
    <3>2. QED
      BY <2>1, <2>2, <3>1
  <2>3. CASE d[n] = 1
    <3>1. f[n] = Tail(outbox[n]) /\ outbox[n] # <<>>
      BY <2>3
    <3>2. /\ f[n] \in Seq(R) /\ Len(f[n]) = Len(outbox[n]) - 1
          /\ Len(outbox[n]) \in Nat
          /\ \A i \in 1..Len(outbox[n]) - 1 : f[n][i] = outbox[n][i + 1]
      <4>1. \A s \in Seq(R) : s # <<>> =>
              /\ Tail(s) \in Seq(R) /\ Len(Tail(s)) = Len(s) - 1 /\ Len(s) \in Nat
              /\ \A i \in 1..Len(s) - 1 : Tail(s)[i] = s[i + 1]
        OBVIOUS
      <4>2. QED
        BY ONLY <2>1, <3>1, <4>1
    <3>3. \A k \in 1..Len(outbox[n]) :
            k # 1 => k - 1 \in 1..Len(f[n]) /\ f[n][k - 1] = outbox[n][k]
      <4>1. ASSUME NEW k \in 1..Len(outbox[n]), k # 1
            PROVE  k - 1 \in 1..Len(f[n]) /\ f[n][k - 1] = outbox[n][k]
        <5>1. k - 1 \in 1..Len(outbox[n]) - 1 /\ (k - 1) + 1 = k
          BY <3>2, <4>1
        <5>2. f[n][k - 1] = outbox[n][(k - 1) + 1]
          BY <3>2, <5>1
        <5>3. QED
          BY <3>2, <5>1, <5>2
      <4>2. QED
        BY <4>1
    <3>4. \A i \in 1..Len(f[n]) :
            i + 1 \in 1..Len(outbox[n]) /\ f[n][i] = outbox[n][i + 1]
      BY <3>2
    <3>5. QED
      BY <2>3, <3>2, <3>3, <3>4
  <2>4. QED
    BY <2>1, <2>2, <2>3
<1>4. ASSUME NEW n \in D, NEW i \in 1..Len(f[n])
      PROVE  f[n][i].id \in lost'
  <2>1. f[n][i] \in ToSet(f[n])
    BY <1>3 DEF ToSet
  <2>2. f[n][i].id \in L(n)
    BY <2>1
  <2>3. QED
    BY <1>2, <2>2
<1> HIDE DEF L
<1>5. outbox' \in [Nodes -> Seq(R)] /\ lost \subseteq lost'
  BY <1>2, <1>3
<1>6. ASSUME NEW n \in Nodes, NEW i \in 1..Len(outbox'[n])
      PROVE  i + d[n] \in 1..Len(outbox[n]) /\ outbox'[n][i] = outbox[n][i + d[n]]
  BY <1>2, <1>3
<1>7. ASSUME NEW n \in Nodes, NEW k \in 1..Len(outbox[n])
      PROVE  \/ k = d[n]
             \/ outbox[n][k].id \in lost'
             \/ k - d[n] \in 1..Len(outbox'[n]) /\ outbox'[n][k - d[n]] = outbox[n][k]
  <2>1. CASE n \in D
    BY <1>3, <1>4, <2>1
  <2>2. CASE n \notin D
    BY <1>2, <1>3, <2>2
  <2>3. QED
    BY <2>1, <2>2
<1>8. QED
  BY <1>5, <1>6, <1>7 DEF Delivers, R

\* What the step that takes the first reports off owes to them: an error becomes
\* the task's status, and a warning alone replaces an error.
Heeds(d) ==
  /\ \A n \in Nodes : \A t \in TaskIds :
       d[n] = 1 /\ Says(n, 1, "Error", t) /\ t \in Queued' => task'[t].status = "Error"
  /\ \A t \in erred \ lost' : t \in Queued' =>
       /\ t \in Queued
       /\ \/ task'[t].status \in {"Error", task[t].status}
          \/ \E n \in Nodes : d[n] = 1 /\ Says(n, 1, "Warning", t)

LEMMA DeliveryKeeps ==
  ASSUME TypeOK, JobsInv, NEW d \in Shifts, Delivers(d), Heeds(d),
         received' = received, jobs' = jobs,
         setOf' \in [TaskIds -> BackupSets \cup {NoSet}],
         \A t \in received : setOf'[t] = setOf[t]
  PROVE  ReportsOK' /\ AlarmsOK' /\ ClearKept
<1> USE DEF jobs
<1>1. \A n \in Nodes : d[n] \in {0, 1} /\ Len(outbox[n]) \in Nat /\ Len(outbox'[n]) \in Nat
  BY DEF Shifts, JobsInv, ReportsOK, Delivers
<1>2. ASSUME NEW n \in Nodes, NEW i \in 1..Len(outbox'[n]), NEW kind, NEW t \in TaskIds,
             Says(n, i, kind, t)'
      PROVE  i + d[n] \in 1..Len(outbox[n]) /\ Says(n, i + d[n], kind, t)
  BY <1>2 DEF Delivers, Says
<1>3. ASSUME NEW n \in Nodes, NEW k \in 1..Len(outbox[n]), NEW kind, NEW t \in TaskIds,
             Says(n, k, kind, t), t \notin lost', k # d[n]
      PROVE  k - d[n] \in 1..Len(outbox'[n]) /\ Says(n, k - d[n], kind, t)'
  BY <1>3 DEF Delivers, Says
<1>4. ReportsOK'
  <2>1. ASSUME NEW n \in Nodes, NEW i \in 1..Len(outbox'[n])
        PROVE  /\ On(n, outbox[n][i].id)'
               /\ (outbox[n][i].kind = "done" => ~OnNode(outbox[n][i].id))'
               /\ (outbox[n][i].kind = "storage" => Begun(outbox[n][i].id))'
    <3>1. PICK k \in 1..Len(outbox[n]) : outbox'[n][i] = outbox[n][k]
      BY DEF Delivers
    <3>2. /\ On(n, outbox[n][k].id)
          /\ outbox[n][k].kind = "done" => ~OnNode(outbox[n][k].id)
          /\ outbox[n][k].kind = "storage" => Begun(outbox[n][k].id)
      BY DEF JobsInv, ReportsOK
    <3>3. QED
      BY <3>1, <3>2 DEF On, OnNode, Begun
  <2>2. QED
    BY <2>1 DEF Delivers, ReportsOK
<1>5. AlarmsOK'
  <2>1. ASSUME NEW n \in Nodes, NEW i \in 1..Len(outbox'[n]), NEW j \in 1..Len(outbox'[n]),
               NEW t \in TaskIds, Says(n, i, "done", t)',
               Says(n, j, "Warning", t)' \/ Says(n, j, "Error", t)'
        PROVE  j < i
    <3>1. /\ i + d[n] \in 1..Len(outbox[n]) /\ j + d[n] \in 1..Len(outbox[n])
          /\ Says(n, i + d[n], "done", t)
          /\ Says(n, j + d[n], "Warning", t) \/ Says(n, j + d[n], "Error", t)
      BY <1>2, <2>1
    <3>2. j + d[n] < i + d[n]
      BY <3>1 DEF JobsInv, AlarmsOK
    <3>3. QED
      BY <1>1, <3>2
  <2>2. ASSUME NEW t \in erred' \ lost'
        PROVE  t \in TaskIds /\ t \in erred \ lost
    BY DEF Delivers, JobsInv, JobsOK, TypeOK
  <2>3. ASSUME NEW t \in erred' \ lost', NEW n \in Nodes, NEW i \in 1..Len(outbox'[n]),
               Says(n, i, "Warning", t)'
        PROVE  \E j \in 1..Len(outbox'[n]) : j > i /\ Says(n, j, "Error", t)'
    <3>1. i + d[n] \in 1..Len(outbox[n]) /\ Says(n, i + d[n], "Warning", t)
      BY <1>2, <2>2, <2>3
    <3>2. PICK k \in 1..Len(outbox[n]) : k > i + d[n] /\ Says(n, k, "Error", t)
      BY <2>2, <3>1 DEF JobsInv, AlarmsOK
    <3>3. k - d[n] \in 1..Len(outbox'[n]) /\ Says(n, k - d[n], "Error", t)'
      BY <1>1, <1>3, <2>2, <3>2
    <3>4. k - d[n] > i
      BY <1>1, <3>2
    <3>5. QED
      BY <3>3, <3>4
  <2>4. ASSUME NEW t \in erred' \ lost', t \in Queued'
        PROVE  \/ task'[t].status = "Error"
               \/ \E n \in Nodes : \E j \in 1..Len(outbox'[n]) : Says(n, j, "Error", t)'
    <3>1. ASSUME NEW n \in Nodes, NEW k \in 1..Len(outbox[n]), Says(n, k, "Error", t)
          PROVE  \/ task'[t].status = "Error"
                 \/ \E j \in 1..Len(outbox'[n]) : Says(n, j, "Error", t)'
      <4>1. CASE k = d[n]
        BY <1>1, <2>2, <2>4, <3>1, <4>1 DEF Heeds
      <4>2. CASE k # d[n]
        BY <1>3, <2>2, <3>1, <4>2
      <4>3. QED
        BY <4>1, <4>2
    <3>2. CASE \E n \in Nodes : d[n] = 1 /\ Says(n, 1, "Warning", t)
      <4>1. PICK n \in Nodes : d[n] = 1 /\ Says(n, 1, "Warning", t)
        BY <3>2
      <4>2. \E k \in 1..Len(outbox[n]) : Says(n, k, "Error", t)
        BY <2>2, <4>1 DEF JobsInv, AlarmsOK, Says
      <4>3. QED
        BY <3>1, <4>2
    <3>3. CASE task'[t].status \in {"Error", task[t].status} /\ t \in Queued
      BY <2>2, <3>1, <3>3 DEF JobsInv, AlarmsOK
    <3>4. QED
      BY <2>2, <2>4, <3>2, <3>3 DEF Heeds
  <2>5. QED
    BY <2>1, <2>2, <2>3, <2>4 DEF AlarmsOK
<1>6. ClearKept
  BY DEF ClearKept, Clear, OnNode, Delivers
<1>7. QED
  BY <1>4, <1>5, <1>6

\* The set a task's orders name stays what it is once the task is started.
LEMMA SetsStay ==
  ASSUME TypeOK, JobsInv, StartedKept, Alongside, TypeOK'
  PROVE  /\ JobsOK'
         /\ setOf' \in [TaskIds -> BackupSets \cup {NoSet}]
         /\ \A t \in received : setOf'[t] = setOf[t]
<1>1. /\ setOf' = [t \in TaskIds |->
                    IF task'[t].set = NoSet THEN setOf[t] ELSE task'[t].set]
      /\ job' = job /\ erred' = erred /\ received' = received
  BY DEF Alongside, jobs, StartedKept
<1>2. /\ setOf \in [TaskIds -> BackupSets \cup {NoSet}] /\ received \subseteq TaskIds
      /\ \A t \in TaskIds : task'[t].set \in BackupSets \cup {NoSet}
  BY DEF TypeOK, TaskObjects, JobsInv, ReportsOK
<1>3. JobsOK'
  BY <1>1 DEF JobsInv, JobsOK
<1>4. setOf' \in [TaskIds -> BackupSets \cup {NoSet}]
  BY <1>1, <1>2
<1>5. \A t \in received : setOf'[t] = setOf[t]
  BY <1>1, <1>2 DEF JobsInv, JobsOK, StartedKept
<1>6. QED
  BY <1>3, <1>4, <1>5

LEMMA NoShiftHeeds ==
  ASSUME JobsInv, StartedKept
  PROVE  Heeds(NoShift)
  BY DEF Heeds, NoShift, StartedKept, JobsInv, JobsOK

\* The hub takes a step of its own.
LEMMA AlongsideJobs ==
  ASSUME TypeOK, JobsInv, HubKeeps, Alongside, TypeOK'
  PROVE  JobsInv'
<1>1. Leaves(outbox) /\ jobs' = jobs /\ received' = received
  BY DEF Alongside, HubKeeps, StartedKept
<1>2. NoShift \in Shifts
  BY DEF NoShift, Shifts
<1>3. Delivers(NoShift)
  <2>1. outbox = [n \in Nodes |-> IF NoShift[n] = 1 THEN Tail(outbox[n]) ELSE outbox[n]]
    BY DEF NoShift, JobsInv, ReportsOK
  <2>2. ReportsOK /\ \A n \in Nodes : NoShift[n] = 1 => outbox[n] # <<>>
    BY DEF NoShift, JobsInv
  <2>3. QED
    BY <1>1, <1>2, <2>1, <2>2, LeavesDelivers
<1>4. /\ JobsOK'
      /\ setOf' \in [TaskIds -> BackupSets \cup {NoSet}]
      /\ \A t \in received : setOf'[t] = setOf[t]
  BY SetsStay DEF HubKeeps
<1>5. ReportsOK' /\ AlarmsOK' /\ ClearKept
  BY <1>1, <1>2, <1>3, <1>4, NoShiftHeeds, DeliveryKeeps DEF HubKeeps
<1>6. DoneOK'
  BY <1>5, DoneKept DEF HubKeeps, JobsInv
<1>7. QED
  BY <1>4, <1>5, <1>6 DEF JobsInv

\* A connection comes or goes.
LEMMA ConnectionJobs ==
  ASSUME TypeOK, JobsInv, NEW n \in Nodes, Reconnects(n) \/ Disconnects(n)
  PROVE  JobsInv'
<1> USE DEF memory, database, pass, threads, counters
<1>1. /\ queue' = queue /\ received' = received /\ row' = row /\ task' = task
      /\ pc' = pc /\ tid' = tid /\ verdict' = verdict
      /\ setOf' = setOf /\ jobs' = jobs
  BY DEF Reconnects, Disconnects, PutNodeOnline, ClearNode, HandleOfflineNode,
         ApproveNode
<1>2. HubKeeps
  BY <1>1, OthersHubKeeps
<1>3. NoShift \in Shifts
  BY DEF NoShift, Shifts
<1>4. Delivers(NoShift)
  <2>1. CASE Reconnects(n)
    <3>1. /\ outbox' = [outbox EXCEPT ![n] = <<>>]
          /\ lost' = lost \cup {r.id : r \in ToSet(outbox[n])}
      BY <2>1 DEF Reconnects
    <3> DEFINE R == [kind : {"Warning", "Error", "storage", "done", "text"}, id : TaskIds]
    <3>2. outbox \in [Nodes -> Seq(R)]
      BY DEF JobsInv, ReportsOK
    <3> HIDE DEF R
    <3>3. outbox' \in [Nodes -> Seq(R)] /\ outbox'[n] = <<>>
          /\ \A m \in Nodes \ {n} : outbox'[m] = outbox[m]
      BY <3>1, <3>2
    <3>4. \A k \in 1..Len(outbox[n]) : outbox[n][k] \in ToSet(outbox[n])
      BY <3>2 DEF ToSet
    <3>5. \A k \in 1..Len(outbox[n]) : outbox[n][k].id \in lost'
      BY <3>1, <3>4
    <3>6. \A m \in Nodes : NoShift[m] = 0 /\ Len(outbox[m]) \in Nat
      BY <3>2 DEF NoShift
    <3>7. ASSUME NEW m \in Nodes, NEW i \in 1..Len(outbox'[m])
          PROVE  i + NoShift[m] \in 1..Len(outbox[m])
                   /\ outbox'[m][i] = outbox[m][i + NoShift[m]]
      BY <3>3, <3>6
    <3>8. ASSUME NEW m \in Nodes, NEW k \in 1..Len(outbox[m])
          PROVE  \/ outbox[m][k].id \in lost'
                 \/ k - NoShift[m] \in 1..Len(outbox'[m])
                      /\ outbox'[m][k - NoShift[m]] = outbox[m][k]
      BY <3>3, <3>5, <3>6
    <3>9. QED
      BY <3>1, <3>3, <3>7, <3>8 DEF Delivers, R
  <2>2. CASE Disconnects(n)
    <3>1. outbox = [m \in Nodes |-> IF NoShift[m] = 1 THEN Tail(outbox[m]) ELSE outbox[m]]
      BY DEF NoShift, JobsInv, ReportsOK
    <3>2. ReportsOK /\ \A m \in Nodes : NoShift[m] = 1 => outbox[m] # <<>>
      BY DEF NoShift, JobsInv
    <3>3. Leaves(outbox)
      BY <2>2 DEF Disconnects
    <3>4. QED
      BY <1>3, <3>1, <3>2, <3>3, LeavesDelivers
  <2>3. QED
    BY <2>1, <2>2
<1>5. JobsOK' /\ setOf' \in [TaskIds -> BackupSets \cup {NoSet}]
  BY <1>1 DEF JobsInv, JobsOK, ReportsOK, jobs
<1>6. ReportsOK' /\ AlarmsOK' /\ ClearKept
  BY <1>1, <1>2, <1>3, <1>4, <1>5, NoShiftHeeds, DeliveryKeeps DEF HubKeeps
<1>7. DoneOK'
  BY <1>2, <1>6, DoneKept DEF HubKeeps, JobsInv
<1>8. QED
  BY <1>5, <1>6, <1>7 DEF JobsInv

\* Any step of the hub but the reports'.
LEMMA HubJobs ==
  ASSUME Inv, StartInv, JobsInv, TypeOK',
         Scheduling \/ Stopping \/ \E n \in Nodes : Settling(n)
  PROVE  JobsInv'
<1>1. TypeOK
  BY DEF Inv
<1>2. Alongside
  BY DEF Scheduling, Stopping, Settling
<1>3. CASE Scheduling
  BY <1>1, <1>2, <1>3, ScheduleHubKeeps, AlongsideJobs DEF Scheduling
<1>4. CASE HubCrash
  BY <1>1, <1>2, <1>4, DiesHubKeeps, AlongsideJobs DEF HubCrash
<1>5. CASE HubRestart
  <2>1. /\ queue' = queue /\ received' = received /\ row' = row /\ task' = task
        /\ tid' = tid /\ verdict' = verdict /\ pc'[Scheduler] = "recover"
        /\ \A n \in Nodes : pc'[n] = pc[n]
    BY <1>1, <1>5, ConstantsAssumption
    DEF HubRestart, Goto, TypeOK, Threads, Creators, memory, database
  <2>2. HubKeeps
    BY <1>1, <2>1
    DEF TypeOK, HubKeeps, RunsKept, StartedKept, InMemory, Queued, Settles
  <2>3. QED
    BY <1>1, <1>2, <2>2, AlongsideJobs
<1>6. ASSUME NEW n \in Nodes, Settling(n)
      PROVE  JobsInv'
  BY <1>1, <1>2, <1>6, SettleHubKeeps, AlongsideJobs DEF Settling
<1>7. QED
  BY <1>3, <1>4, <1>5, <1>6 DEF Stopping

-----------------------------------------------------------------------------
(* The hub reads a report.                                                 *)

\* The step is the end of reading n's first report.
LEMMA ReadJobs ==
  ASSUME TypeOK, JobsInv, NEW n \in Nodes, outbox[n] # <<>>, Read(n),
         RunsKept, SetKept, received' = received, Heeds(ShiftOf(n))
  PROVE  JobsInv'
<1>1. ShiftOf(n) \in Shifts /\ \A m \in Nodes : ShiftOf(n)[m] = 1 => m = n
  BY DEF ShiftOf, Shifts
<1>2. setOf' = setOf /\ jobs' = jobs
  BY DEF Read
<1>3. Delivers(ShiftOf(n))
  <2> DEFINE f == [outbox EXCEPT ![n] = Tail(@)]
  <2>1. f = [m \in Nodes |-> IF ShiftOf(n)[m] = 1 THEN Tail(outbox[m]) ELSE outbox[m]]
    <3> DEFINE g == [m \in Nodes |-> Tail(outbox[m])]
    <3>1. outbox = [m \in Nodes |-> outbox[m]] /\ \A m \in Nodes : g[m] = Tail(outbox[m])
      BY DEF JobsInv, ReportsOK
    <3>2. f = [outbox EXCEPT ![n] = g[n]]
      BY <3>1
    <3> HIDE DEF g
    <3>3. [outbox EXCEPT ![n] = g[n]]
            = [m \in Nodes |-> IF ShiftOf(n)[m] = 1 THEN g[m] ELSE outbox[m]]
      BY <3>1 DEF ShiftOf
    <3>4. QED
      BY <3>1, <3>2, <3>3
  <2>2. ReportsOK /\ \A m \in Nodes : ShiftOf(n)[m] = 1 => outbox[m] # <<>>
    BY <1>1 DEF JobsInv
  <2>3. Leaves(f)
    BY DEF Read
  <2> HIDE DEF f
  <2>4. QED
    BY <1>1, <2>1, <2>2, <2>3, LeavesDelivers
<1>4. JobsOK' /\ setOf' \in [TaskIds -> BackupSets \cup {NoSet}]
  BY <1>2 DEF JobsInv, JobsOK, ReportsOK, jobs, SetKept
<1>5. ReportsOK' /\ AlarmsOK' /\ ClearKept
  BY <1>1, <1>2, <1>3, <1>4, DeliveryKeeps
<1>6. DoneOK'
  BY <1>5, DoneKept DEF JobsInv
<1>7. QED
  BY <1>4, <1>5, <1>6 DEF JobsInv

\* A step that changes no status and no set's task heeds a report that is no
\* error, or is of a task that has left the queue.
LEMMA OtherHeeds ==
  ASSUME JobsInv, NEW n \in Nodes, StartedKept,
         \/ Head(outbox[n]).kind # "Error"
         \/ Head(outbox[n]).id \notin Queued',
         outbox[n] # <<>>
  PROVE  Heeds(ShiftOf(n))
<1>1. \A m \in Nodes : ShiftOf(n)[m] = 1 => m = n
  BY DEF ShiftOf
<1>2. Head(outbox[n]) = outbox[n][1]
  BY DEF JobsInv, ReportsOK
<1>3. erred \subseteq received
  BY DEF JobsInv, JobsOK
<1>4. QED
  BY <1>1, <1>2, <1>3 DEF Heeds, StartedKept, Says

LEMMA ReadsAlarmJobs ==
  ASSUME TypeOK, JobsInv, NEW n \in Nodes, outbox[n] # <<>>,
         ReadsAlarm(n, Head(outbox[n]))
  PROVE  JobsInv'
<1> DEFINE r == Head(outbox[n])
<1>1. r = outbox[n][1] /\ 1 \in 1..Len(outbox[n])
  BY DEF JobsInv, ReportsOK
<1>2. /\ r.kind \in {"Warning", "Error"} /\ HandleTask(n, r.id, r.kind) /\ Read(n)
  BY DEF ReadsAlarm
<1> HIDE DEF r
<1>3. /\ queue' = queue /\ received' = received /\ row' = row /\ pc' = pc
      /\ tid' = tid /\ verdict' = verdict /\ r.id \in TaskIds
      /\ task' = [task EXCEPT ![r.id].status = r.kind]
  BY <1>2 DEF HandleTask, Handles, TypeOK, database, threads
<1>4. \A t \in TaskIds :
        /\ task'[t].run = task[t].run /\ task'[t].set = task[t].set
        /\ task'[t].status = IF t = r.id THEN r.kind ELSE task[t].status
  BY <1>3 DEF TypeOK, TaskObjects
<1>5. RunsKept /\ SetKept
  BY <1>3, <1>4 DEF RunsKept, SetKept, InMemory, Queued, Settles
<1>6. Heeds(ShiftOf(n))
  <2>1. \A m \in Nodes : ShiftOf(n)[m] = IF m = n THEN 1 ELSE 0
    BY DEF ShiftOf
  <2>2. ASSUME NEW t \in TaskIds, Says(n, 1, "Error", t)
        PROVE  task'[t].status = "Error"
    BY <1>1, <1>4, <2>2 DEF Says
  <2>3. ASSUME NEW t \in TaskIds
        PROVE  \/ task'[t].status \in {"Error", task[t].status}
               \/ Says(n, 1, "Warning", t)
    BY <1>1, <1>2, <1>4 DEF Says
  <2>4. erred \subseteq TaskIds /\ Queued' = Queued
    BY <1>3 DEF JobsInv, JobsOK, TypeOK, Queued
  <2>5. QED
    BY <2>1, <2>2, <2>3, <2>4 DEF Heeds
<1>7. QED
  BY <1>2, <1>3, <1>5, <1>6, ReadJobs

\* The verdict on a task whose end is read is Done only if its job is over and
\* its last alarm was no error, or one of its reports was lost.
LEMMA ReadsDoneJobs ==
  ASSUME TypeOK, JobsInv, NEW n \in Nodes, outbox[n] # <<>>,
         ReadsDone(n, Head(outbox[n]))
  PROVE  JobsInv'
<1> DEFINE t == Head(outbox[n]).id
<1>1. Head(outbox[n]) = outbox[n][1] /\ 1 \in 1..Len(outbox[n])
  BY DEF JobsInv, ReportsOK
<1>2. Head(outbox[n]).kind = "done" /\ HandleTaskDone(n, t) /\ Read(n)
  BY DEF ReadsDone
<1>3. Says(n, 1, "done", t)
  BY <1>1, <1>2 DEF Says
<1> HIDE DEF t
<1>4. /\ queue' = queue /\ received' = received /\ row' = row /\ task' = task
      /\ pc'[Scheduler] = pc[Scheduler] /\ tid'[Scheduler] = tid[Scheduler]
      /\ t \in TaskIds /\ t \in received /\ t \in Queued
      /\ tid'[n] = t /\ (verdict'[n] = "Done" => task[t].status # "Error")
      /\ \A m \in Nodes \ {n} : /\ pc'[m] = pc[m] /\ tid'[m] = tid[m]
                               /\ verdict'[m] = verdict[m]
  BY <1>2, ConstantsAssumption
  DEF HandleTaskDone, Handles, Goto, TypeOK, memory, database, Threads, Creators
<1>5. ASSUME verdict'[n] = "Done"
      PROVE  Clear(t)
  <2>1. On(n, t) /\ ~OnNode(t)
    BY <1>1, <1>2, <1>3 DEF JobsInv, ReportsOK, Says, t
  <2>2. ASSUME t \in erred \ lost
        PROVE  FALSE
    <3>1. PICK m \in Nodes : \E j \in 1..Len(outbox[m]) : Says(m, j, "Error", t)
      BY <1>4, <1>5, <2>2 DEF JobsInv, AlarmsOK
    <3>2. m = n
      BY <2>1, <3>1 DEF JobsInv, ReportsOK, Says, On
    <3>3. PICK j \in 1..Len(outbox[n]) : Says(n, j, "Error", t)
      BY <3>1, <3>2
    <3>4. j < 1
      BY <1>1, <1>3, <1>4, <3>3 DEF JobsInv, AlarmsOK
    <3>5. QED
      BY <3>3, <3>4
  <2>3. QED
    BY <1>4, <2>1, <2>2 DEF Clear
<1>6. RunsKept /\ SetKept
  BY <1>4, <1>5 DEF RunsKept, SetKept, InMemory, Queued, Settles
<1>7. received \subseteq TaskIds
  BY DEF TypeOK
<1>8. StartedKept
  BY <1>4, <1>7 DEF StartedKept, Queued
<1>9. QED
  BY <1>2, <1>4, <1>6, <1>8, OtherHeeds, ReadJobs

LEMMA ReadsOtherJobs ==
  ASSUME TypeOK, JobsInv, NEW n \in Nodes, outbox[n] # <<>>,
         \/ ReadsNoStorage(n, Head(outbox[n]))
         \/ ReadsWithoutEffect(n, Head(outbox[n]))
         \/ ReadsText(n, Head(outbox[n]))
  PROVE  JobsInv'
<1> DEFINE r == Head(outbox[n])
<1> USE DEF memory, database, pass, threads, counters
<1>1. /\ queue' = queue /\ received' = received /\ row' = row /\ pc' = pc
      /\ tid' = tid /\ verdict' = verdict
      /\ \/ task' = task
         \/ task' = [task EXCEPT ![r.id].status = "Error", ![r.id].run = "Cancelled"]
  BY DEF ReadsNoStorage, HandleNoStorage, ReadsWithoutEffect, ReadsText, ClearNode,
         vars
<1>2. Read(n) /\ (r.kind # "Error" \/ r.id \notin Queued)
  BY DEF ReadsNoStorage, ReadsWithoutEffect, ReadsText
<1> HIDE DEF r
<1>3. HubKeeps
  BY <1>1, OthersHubKeeps
<1>4. SetKept
  <2>1. task \in [TaskIds -> TaskObjects]
    BY DEF TypeOK
  <2>2. QED
    BY <1>1, <2>1 DEF SetKept, TaskObjects
<1>5. Heeds(ShiftOf(n))
  BY <1>1, <1>2, <1>3, OtherHeeds DEF HubKeeps, Queued, r
<1>6. QED
  BY <1>1, <1>2, <1>3, <1>4, <1>5, ReadJobs DEF HubKeeps

-----------------------------------------------------------------------------
(* The nodes' steps.                                                       *)

\* A node writes nothing: no job that was started goes on again.
LEMMA SilentJobs ==
  ASSUME JobsInv, queue' = queue, task' = task, row' = row, pc' = pc, tid' = tid,
         verdict' = verdict, received \subseteq received', setOf' = setOf,
         erred' = erred, outbox' = outbox, lost' = lost, JobsOK',
         \A t \in received : (OnNode(t)' => OnNode(t)) /\ (Begun(t) => Begun(t)')
  PROVE  JobsInv'
<1>1. RunsKept
  BY DEF RunsKept, InMemory, Queued, Settles
<1>2. ClearKept
  BY DEF ClearKept, Clear
<1>3. DoneOK'
  BY <1>1, <1>2, DoneKept DEF JobsInv
<1>4. ReportsOK'
  BY DEF JobsInv, ReportsOK, On
<1>5. AlarmsOK'
  BY DEF JobsInv, AlarmsOK, Says, Queued
<1>6. QED
  BY <1>3, <1>4, <1>5 DEF JobsInv

LEMMA ListensJobs ==
  ASSUME Inv, StartInv, JobsInv, NEW n \in Nodes, Listens(n)
  PROVE  JobsInv'
<1> DEFINE t == Head(wire[n]).id
<1> USE DEF memory, database, pass, threads, counters
<1>1. wire[n] # <<>> /\ NodeReads(n) /\ wire \in [Nodes -> Seq(Messages)]
  BY DEF Listens, RunBackup, CancelTask, Inv, TypeOK
<1>2. Head(wire[n]) = wire[n][1] /\ 1 \in 1..Len(wire[n]) /\ t \in TaskIds
  <2>1. Head(wire[n]) = wire[n][1] /\ 1 \in 1..Len(wire[n]) /\ wire[n][1] \in Messages
    BY <1>1
  <2>2. QED
    BY <2>1 DEF Messages
<1>3. /\ queue' = queue /\ task' = task /\ row' = row /\ pc' = pc /\ tid' = tid
      /\ verdict' = verdict /\ setOf' = setOf /\ erred' = erred /\ outbox' = outbox
      /\ lost' = lost
  BY DEF Listens, RunBackup, CancelTask, NodeReads
<1>4. CASE RunBackup(n)
  <2>1. t \notin received
    BY <1>2, <1>4 DEF RunBackup, StartInv, OrderedOnce, IsStart
  <2>2. received' = received \cup {t}
    BY <1>4 DEF RunBackup, NodeReads
  <2>3. job' = [job EXCEPT ![t] = "preparing"] \/ job' = job
    BY <1>4 DEF RunBackup
  <2> HIDE DEF t
  <2>4. \A x \in received : x \in TaskIds /\ job'[x] = job[x]
    BY <1>2, <2>1, <2>3 DEF JobsInv, JobsOK, Inv, TypeOK
  <2>5. JobsOK'
    BY <1>2, <1>3, <2>2, <2>3 DEF JobsInv, JobsOK
  <2>6. QED
    BY <1>3, <2>2, <2>4, <2>5, SilentJobs DEF OnNode, Begun
<1>5. CASE CancelTask(n)
  <2>1. received' = received
    BY <1>5 DEF CancelTask, NodeReads
  <2>2. \/ job' = [job EXCEPT ![t] = "cancelled"] /\ Registered(t)
        \/ job' = job
    BY <1>5 DEF CancelTask
  <2> HIDE DEF t
  <2>3. \A x \in TaskIds : job'[x] \in {"cancelled", job[x]}
    BY <1>2, <2>2 DEF JobsInv, JobsOK
  <2>4. JobsOK'
    BY <1>2, <1>3, <2>1, <2>2 DEF JobsInv, JobsOK, Registered
  <2>5. received \subseteq TaskIds
    BY DEF Inv, TypeOK
  <2>6. QED
    BY <1>3, <2>1, <2>3, <2>4, <2>5, SilentJobs DEF OnNode, Begun
<1>6. QED
  BY <1>4, <1>5 DEF Listens

\* The job of t writes w, at most the end of the job or one alarm: nothing of
\* the kind comes after the end.
LEMMA WritesJobs ==
  ASSUME TypeOK, JobsInv, UNCHANGED vars, setOf' = setOf, NEW n \in Nodes,
         NEW t \in TaskIds, On(n, t), OnNode(t),
         NEW w \in Seq([kind : {"Warning", "Error", "storage", "done", "text"},
                        id : TaskIds]),
         HubWrite(n, w), w # <<>>, \A i \in 1..Len(w) : w[i].id = t,
         (\E i \in 1..Len(w) : w[i].kind = "done") =>
            /\ ~OnNode(t)'
            /\ \A i \in 1..Len(w) : w[i].kind \notin {"Warning", "Error"},
         Begun(t) \/ (\E i \in 1..Len(w) : w[i].kind = "storage") => Begun(t)',
         \/ erred' = erred \cup {t} /\ Len(w) = 1 /\ w[1].kind = "Error"
         \/ erred' = erred \ {t}
         \/ erred' = erred /\ \A i \in 1..Len(w) : w[i].kind # "Warning",
         JobsOK', \A x \in TaskIds : x # t => job'[x] = job[x]
  PROVE  JobsInv'
<1> DEFINE R == [kind : {"Warning", "Error", "storage", "done", "text"}, id : TaskIds]
<1> USE DEF vars, memory, database, threads
<1>1. outbox \in [Nodes -> Seq(R)] /\ w \in Seq(R) /\ Len(w) \in Nat \ {0}
  BY DEF JobsInv, ReportsOK
<1>2. \A r : r \in R <=> /\ r = [kind |-> r.kind, id |-> r.id] /\ r.id \in TaskIds
                        /\ r.kind \in {"Warning", "Error", "storage", "done", "text"}
  OBVIOUS
<1> HIDE DEF R
<1>3. lost \subseteq lost' /\ t \in received
  BY DEF HubWrite, On
<1>4. \A x \in TaskIds : x # t => (x \in erred' <=> x \in erred)
  OBVIOUS
<1>5. ClearKept
  BY <1>3, <1>4 DEF ClearKept, Clear, OnNode
<1>6. RunsKept
  BY DEF RunsKept, InMemory, Queued, Settles
<1>7. DoneOK'
  BY <1>5, <1>6, DoneKept DEF JobsInv
<1>8. setOf' \in [TaskIds -> BackupSets \cup {NoSet}]
  BY DEF JobsInv, ReportsOK
<1>9. erred' \subseteq TaskIds /\ erred \subseteq TaskIds
  BY <1>3 DEF TypeOK, JobsInv, JobsOK
<1>10. ASSUME verified[n]
       PROVE  ReportsOK' /\ AlarmsOK'
  <2>1. outbox' = [outbox EXCEPT ![n] = outbox[n] \o w] /\ lost' = lost
    BY <1>10 DEF HubWrite
  <2>2. /\ outbox[n] \o w \in Seq(R) /\ Len(outbox[n] \o w) = Len(outbox[n]) + Len(w)
        /\ Len(outbox[n]) \in Nat
        /\ \A i \in 1..Len(outbox[n]) + Len(w) :
             (outbox[n] \o w)[i] = IF i <= Len(outbox[n]) THEN outbox[n][i]
                                  ELSE w[i - Len(outbox[n])]
    <3>1. \A s \in Seq(R) : /\ s \o w \in Seq(R) /\ Len(s \o w) = Len(s) + Len(w)
                           /\ Len(s) \in Nat
                           /\ \A i \in 1..Len(s) + Len(w) :
                                (s \o w)[i] = IF i <= Len(s) THEN s[i] ELSE w[i - Len(s)]
      BY <1>1
    <3>2. QED
      BY ONLY <1>1, <3>1
  <2>3. /\ outbox' \in [Nodes -> Seq(R)]
        /\ Len(outbox'[n]) = Len(outbox[n]) + Len(w)
        /\ \A i \in 1..Len(outbox'[n]) :
             outbox'[n][i] = IF i <= Len(outbox[n]) THEN outbox[n][i]
                             ELSE w[i - Len(outbox[n])]
        /\ \A m \in Nodes \ {n} : outbox'[m] = outbox[m]
    BY <1>1, <2>1, <2>2
  <2>4. ASSUME NEW m \in Nodes, NEW i \in 1..Len(outbox'[m])
        PROVE  \/ i \in 1..Len(outbox[m]) /\ outbox'[m][i] = outbox[m][i]
               \/ /\ m = n /\ i > Len(outbox[n]) /\ i - Len(outbox[n]) \in 1..Len(w)
                  /\ outbox'[m][i] = w[i - Len(outbox[n])]
    BY <1>1, <2>2, <2>3
  <2>5. ASSUME NEW m \in Nodes, NEW i \in 1..Len(outbox[m])
        PROVE  i \in 1..Len(outbox'[m]) /\ outbox'[m][i] = outbox[m][i]
    <3>1. CASE m = n
      BY <1>1, <2>2, <2>3, <3>1
    <3>2. CASE m # n
      BY <2>3, <3>2
    <3>3. QED
      BY <3>1, <3>2
  <2>6. ReportsOK'
    <3>1. ASSUME NEW m \in Nodes, NEW i \in 1..Len(outbox'[m])
          PROVE  /\ On(m, outbox[m][i].id)'
                 /\ (outbox[m][i].kind = "done" => ~OnNode(outbox[m][i].id))'
                 /\ (outbox[m][i].kind = "storage" => Begun(outbox[m][i].id))'
      <4>1. CASE i \in 1..Len(outbox[m]) /\ outbox'[m][i] = outbox[m][i]
        <5>1. /\ On(m, outbox[m][i].id) /\ outbox[m][i].id \in TaskIds
              /\ outbox[m][i].kind = "done" => ~OnNode(outbox[m][i].id)
              /\ outbox[m][i].kind = "storage" => Begun(outbox[m][i].id)
          BY <1>1, <1>2, <4>1 DEF JobsInv, ReportsOK
        <5>2. QED
          BY <4>1, <5>1 DEF On, OnNode, Begun
      <4>2. CASE /\ m = n /\ i - Len(outbox[n]) \in 1..Len(w)
                 /\ outbox'[m][i] = w[i - Len(outbox[n])]
        BY <4>2 DEF On
      <4>3. QED
        BY <2>4, <4>1, <4>2
    <3>2. QED
      BY <1>8, <2>3, <3>1 DEF ReportsOK, R
  <2>7. ASSUME NEW m \in Nodes, NEW i \in 1..Len(outbox'[m]), NEW kind,
               NEW x \in TaskIds, Says(m, i, kind, x)'
        PROVE  \/ i \in 1..Len(outbox[m]) /\ Says(m, i, kind, x)
               \/ /\ m = n /\ x = t /\ i > Len(outbox[n])
                  /\ \E k \in 1..Len(w) : w[k].kind = kind
    BY <2>4, <2>7 DEF Says
  <2>8. ASSUME NEW m \in Nodes, NEW i \in 1..Len(outbox'[m]), NEW j \in 1..Len(outbox'[m]),
               NEW x \in TaskIds, Says(m, i, "done", x)',
               Says(m, j, "Warning", x)' \/ Says(m, j, "Error", x)'
        PROVE  j < i
    <3>1. CASE i \in 1..Len(outbox[m]) /\ Says(m, i, "done", x)
      <4>1. x = t => ~OnNode(t)
        BY <3>1 DEF Says, JobsInv, ReportsOK
      <4>2. j \in 1..Len(outbox[m]) /\ (Says(m, j, "Warning", x) \/ Says(m, j, "Error", x))
        BY <2>7, <2>8, <4>1
      <4>3. QED
        BY <3>1, <4>2 DEF JobsInv, AlarmsOK
    <3>2. CASE m = n /\ x = t /\ i > Len(outbox[n]) /\ \E k \in 1..Len(w) : w[k].kind = "done"
      <4>1. j \in 1..Len(outbox[n])
        BY <2>7, <2>8, <3>2
      <4>2. QED
        BY <2>2, <3>2, <4>1
    <3>3. QED
      BY <2>7, <2>8, <3>1, <3>2
  <2>9. ASSUME NEW x \in erred' \ lost'
        PROVE  /\ \A m \in Nodes : \A i \in 1..Len(outbox'[m]) :
                    Says(m, i, "Warning", x)' =>
                      \E j \in 1..Len(outbox'[m]) : j > i /\ Says(m, j, "Error", x)'
               /\ x \in Queued' =>
                    \/ task'[x].status = "Error"
                    \/ \E m \in Nodes : \E j \in 1..Len(outbox'[m]) : Says(m, j, "Error", x)'
    <3>1. CASE x \in erred /\ (x = t => \A i \in 1..Len(w) : w[i].kind # "Warning")
      <4>1. x \in erred \ lost
        BY <2>1, <2>9, <3>1
      <4>2. ASSUME NEW m \in Nodes, NEW i \in 1..Len(outbox'[m]), Says(m, i, "Warning", x)'
            PROVE  \E j \in 1..Len(outbox'[m]) : j > i /\ Says(m, j, "Error", x)'
        <5>1. i \in 1..Len(outbox[m]) /\ Says(m, i, "Warning", x)
          BY <1>9, <2>7, <3>1, <4>2
        <5>2. PICK j \in 1..Len(outbox[m]) : j > i /\ Says(m, j, "Error", x)
          BY <4>1, <5>1 DEF JobsInv, AlarmsOK
        <5>3. QED
          BY <2>5, <5>2 DEF Says
      <4>3. ASSUME NEW m \in Nodes, NEW j \in 1..Len(outbox[m]), Says(m, j, "Error", x)
            PROVE  Says(m, j, "Error", x)' /\ j \in 1..Len(outbox'[m])
        BY <2>5, <4>3 DEF Says
      <4>4. x \in Queued' => x \in Queued /\ task' = task
        BY DEF Queued
      <4>5. QED
        BY <4>1, <4>2, <4>3, <4>4 DEF JobsInv, AlarmsOK
    <3>2. CASE x = t /\ erred' = erred \cup {t} /\ Len(w) = 1 /\ w[1].kind = "Error"
      <4>1. PICK l \in 1..Len(outbox'[n]) : l = Len(outbox[n]) + 1 /\ Says(n, l, "Error", t)'
        <5>1. /\ Len(outbox[n]) + 1 \in 1..Len(outbox'[n])
              /\ (Len(outbox[n]) + 1) - Len(outbox[n]) = 1
              /\ ~(Len(outbox[n]) + 1 <= Len(outbox[n]))
          BY <2>2, <2>3, <3>2
        <5>2. outbox'[n][Len(outbox[n]) + 1] = w[1]
          BY <2>3, <5>1
        <5>3. w[1].id = t
          BY <3>2
        <5>4. QED
          BY <3>2, <5>1, <5>2, <5>3 DEF Says
      <4>2. ASSUME NEW m \in Nodes, NEW i \in 1..Len(outbox'[m]), Says(m, i, "Warning", t)'
            PROVE  m = n /\ l > i
        <5>1. i \in 1..Len(outbox[m]) /\ Says(m, i, "Warning", t)
          BY <2>7, <3>2, <4>2
        <5>2. On(m, t)
          BY <5>1 DEF Says, JobsInv, ReportsOK
        <5>3. m = n
          BY <5>2 DEF On
        <5>4. QED
          BY <2>2, <4>1, <5>1, <5>3
      <4>3. QED
        BY <3>2, <4>1, <4>2
    <3>3. QED
      BY <2>9, <3>1, <3>2
  <2>10. QED
    BY <2>6, <2>8, <2>9 DEF AlarmsOK
<1>11. ASSUME ~verified[n]
       PROVE  ReportsOK' /\ AlarmsOK'
  <2>1. outbox' = outbox /\ t \in lost'
    <3>1. w[1] \in ToSet(w) /\ w[1].id = t
      BY <1>1 DEF ToSet
    <3>2. QED
      BY <1>11, <3>1 DEF HubWrite
  <2>2. ReportsOK'
    <3>1. ASSUME NEW m \in Nodes, NEW i \in 1..Len(outbox[m])
          PROVE  /\ On(m, outbox[m][i].id)'
                 /\ (outbox[m][i].kind = "done" => ~OnNode(outbox[m][i].id))'
                 /\ (outbox[m][i].kind = "storage" => Begun(outbox[m][i].id))'
      <4>1. /\ On(m, outbox[m][i].id) /\ outbox[m][i].id \in TaskIds
            /\ outbox[m][i].kind = "done" => ~OnNode(outbox[m][i].id)
            /\ outbox[m][i].kind = "storage" => Begun(outbox[m][i].id)
        BY <1>1, <1>2 DEF JobsInv, ReportsOK
      <4>2. QED
        BY <2>1, <4>1 DEF On, OnNode, Begun
    <3>2. QED
      BY <1>8, <2>1, <3>1 DEF JobsInv, ReportsOK
  <2>3. \A x \in erred' \ lost' : x \in erred \ lost
    BY <1>3, <1>4, <1>9, <2>1
  <2>4. AlarmsOK'
    BY <2>1, <2>3 DEF JobsInv, AlarmsOK, Says, Queued
  <2>5. QED
    BY <2>2, <2>4
<1>12. QED
  BY <1>7, <1>10, <1>11 DEF JobsInv

\* Jobs that end, fail or report.
LEMMA WorksJobs ==
  ASSUME TypeOK, JobsInv, NEW n \in Nodes, NEW t \in TaskIds,
         \/ Works(n, t) \/ Fails(n, t)
         \/ \E kind \in {"Warning", "Error", "storage"} : Reports(n, t, kind)
  PROVE  JobsInv'
<1> DEFINE Kinds == {"Warning", "Error", "storage", "done", "text"}
           JobStates == {"none", "preparing", "running", "broken", "failed",
                         "leaving", "cancelled", "done"}
<1>1. job \in [TaskIds -> JobStates]
  BY DEF JobsInv, JobsOK
<1>2. ASSUME UNCHANGED vars, t \in received, erred' \subseteq erred \cup {t},
             NEW l \in JobStates, job' = job \/ job' = [job EXCEPT ![t] = l]
      PROVE  JobsOK' /\ \A x \in TaskIds : x # t => job'[x] = job[x]
  BY <1>1, <1>2 DEF JobsInv, JobsOK, vars, memory, Works, Fails, Prepares, BackupDone,
         BackupRemoved, PrepareFails, ThreadFails, RunFails, Reports
<1>3. ASSUME NEW kind \in Kinds
      PROVE  LET w == <<Report(kind, t)>>
             IN  /\ w \in Seq([kind : Kinds, id : TaskIds])
                 /\ Len(w) = 1 /\ w # <<>> /\ w[1].kind = kind
                 /\ \A i \in 1..Len(w) : w[i].id = t /\ w[i].kind = kind
  BY DEF Report
<1>4. t \in received /\ On(n, t)
  BY DEF Works, Fails, Prepares, BackupDone, BackupRemoved, PrepareFails, ThreadFails,
         RunFails, Reports, On
<1>5. CASE Prepares(n, t) \/ BackupRemoved(n, t)
  <2>1. /\ UNCHANGED vars /\ setOf' = setOf /\ erred' = erred /\ outbox' = outbox
        /\ lost' = lost
        /\ \/ job[t] = "preparing" /\ job' = [job EXCEPT ![t] = "running"]
           \/ job[t] = "leaving" /\ job' = [job EXCEPT ![t] = "done"]
    BY <1>5 DEF Prepares, BackupRemoved
  <2>2. JobsOK'
    BY <1>2, <1>4, <2>1
  <2>3. \A x \in received : (OnNode(x)' => OnNode(x)) /\ (Begun(x) => Begun(x)')
    BY <1>1, <2>1 DEF OnNode, Begun, TypeOK
  <2>4. QED
    BY <2>1, <2>2, <2>3, SilentJobs DEF vars, memory, database, threads
<1>6. CASE BackupDone(n, t)
  <2>1. /\ UNCHANGED vars /\ setOf' = setOf /\ erred' = erred
        /\ job[t] = "running" /\ job' = [job EXCEPT ![t] = "leaving"]
        /\ HubWrite(n, <<Report("done", t)>>)
    BY <1>6 DEF BackupDone, Over, End
  <2>2. OnNode(t) /\ ~OnNode(t)' /\ Begun(t)'
    BY <1>1, <2>1 DEF OnNode, Begun
  <2>3. JobsOK' /\ \A x \in TaskIds : x # t => job'[x] = job[x]
    BY <1>2, <1>4, <2>1
  <2> DEFINE w == <<Report("done", t)>>
  <2>4. /\ w \in Seq([kind : Kinds, id : TaskIds])
        /\ w # <<>> /\ \A i \in 1..Len(w) : w[i].id = t /\ w[i].kind = "done"
    BY <1>3
  <2> HIDE DEF w
  <2>5. HubWrite(n, w)
    BY <2>1 DEF w
  <2>6. QED
    BY <1>4, <2>1, <2>2, <2>3, <2>4, <2>5, WritesJobs
<1>7. CASE RunFails(n, t)
  <2>1. /\ UNCHANGED vars /\ setOf' = setOf /\ erred' = erred
        /\ job[t] = "running" /\ job' = [job EXCEPT ![t] = "leaving"]
        /\ HubWrite(n, <<Report("text", t)>> \o <<Report("done", t)>>)
    BY <1>7 DEF RunFails, Over, End
  <2>2. OnNode(t) /\ ~OnNode(t)' /\ Begun(t)'
    BY <1>1, <2>1 DEF OnNode, Begun
  <2>3. JobsOK' /\ \A x \in TaskIds : x # t => job'[x] = job[x]
    BY <1>2, <1>4, <2>1
  <2> DEFINE w == <<Report("text", t)>> \o <<Report("done", t)>>
  <2>4. /\ w \in Seq([kind : Kinds, id : TaskIds]) /\ w # <<>>
        /\ \A i \in 1..Len(w) : w[i].id = t /\ w[i].kind \in {"text", "done"}
    <3> DEFINE R == [kind : Kinds, id : TaskIds]
               u == <<Report("text", t)>>
               v == <<Report("done", t)>>
    <3>1. /\ u \in Seq(R) /\ Len(u) = 1 /\ u[1].kind = "text" /\ u[1].id = t
          /\ v \in Seq(R) /\ Len(v) = 1 /\ v[1].kind = "done" /\ v[1].id = t
      BY <1>3
    <3>2. w = u \o v
      OBVIOUS
    <3> HIDE DEF R, u, v, w
    <3>3. /\ w \in Seq(R) /\ Len(w) = 2
          /\ \A i \in 1..2 : w[i] = IF i <= 1 THEN u[i] ELSE v[i - 1]
      <4>1. \A x, y \in Seq(R) :
              /\ x \o y \in Seq(R) /\ Len(x \o y) = Len(x) + Len(y)
              /\ \A i \in 1..Len(x) + Len(y) :
                   (x \o y)[i] = IF i <= Len(x) THEN x[i] ELSE y[i - Len(x)]
        OBVIOUS
      <4>2. QED
        BY ONLY <3>1, <3>2, <4>1
    <3>4. w # <<>> /\ \A i \in 1..Len(w) : w[i].id = t /\ w[i].kind \in {"text", "done"}
      BY <3>1, <3>3
    <3>5. QED
      BY <3>3, <3>4 DEF R
  <2> HIDE DEF w
  <2>5. HubWrite(n, w)
    BY <2>1 DEF w
  <2>6. QED
    BY <1>4, <2>1, <2>2, <2>3, <2>4, <2>5, WritesJobs
<1>8. CASE PrepareFails(n, t)
  <2>1. /\ UNCHANGED vars /\ setOf' = setOf /\ erred' = erred
        /\ job[t] = "preparing" /\ job' = [job EXCEPT ![t] = "failed"]
        /\ HubWrite(n, <<Report("text", t)>>)
    BY <1>8 DEF PrepareFails
  <2>2. OnNode(t) /\ Begun(t)'
    BY <1>1, <2>1 DEF OnNode, Begun
  <2>3. JobsOK' /\ \A x \in TaskIds : x # t => job'[x] = job[x]
    BY <1>2, <1>4, <2>1
  <2> DEFINE w == <<Report("text", t)>>
  <2>4. /\ w \in Seq([kind : Kinds, id : TaskIds])
        /\ w # <<>> /\ \A i \in 1..Len(w) : w[i].id = t /\ w[i].kind = "text"
    BY <1>3
  <2> HIDE DEF w
  <2>5. HubWrite(n, w)
    BY <2>1 DEF w
  <2>6. QED
    BY <1>4, <2>1, <2>2, <2>3, <2>4, <2>5, WritesJobs
<1>9. ASSUME NEW kind \in {"Warning", "Error", "storage"},
             UNCHANGED vars, setOf' = setOf, OnNode(t), HubWrite(n, <<Report(kind, t)>>),
             erred' = CASE kind = "Error" -> erred \cup {t}
                        [] kind = "Warning" -> erred \ {t}
                        [] OTHER -> erred,
             job' = job \/ job' = [job EXCEPT ![t] = "broken"],
             kind = "storage" => Begun(t)
      PROVE  JobsInv'
  <2>1. /\ kind = "Error" => erred' = erred \cup {t}
        /\ kind = "Warning" => erred' = erred \ {t}
        /\ kind = "storage" => erred' = erred
    BY <1>9
  <2>2. JobsOK' /\ \A x \in TaskIds : x # t => job'[x] = job[x]
    <3>1. erred' \subseteq erred \cup {t}
      BY <2>1
    <3>2. QED
      BY <1>2, <1>4, <1>9, <3>1
  <2>3. Begun(t) => Begun(t)'
    BY <1>1, <1>9 DEF Begun
  <2> DEFINE w == <<Report(kind, t)>>
  <2>4. /\ w \in Seq([kind : Kinds, id : TaskIds]) /\ Len(w) = 1 /\ w[1].kind = kind
        /\ w # <<>> /\ \A i \in 1..Len(w) : w[i].id = t /\ w[i].kind = kind
    BY <1>3
  <2> HIDE DEF w
  <2>5. HubWrite(n, w)
    BY <1>9 DEF w
  <2>6. QED
    BY <1>4, <1>9, <2>1, <2>2, <2>3, <2>4, <2>5, WritesJobs
<1>10. CASE ThreadFails(n, t)
  BY <1>9, <1>10 DEF ThreadFails, OnNode, Begun
<1>11. ASSUME NEW kind \in {"Warning", "Error", "storage"}, Reports(n, t, kind)
       PROVE  JobsInv'
  BY <1>9, <1>11 DEF Reports, OnNode, Begun
<1>12. QED
  BY <1>5, <1>6, <1>7, <1>8, <1>10, <1>11 DEF Works, Fails

-----------------------------------------------------------------------------
(* The theorems.                                                           *)

LEMMA InitJobs ==
  ASSUME JobsInit
  PROVE  JobsInv
<1>1. /\ queue = <<>> /\ pc[Scheduler] = "recover"
      /\ \A n \in Nodes : pc[n] = "reading"
      /\ \A t \in TaskIds : row[t] = NoRow /\ task[t] = NoTask
      /\ outbox = [n \in Nodes |-> <<>>] /\ erred = {} /\ received = {}
      /\ setOf = [t \in TaskIds |-> NoSet] /\ job = [t \in TaskIds |-> "none"]
  BY ConstantsAssumption DEF JobsInit, Init, Threads, Creators
<1>2. DoneOK
  BY <1>1 DEF DoneOK, InMemory, Settles, Queued, ToSet, NoRow
<1>3. JobsOK
  BY <1>1 DEF JobsOK, NoTask
<1>4. ReportsOK /\ AlarmsOK
  BY <1>1 DEF ReportsOK, AlarmsOK
<1>5. QED
  BY <1>2, <1>3, <1>4 DEF JobsInv

LEMMA NextJobs ==
  ASSUME Inv, StartInv, JobsInv, Inv', [JobsNext]_allVars
  PROVE  JobsInv'
<1>1. TypeOK /\ TypeOK'
  BY DEF Inv
<1>2. CASE UNCHANGED allVars
  <2>1. /\ queue' = queue /\ task' = task /\ row' = row /\ pc' = pc /\ tid' = tid
        /\ verdict' = verdict /\ received' = received /\ setOf' = setOf
        /\ erred' = erred /\ outbox' = outbox /\ lost' = lost /\ job' = job
    BY <1>2 DEF allVars, jobs, vars, memory, database, threads
  <2>2. /\ JobsOK'
        /\ \A t \in received : (OnNode(t)' => OnNode(t)) /\ (Begun(t) => Begun(t)')
    BY <2>1 DEF JobsInv, JobsOK, OnNode, Begun
  <2>3. QED
    BY <2>1, <2>2, SilentJobs
<1>3. CASE Scheduling \/ Stopping
  BY <1>1, <1>3, HubJobs
<1>4. ASSUME NEW n \in Nodes,
             HubReads(n) \/ Settling(n) \/ Reconnects(n) \/ Disconnects(n) \/ Listens(n)
      PROVE  JobsInv'
  <2>1. CASE HubReads(n)
    BY <1>1, <2>1, ReadsAlarmJobs, ReadsDoneJobs, ReadsOtherJobs DEF HubReads
  <2>2. CASE Settling(n)
    BY <1>1, <2>2, HubJobs
  <2>3. CASE Reconnects(n) \/ Disconnects(n)
    BY <1>1, <2>3, ConnectionJobs
  <2>4. CASE Listens(n)
    BY <2>4, ListensJobs
  <2>5. QED
    BY <1>4, <2>1, <2>2, <2>3, <2>4
<1>5. ASSUME NEW n \in Nodes, NEW t \in TaskIds,
             \/ Works(n, t) \/ Fails(n, t)
             \/ \E kind \in {"Warning", "Error", "storage"} : Reports(n, t, kind)
      PROVE  JobsInv'
  BY <1>1, <1>5, WorksJobs
<1>6. QED
  BY <1>2, <1>3, <1>4, <1>5 DEF JobsNext

LEMMA JobsCorrect == JobsSpec => [](Inv /\ JobsInv)
<1>1. "Start" \notin UserRequests
  BY JobsAssumption
<1>2. JobsSpec => []Inv /\ []StartInv
  <2>1. Spec => []StartInv
    BY <1>1, StartsCorrect
  <2>2. QED
    BY <2>1, JobsSchedule, InvCorrect, PTL
<1>3. JobsInit => JobsInv
  BY InitJobs
<1>4. Inv /\ StartInv /\ JobsInv /\ Inv' /\ [JobsNext]_allVars => JobsInv'
  BY NextJobs
<1>5. QED
  BY <1>2, <1>3, <1>4, PTL DEF JobsSpec

\* A task is recorded as Done only when its node has stopped working on it,
\* however many nodes and sets there are, whatever is lost with connections
\* and whenever the hub stops: TASKDONE is written once the job is over, and
\* nothing but TASKDONE leads the hub to Done.
THEOREM DoneTaskIsOver == JobsSpec => []DoneMeansOver
<1>1. Inv /\ JobsInv => DoneMeansOver
  BY JobsInvHolds
<1>2. QED
  BY <1>1, JobsCorrect, PTL

\* A task whose job reported an error last is never recorded as Done, unless
\* one of its reports was lost: the reports keep their order, and the hub
\* neither wipes out nor overlooks the status they leave.
THEOREM ErrorIsRecorded == JobsSpec => []ErrorRecorded
<1>1. Inv /\ JobsInv => ErrorRecorded
  BY JobsInvHolds
<1>2. QED
  BY <1>1, JobsCorrect, PTL

-----------------------------------------------------------------------------
(* The types.                                                              *)

\* What JobsTypeOK adds to the invariant: reports are under way only on
\* connections that are there, and the histories name tasks.
KeptOK ==
  /\ reports \in 0..MaxReports
  /\ lost \subseteq TaskIds
  /\ excused \subseteq TaskIds
  /\ \A n \in Nodes : outbox[n] # <<>> => verified[n]

Written == [kind : {"Warning", "Error", "storage", "done", "text"}, id : TaskIds]

LEMMA ToSetIs ==
  ASSUME NEW S, NEW q \in Seq(S)
  PROVE  ToSet(q) = {q[i] : i \in 1..Len(q)} /\ ToSet(q) \subseteq S
BY DEF ToSet

\* What is left on the connections, or lost with them.
LEMMA LeavesKept ==
  ASSUME KeptOK, NEW reported \in [Nodes -> Seq(Written)], Leaves(reported)
  PROVE  lost' \subseteq TaskIds /\ \A n \in Nodes : outbox'[n] # <<>> => verified'[n]
<1>1. lost' = lost \cup UNION {{r.id : r \in ToSet(reported[n])} :
                                 n \in {m \in Nodes : ~verified'[m]}}
  BY DEF Leaves
<1>2. ASSUME NEW n \in Nodes, NEW r \in ToSet(reported[n]) PROVE r.id \in TaskIds
  <2>1. r \in Written
    BY ToSetIs
  <2>2. QED
    BY <2>1 DEF Written
<1>3. lost' \subseteq TaskIds
  BY <1>1, <1>2 DEF KeptOK
<1>4. ASSUME NEW n \in Nodes, outbox'[n] # <<>> PROVE verified'[n]
  BY <1>4 DEF Leaves
<1>5. QED
  BY <1>3, <1>4

\* A node writes on the connection that is there, or the report is lost.
LEMMA HubWriteKept ==
  ASSUME TypeOK, JobsInv, KeptOK, NEW n \in Nodes, NEW written \in Seq(Written),
         HubWrite(n, written), verified' = verified
  PROVE  lost' \subseteq TaskIds /\ \A m \in Nodes : outbox'[m] # <<>> => verified'[m]
<1>1. CASE verified[n]
  <2>1. outbox' = [outbox EXCEPT ![n] = @ \o written] /\ lost' = lost
    BY <1>1 DEF HubWrite
  <2>2. \A m \in Nodes \ {n} : outbox'[m] = outbox[m]
    BY <2>1 DEF JobsInv, ReportsOK
  <2>3. QED
    BY <1>1, <2>1, <2>2 DEF KeptOK
<1>2. CASE ~verified[n]
  <2>1. outbox' = outbox /\ lost' = lost \cup {r.id : r \in ToSet(written)}
    BY <1>2 DEF HubWrite
  <2>2. ASSUME NEW r \in ToSet(written) PROVE r.id \in TaskIds
    <3>1. r \in Written
      BY ToSetIs
    <3>2. QED
      BY <3>1 DEF Written
  <2>3. QED
    BY <2>1, <2>2 DEF KeptOK
<1>3. QED
  BY <1>1, <1>2

LEMMA HubKept ==
  ASSUME Inv, JobsInv, KeptOK, Scheduling \/ Stopping \/ \E n \in Nodes : Settling(n)
  PROVE  KeptOK'
<1>1. Leaves(outbox) /\ reports' = reports
  BY DEF Scheduling, Stopping, Settling, Alongside, jobs
<1>2. lost' \subseteq TaskIds /\ \A n \in Nodes : outbox'[n] # <<>> => verified'[n]
  BY <1>1, LeavesKept DEF JobsInv, ReportsOK, Written
<1>3. 1..lastId \subseteq TaskIds
  BY ConstantsAssumption DEF Inv, TypeOK, TaskIds
<1>4. excused' \subseteq TaskIds
  BY <1>3 DEF Scheduling, Stopping, Settling, KeptOK
<1>5. QED
  BY <1>1, <1>2, <1>4 DEF KeptOK

LEMMA ReadsKept ==
  ASSUME Inv, JobsInv, KeptOK, NEW n \in Nodes, HubReads(n)
  PROVE  KeptOK'
<1> DEFINE r == Head(outbox[n])
           reported == [outbox EXCEPT ![n] = Tail(@)]
<1>1. outbox \in [Nodes -> Seq(Written)] /\ outbox[n] # <<>>
  BY DEF JobsInv, ReportsOK, Written, HubReads
<1>2. Tail(outbox[n]) \in Seq(Written) /\ r \in Written
  <2>1. outbox[n] \in Seq(Written)
    BY <1>1
  <2>2. QED
    BY <1>1, <2>1
<1>3. reported \in [Nodes -> Seq(Written)]
  BY <1>1, <1>2
<1>4. Read(n)
  BY DEF HubReads, ReadsAlarm, ReadsDone, ReadsNoStorage, ReadsWithoutEffect, ReadsText
<1>5. Leaves(reported) /\ reports' = reports
  BY <1>4 DEF Read, jobs
<1>6. lost' \subseteq TaskIds /\ \A m \in Nodes : outbox'[m] # <<>> => verified'[m]
  BY <1>3, <1>5, LeavesKept
<1>7. excused' \subseteq excused \cup {r.id}
  BY DEF HubReads, ReadsAlarm, ReadsDone, ReadsNoStorage, ReadsWithoutEffect,
         ReadsText, Overwritten
<1>8. QED
  BY <1>2, <1>5, <1>6, <1>7 DEF KeptOK, Written

LEMMA ConnectionKept ==
  ASSUME Inv, JobsInv, KeptOK, NEW n \in Nodes, Reconnects(n) \/ Disconnects(n)
  PROVE  KeptOK'
<1>1. reports' = reports /\ excused' = excused
  BY DEF Reconnects, Disconnects, jobs
<1>2. outbox \in [Nodes -> Seq(Written)]
  BY DEF JobsInv, ReportsOK, Written
<1>3. CASE Disconnects(n)
  <2>1. Leaves(outbox)
    BY <1>3 DEF Disconnects
  <2>2. QED
    BY <1>1, <1>2, <2>1, LeavesKept DEF KeptOK
<1>4. CASE Reconnects(n)
  <2>1. /\ outbox' = [outbox EXCEPT ![n] = <<>>]
        /\ lost' = lost \cup {r.id : r \in ToSet(outbox[n])}
    BY <1>4 DEF Reconnects
  <2>2. ASSUME NEW r \in ToSet(outbox[n]) PROVE r.id \in TaskIds
    <3>1. r \in Written
      BY <1>2, ToSetIs
    <3>2. QED
      BY <3>1 DEF Written
  <2>3. lost' \subseteq TaskIds
    BY <2>1, <2>2 DEF KeptOK
  <2>4. \A m \in Nodes \ {n} : verified'[m] = verified[m]
    BY <1>4 DEF Reconnects, PutNodeOnline, Inv, TypeOK
  <2>5. outbox'[n] = <<>> /\ \A m \in Nodes \ {n} : outbox'[m] = outbox[m]
    BY <1>2, <2>1
  <2>6. QED
    BY <1>1, <2>3, <2>4, <2>5 DEF KeptOK
<1>5. QED
  BY <1>3, <1>4

LEMMA NodesKept ==
  ASSUME Inv, JobsInv, KeptOK, NEW n \in Nodes,
         \/ Listens(n)
         \/ \E t \in TaskIds :
              \/ Works(n, t) \/ Fails(n, t)
              \/ \E kind \in {"Warning", "Error", "storage"} : Reports(n, t, kind)
  PROVE  KeptOK'
<1>1. TypeOK
  BY DEF Inv
<1>2. CASE Listens(n)
  <2>1. reports' = reports /\ lost' = lost /\ outbox' = outbox /\ verified' = verified
    BY <1>2 DEF Listens, RunBackup, CancelTask, NodeReads
  <2>2. wire[n] # <<>> => Head(wire[n]).id \in TaskIds
    <3>1. wire[n] \in Seq(Messages)
      BY <1>1 DEF TypeOK
    <3>2. wire[n] # <<>> => Head(wire[n]) \in Messages
      BY <3>1
    <3>3. QED
      BY <3>2 DEF Messages
  <2>3. excused' \subseteq TaskIds
    BY <1>2, <2>2 DEF Listens, RunBackup, CancelTask, KeptOK
  <2>4. QED
    BY <2>1, <2>3 DEF KeptOK
<1>3. ASSUME NEW t \in TaskIds, Works(n, t) \/ Fails(n, t) PROVE KeptOK'
  <2>1. reports' = reports /\ excused' \subseteq excused \cup {t} /\ verified' = verified
    BY <1>3 DEF Works, Fails, Prepares, BackupDone, BackupRemoved, PrepareFails,
                ThreadFails, RunFails, vars, peers
  <2>2. \/ outbox' = outbox /\ lost' = lost
        \/ \E written \in Seq(Written) : HubWrite(n, written)
    <3>1. /\ <<Report("text", t)>> \in Seq(Written) /\ <<Report("Error", t)>> \in Seq(Written)
          /\ End(t) \in Seq(Written)
      BY DEF Report, End, Written
    <3>2. <<Report("text", t)>> \o End(t) \in Seq(Written)
      BY <3>1, ConcatProperties
    <3>3. QED
      BY <1>3, <3>1, <3>2
      DEF Works, Fails, Prepares, BackupDone, BackupRemoved, PrepareFails,
          ThreadFails, RunFails
  <2>3. lost' \subseteq TaskIds /\ \A m \in Nodes : outbox'[m] # <<>> => verified'[m]
    BY <1>1, <2>1, <2>2, HubWriteKept DEF KeptOK
  <2>4. QED
    BY <2>1, <2>3 DEF KeptOK
<1>4. ASSUME NEW t \in TaskIds, NEW kind \in {"Warning", "Error", "storage"},
             Reports(n, t, kind)
      PROVE  KeptOK'
  <2>1. /\ reports' \in 0..MaxReports /\ excused' = excused /\ verified' = verified
        /\ HubWrite(n, <<Report(kind, t)>>)
    BY <1>4, JobsAssumption DEF Reports, KeptOK, vars, peers
  <2>2. <<Report(kind, t)>> \in Seq(Written)
    BY DEF Report, Written
  <2>3. QED
    BY <1>1, <2>1, <2>2, HubWriteKept DEF KeptOK
<1>5. QED
  BY <1>2, <1>3, <1>4

\* Every variable keeps its type, and reports are under way only on connections
\* that are there, about tasks whose order the node has read: what Leaves and
\* HubWrite drop with a connection is all there was on it.
THEOREM JobsTypes == JobsSpec => []JobsTypeOK
<1>1. JobsInit => KeptOK
  BY JobsAssumption DEF JobsInit, KeptOK
<1>2. ASSUME Inv, JobsInv, KeptOK, [JobsNext]_allVars PROVE KeptOK'
  <2>1. CASE UNCHANGED allVars
    BY <1>2, <2>1 DEF KeptOK, allVars, jobs, vars, peers
  <2>2. CASE JobsNext
    BY <1>2, <2>2, HubKept, ReadsKept, ConnectionKept, NodesKept DEF JobsNext
  <2>3. QED
    BY <1>2, <2>1, <2>2
<1>3. Inv /\ JobsInv /\ KeptOK => JobsTypeOK
  <2>1. SUFFICES ASSUME Inv, JobsInv, KeptOK PROVE JobsTypeOK
    OBVIOUS
  <2>2. ASSUME NEW n \in Nodes, NEW r \in ToSet(outbox[n]) PROVE On(n, r.id)
    <3>1. outbox[n] \in Seq(Written)
      BY <2>1 DEF JobsInv, ReportsOK, Written
    <3>2. PICK i \in 1..Len(outbox[n]) : r = outbox[n][i]
      BY <3>1, ToSetIs
    <3>3. QED
      BY <2>1, <3>2 DEF JobsInv, ReportsOK
  <2>3. QED
    BY <2>1, <2>2 DEF JobsTypeOK, JobsInv, JobsOK, ReportsOK, KeptOK
<1>4. QED
  BY <1>1, <1>2, <1>3, JobsCorrect, PTL DEF JobsSpec

-----------------------------------------------------------------------------
(* A node does not work on two jobs of a backup set: the hub.              *)

\* The scheduler removes what has ended, and only that.
ClosesEnded ==
  pc[Scheduler] \in {"complete", "remove"} => task[tid[Scheduler]].run \in Ended

SetsNamed ==
  /\ pc[Scheduler] \in {"exists", "save"} => tset[Scheduler] # NoSet
  /\ pc[Scheduler] = "add" => task[tid[Scheduler]].set # NoSet
  /\ \A t \in Queued : task[t].set # NoSet

StartsLive == pc[Scheduler] = "start" => Live(tid[Scheduler])

SettlesReceived == \A n \in Nodes : pc[n] = "settle" => tid[n] \in received

HubInv == ClosesEnded /\ SetsNamed /\ StartsLive /\ SettlesReceived

\* A thread that settles has been settling.
NodesStay ==
  \A n \in Nodes : pc'[n] = "settle" => pc[n] = "settle" /\ tid'[n] = tid[n]

\* An order is written for a live task, and what was ordered stays alive.
OrderedStay ==
  /\ \A t \in TaskIds : Ordered(t)' => Ordered(t) \/ Live(t)'
  /\ \A t \in TaskIds : Ordered(t) /\ Live(t) => Live(t)'

\* The hub stops.
LEMMA DiesHub ==
  ASSUME TypeOK, Dies
  PROVE  HubInv' /\ NodesStay /\ ~Up' /\ lastId' = lastId
<1>1. /\ Queued' = {} /\ lastId' = lastId
      /\ pc' = [w \in Threads |-> IF w = Scheduler THEN "down"
                                  ELSE IF w \in Users THEN "idle" ELSE "reading"]
  BY DEF Dies, Queued, ToSet, database
<1>2. pc'[Scheduler] = "down" /\ \A n \in Nodes : pc'[n] = "reading"
  BY <1>1, ConstantsAssumption DEF Threads, Creators
<1>3. QED
  BY <1>1, <1>2
  DEF HubInv, ClosesEnded, SetsNamed, StartsLive, SettlesReceived, NodesStay, Up

LEMMA ScheduleHub ==
  ASSUME Inv, StartInv, HubInv, Schedule
  PROVE  /\ HubInv' /\ NodesStay
         /\ Up' => OrderedStay
         /\ ~Up' => lastId' = lastId
<1> USE ConstantsAssumption
    DEF memory, database, pass, peers, counters, threads, Goto, Return,
        Threads, Creators
<1>1. TypeOK /\ PassKeepsItsPlace
  BY DEF Inv
<1> DEFINE Apart == /\ received' = received
                    /\ \A n \in Nodes : pc'[n] = pc[n] /\ tid'[n] = tid[n]
<1>2. \A n \in Nodes : n # Scheduler
  OBVIOUS
<1>3. task \in [TaskIds -> TaskObjects] /\ queue \in Seq(1..lastId) /\ lastId \in Nat
  BY <1>1 DEF TypeOK
<1>4. /\ Queued = {queue[i] : i \in 1..Len(queue)} /\ Queued \subseteq 1..lastId
      /\ Queued \subseteq TaskIds
  <2>1. 1..lastId \subseteq TaskIds
    BY <1>1 DEF TypeOK, TaskIds
  <2>2. QED
    BY <1>3, <2>1, ToSetIs DEF Queued
<1>5. ASSUME Apart
      PROVE  NodesStay /\ SettlesReceived'
  BY <1>5 DEF NodesStay, HubInv, SettlesReceived
<1>6. ASSUME Apart, wire' = wire
      PROVE  \A t \in TaskIds : Ordered(t)' => Ordered(t)
  BY <1>6 DEF Ordered
<1>7. CASE \/ Recover \/ Poll \/ NoneDue \/ (\E b \in BackupSets : NextDue(b))
           \/ ScanEnds \/ ScanSkips \/ ScanFindsEnded \/ Complete
           \/ CreateRefused(Scheduler) \/ CreateAllowed(Scheduler)
           \/ CreateBounded(Scheduler) \/ StartNotSent(Scheduler)
  <2>1. /\ Apart /\ wire' = wire /\ queue' = queue /\ task' = task
        /\ pc'[Scheduler] \notin {"down", "add", "start"}
    BY <1>1, <1>2, <1>7
    DEF Recover, Poll, NoneDue, NextDue, ScanEnds, ScanSkips, ScanFindsEnded,
        Complete, CreateRefused, CreateAllowed, CreateBounded, StartNotSent,
        StartTaskReturns, AfterRefusal, TypeOK
  <2>2. ClosesEnded'
    <3>1. CASE ScanFindsEnded
      BY <1>1, <2>1, <3>1 DEF ScanFindsEnded, ClosesEnded, TypeOK
    <3>2. CASE Complete
      BY <1>1, <2>1, <3>2 DEF Complete, ClosesEnded, HubInv, TypeOK
    <3>3. CASE /\ ~ScanFindsEnded
               /\ ~Complete
      <4>1. pc'[Scheduler] \notin {"complete", "remove"}
        BY <1>1, <1>7, <3>3
        DEF Recover, Poll, NoneDue, NextDue, ScanEnds, ScanSkips,
            CreateRefused, CreateAllowed, CreateBounded, StartNotSent,
            StartTaskReturns, AfterRefusal, TypeOK
      <4>2. QED
        BY <2>1, <4>1 DEF ClosesEnded
    <3>4. QED
      BY <3>1, <3>2, <3>3
  <2>3. pc'[Scheduler] \in {"exists", "save"} => tset'[Scheduler] # NoSet
    <3>1. CASE \E b \in BackupSets : NextDue(b)
      BY <1>1, <3>1 DEF NextDue, TypeOK
    <3>2. CASE CreateAllowed(Scheduler)
      BY <1>1, <3>2 DEF CreateAllowed, HubInv, SetsNamed
    <3>3. CASE /\ ~\E b \in BackupSets : NextDue(b)
               /\ ~CreateAllowed(Scheduler)
      <4>1. pc'[Scheduler] \notin {"exists", "save"}
        BY <1>1, <1>7, <3>3
        DEF Recover, Poll, NoneDue, ScanEnds, ScanSkips, ScanFindsEnded, Complete,
            CreateRefused, CreateBounded, StartNotSent,
            StartTaskReturns, AfterRefusal, TypeOK
      <4>2. QED
        BY <4>1
    <3>4. QED
      BY <3>1, <3>2, <3>3
  <2>4. HubInv' /\ OrderedStay
    BY <1>5, <1>6, <2>1, <2>2, <2>3
    DEF HubInv, SetsNamed, StartsLive, OrderedStay, Live, Queued
  <2>5. QED
    BY <1>5, <2>1, <2>4 DEF Up
<1>8. CASE StartSends(Scheduler)
  <2>1. /\ Apart /\ queue' = queue /\ task' = task /\ tid' = tid
        /\ pc[Scheduler] = "start" /\ pc'[Scheduler] = "mark"
        /\ Send(Node(tid[Scheduler]), "STARTTASK", tid[Scheduler])
    BY <1>1, <1>2, <1>8 DEF StartSends, TypeOK
  <2>2. tid[Scheduler] \in TaskIds /\ ~Ordered(tid[Scheduler])
    BY <1>1, <2>1, TaskOf DEF AtRest, StartInv, StartsFresh
  <2>3. \A x \in TaskIds : Ordered(x)' => Ordered(x) \/ x = tid[Scheduler]
    BY <1>1, <2>1, <2>2, WireSent DEF Orders, StartInv
  <2>4. Live(tid[Scheduler])
    BY <2>1 DEF HubInv, StartsLive
  <2>5. OrderedStay
    BY <2>1, <2>3, <2>4 DEF OrderedStay, Live, Queued
  <2>6. HubInv'
    BY <1>5, <2>1 DEF HubInv, ClosesEnded, SetsNamed, StartsLive, Queued
  <2>7. QED
    BY <1>5, <2>1, <2>5, <2>6 DEF Up
<1>9. CASE CreateSaves(Scheduler)
  <2> DEFINE t0 == lastId + 1
  <2>1. /\ Apart /\ wire' = wire /\ queue' = queue /\ t0 \in TaskIds
        /\ task' = [task EXCEPT ![t0] =
             [set |-> tset[Scheduler], run |-> "PendingStart", status |-> "Ok"]]
        /\ pc[Scheduler] = "save" /\ pc'[Scheduler] = "add"
        /\ tid'[Scheduler] = t0 /\ tset[Scheduler] # NoSet
    BY <1>1, <1>2, <1>9 DEF CreateSaves, TypeOK, TaskIds, HubInv, SetsNamed
  <2>2. t0 \notin Queued
    BY <1>3, <1>4
  <2> HIDE DEF t0
  <2>3. /\ task'[t0].set = tset[Scheduler]
        /\ \A t \in TaskIds : t # t0 => task'[t] = task[t]
    BY <1>3, <2>1
  <2>4. Queued \subseteq TaskIds /\ Queued' = Queued
    BY <1>4, <2>1 DEF Queued
  <2>5. HubInv'
    BY <1>5, <2>1, <2>2, <2>3, <2>4
    DEF HubInv, ClosesEnded, SetsNamed, StartsLive
  <2>6. OrderedStay
    BY <1>6, <2>1, <2>2, <2>3, <2>4 DEF OrderedStay, Live
  <2>7. QED
    BY <1>5, <2>1, <2>5, <2>6 DEF Up
<1>10. CASE CreateAdds(Scheduler)
  <2> DEFINE t0 == tid[Scheduler]
  <2>1. /\ Apart /\ wire' = wire /\ task' = task /\ queue' = Append(queue, t0)
        /\ pc[Scheduler] = "add" /\ pc'[Scheduler] = "create"
        /\ task[t0].set # NoSet
    BY <1>1, <1>2, <1>10
    DEF CreateAdds, CreateTaskReturns, Enqueue, TypeOK, HubInv, SetsNamed
  <2>2. t0 \in 1..lastId
    BY <1>1, <2>1, TaskOf DEF AtRest
  <2> HIDE DEF t0
  <2>3. Queued' = Queued \cup {t0}
    <3>1. /\ Len(queue') = Len(queue) + 1 /\ Len(queue) \in Nat
          /\ \A i \in 1..Len(queue) : queue'[i] = queue[i]
          /\ queue'[Len(queue) + 1] = t0 /\ queue' \in Seq(1..lastId)
      BY <1>3, <2>1, <2>2
    <3>2. /\ Queued = {queue[i] : i \in 1..Len(queue)}
          /\ Queued' = {queue'[i] : i \in 1..Len(queue')}
      BY <1>4, <3>1, ToSetIs DEF Queued
    <3>3. QED
      BY <3>1, <3>2
  <2>4. HubInv'
    BY <1>5, <2>1, <2>3 DEF HubInv, ClosesEnded, SetsNamed, StartsLive
  <2>5. OrderedStay
    BY <1>6, <2>1, <2>3 DEF OrderedStay, Live
  <2>6. QED
    BY <1>5, <2>1, <2>4, <2>5 DEF Up
<1>11. CASE ScanFindsPending
  <2> DEFINE t0 == queue[idx]
  <2>1. /\ Apart /\ wire' = wire /\ queue' = queue /\ pc'[Scheduler] = "start"
        /\ tid'[Scheduler] = t0 /\ task[t0].run = "PendingStart"
        /\ task' = [task EXCEPT ![t0].status = "Ok"]
    BY <1>1, <1>2, <1>11 DEF ScanFindsPending, IsToStart, TypeOK
  <2>2. t0 \in Queued /\ t0 \in TaskIds /\ Queued \subseteq TaskIds
    <3>1. idx \in 1..Len(queue)
      BY <1>1, <1>3, <1>11 DEF ScanFindsPending, PassKeepsItsPlace, TypeOK
    <3>2. QED
      BY <1>4, <3>1
  <2> HIDE DEF t0
  <2>3. \A x \in TaskIds : task'[x].set = task[x].set /\ task'[x].run = task[x].run
    BY <1>3, <2>1 DEF TaskObjects
  <2>4. HubInv'
    BY <1>5, <2>1, <2>2, <2>3
    DEF HubInv, ClosesEnded, SetsNamed, StartsLive, Live, Queued
  <2>5. OrderedStay
    BY <1>6, <2>1, <2>3 DEF OrderedStay, Live, Queued
  <2>6. QED
    BY <1>5, <2>1, <2>4, <2>5 DEF Up
<1>12. CASE \/ StartUnreachable(Scheduler) \/ StartOverQuota(Scheduler)
            \/ StartMarks(Scheduler) \/ ScanMarks
  <2> DEFINE t0 == tid[Scheduler]
  <2>1. /\ Apart /\ wire' = wire /\ queue' = queue
        /\ pc'[Scheduler] \in {"scan", "marked"}
    BY <1>1, <1>2, <1>12
    DEF StartUnreachable, StartOverQuota, StartMarks, StartTaskReturns, ScanMarks,
        TypeOK
  <2>2. \/ task' = task
        \/ task' = [task EXCEPT ![t0].run = "Started"]
        \/ /\ pc[Scheduler] = "start"
           /\ \/ task' = [task EXCEPT ![t0].status = "Warning"]
              \/ task' = [task EXCEPT ![t0].status = "Error", ![t0].run = "Error"]
    BY <1>12
    DEF StartUnreachable, StartOverQuota, StartMarks, ScanMarks, MarkStarted, SetRun
  <2>3. pc[Scheduler] = "start" => ~Ordered(t0)
    BY DEF StartInv, StartsFresh
  <2> HIDE DEF t0
  <2>4. \A x \in TaskIds :
          /\ task'[x].set = task[x].set
          /\ \/ task'[x].run \in {task[x].run, "Started"}
             \/ ~Ordered(x)
    <3>1. SUFFICES ASSUME NEW x \in TaskIds
                   PROVE  /\ task'[x].set = task[x].set
                          /\ \/ task'[x].run \in {task[x].run, "Started"}
                             \/ ~Ordered(x)
      OBVIOUS
    <3>2. CASE task' = task
      BY <3>2
    <3>3. CASE task' = [task EXCEPT ![t0].run = "Started"]
      BY <1>3, <3>3 DEF TaskObjects
    <3>4. CASE task' = [task EXCEPT ![t0].status = "Warning"]
      BY <1>3, <3>4 DEF TaskObjects
    <3>5. CASE /\ pc[Scheduler] = "start"
               /\ task' = [task EXCEPT ![t0].status = "Error", ![t0].run = "Error"]
      <4>1. task'[x].set = task[x].set /\ (x # t0 => task'[x] = task[x])
        BY <1>3, <3>5 DEF TaskObjects
      <4>2. QED
        BY <2>3, <3>5, <4>1
    <3>6. QED
      BY <2>2, <3>2, <3>3, <3>4, <3>5
  <2>5. Queued \subseteq TaskIds
    BY <1>4
  <2>6. HubInv'
    BY <1>5, <2>1, <2>4, <2>5 DEF HubInv, ClosesEnded, SetsNamed, StartsLive, Queued
  <2>7. OrderedStay
    BY <1>6, <2>1, <2>4 DEF OrderedStay, Live, Queued
  <2>8. QED
    BY <1>5, <2>1, <2>6, <2>7 DEF Up
<1>13. CASE Removes
  <2>1. /\ Apart /\ wire' = wire /\ TakeOut(idx) /\ idx \in 1..Len(queue)
        /\ pc'[Scheduler] = "scan" /\ queue[idx] = tid[Scheduler]
        /\ task[tid[Scheduler]].run \in Ended
    BY <1>1, <1>2, <1>13
    DEF Removes, TypeOK, PassKeepsItsPlace, HubInv, ClosesEnded
  <2>2. /\ queue' = RemoveAt(queue, idx) /\ SetKept
        /\ \A x \in TaskIds : x # queue[idx] => task'[x] = task[x]
    BY <1>1, <2>1, TakeOutKeeps
  <2>3. Queued' \subseteq Queued
    BY <1>1, <2>1, <2>2, RemovedFrom
  <2>4. \A x \in Queued : x # queue[idx] => x \in Queued'
    <3>1. /\ queue' \in Seq(1..lastId) /\ Len(queue') = Len(queue) - 1
          /\ Len(queue) \in Nat
          /\ \A j \in 1..Len(queue) - 1 :
               queue'[j] = IF j < idx THEN queue[j] ELSE queue[j + 1]
      <4>1. queue \in Seq(1..lastId) /\ idx \in 1..Len(queue) /\ queue' = RemoveAt(queue, idx)
        BY <1>3, <2>1, <2>2
      <4>2. /\ RemoveAt(queue, idx) \in Seq(1..lastId)
            /\ Len(RemoveAt(queue, idx)) = Len(queue) - 1
            /\ \A j \in 1..Len(queue) - 1 :
                 RemoveAt(queue, idx)[j] = IF j < idx THEN queue[j] ELSE queue[j + 1]
        BY ONLY <4>1, RemoveAtLemma
      <4>3. QED
        BY ONLY <4>1, <4>2
    <3>2. ASSUME NEW k \in 1..Len(queue), k # idx
          PROVE  \E j \in 1..Len(queue') : queue'[j] = queue[k]
      <4>1. CASE k < idx
        <5>1. k \in 1..Len(queue) - 1 /\ idx \in 1..Len(queue)
          BY <2>1, <3>1, <4>1
        <5>2. queue'[k] = queue[k]
          BY <3>1, <4>1, <5>1
        <5>3. QED
          BY <3>1, <5>1, <5>2
      <4>2. CASE k > idx
        <5>1. k - 1 \in 1..Len(queue) - 1 /\ ~(k - 1 < idx) /\ (k - 1) + 1 = k
          BY <2>1, <3>1, <4>2
        <5>2. queue'[k - 1] = queue[k]
          BY <3>1, <5>1
        <5>3. QED
          BY <3>1, <5>1, <5>2
      <4>3. QED
        BY <2>1, <3>1, <3>2, <4>1, <4>2
    <3>3. Queued' = {queue'[j] : j \in 1..Len(queue')}
      BY <3>1, ToSetIs DEF Queued
    <3>4. QED
      BY <1>4, <3>2, <3>3
  <2>5. Queued \subseteq TaskIds
    BY <1>4
  <2>6. HubInv'
    BY <1>5, <2>1, <2>2, <2>3, <2>5
    DEF HubInv, ClosesEnded, SetsNamed, StartsLive, SetKept
  <2>7. OrderedStay
    BY <1>6, <2>1, <2>2, <2>4 DEF OrderedStay, Live, Ended
  <2>8. QED
    BY <1>5, <2>1, <2>6, <2>7 DEF Up
<1>14. CASE TaskEventFails
  BY <1>1, <1>14, DiesHub DEF TaskEventFails
<1>15. QED
  BY <1>7, <1>8, <1>9, <1>10, <1>11, <1>12, <1>13, <1>14
  DEF Schedule, Create, StartTask

\* Another thread of the hub, or a connection: at most the end of a started
\* task's run is noted.
LEMMA AsideHub ==
  ASSUME Inv, StartInv, HubInv, Aside, SetKept, received \subseteq received',
         \A t \in TaskIds : \/ task'[t].run = task[t].run
                            \/ t \in received /\ task'[t].run \in Ended,
         \A n \in Nodes : pc'[n] = "settle" => tid'[n] \in received'
  PROVE  HubInv'
<1>1. Queued' = Queued /\ Queued \subseteq TaskIds
  <2>1. queue \in Seq(1..lastId) /\ 1..lastId \subseteq TaskIds
    BY ConstantsAssumption DEF Inv, TypeOK, TaskIds
  <2>2. QED
    BY <2>1, ToSetIs DEF Queued, Aside
<1>2. /\ pc'[Scheduler] = pc[Scheduler] /\ tid'[Scheduler] = tid[Scheduler]
      /\ tset'[Scheduler] = tset[Scheduler]
  BY DEF Aside
<1>3. ASSUME pc[Scheduler] \in {"add", "start", "complete", "remove"}
      PROVE  tid[Scheduler] \in TaskIds
  BY <1>3, TaskOf DEF Inv, AtRest, Threads, Creators
<1>4. ClosesEnded'
  BY <1>2, <1>3 DEF HubInv, ClosesEnded
<1>5. SetsNamed'
  BY <1>1, <1>2, <1>3 DEF HubInv, SetsNamed, SetKept
<1>6. StartsLive'
  <2>1. SUFFICES ASSUME pc[Scheduler] = "start"
                 PROVE  Live(tid[Scheduler])'
    BY <1>2 DEF StartsLive
  <2>2. tid[Scheduler] \notin received /\ Live(tid[Scheduler])
    BY <2>1 DEF StartInv, StartsFresh, Ordered, HubInv, StartsLive
  <2>3. QED
    BY <1>1, <1>2, <1>3, <2>1, <2>2 DEF Live
<1>7. QED
  BY <1>4, <1>5, <1>6 DEF HubInv, SettlesReceived

-----------------------------------------------------------------------------
(* The invariant.                                                          *)

\* A job whose end is being settled is over.
SettlesOver == \A n \in Nodes : pc[n] = "settle" => ~OnNode(tid[n])

\* The task whose order is on its way, or whose job is prepared, is alive on the
\* hub: the job is not in currentJobs yet, the task holds its set's place.
Awaited(t) == Ordered(t) /\ (t \in received => job[t] = "preparing")
AwaitedLive == \A t \in TaskIds \ excused : Awaited(t) => Live(t)

ApartInv == HubInv /\ SettlesOver /\ AwaitedLive /\ OneJobPerSet

\* A step that starts no job.
LEMMA NoJobStarts ==
  ASSUME TypeOK, JobsInv, OneJobPerSet, received \subseteq received',
         \A t \in received : setOf'[t] = setOf[t], excused \subseteq excused',
         \A t \in TaskIds : OnNode(t)' => OnNode(t)
  PROVE  OneJobPerSet'
<1>1. \A t \in TaskIds : OnNode(t) => t \in received
  BY DEF JobsInv, JobsOK, OnNode
<1>2. QED
  BY <1>1 DEF OneJobPerSet

\* A step of the hub that reads no report.
LEMMA AlongsideApart ==
  ASSUME TypeOK, JobsInv, ApartInv, HubInv', StartedKept, Alongside, TypeOK',
         NodesStay, excused \subseteq excused', AwaitedLive'
  PROVE  ApartInv'
<1>1. \A t \in received : setOf'[t] = setOf[t]
  BY SetsStay
<1>2. job' = job /\ received' = received
  BY DEF Alongside, jobs, StartedKept
<1>3. OneJobPerSet'
  BY <1>1, <1>2, NoJobStarts DEF ApartInv, OnNode
<1>4. SettlesOver'
  BY <1>2 DEF ApartInv, SettlesOver, NodesStay, OnNode
<1>5. QED
  BY <1>3, <1>4 DEF ApartInv

LEMMA SchedulingApart ==
  ASSUME Inv, StartInv, JobsInv, ApartInv, Inv', StartInv', Scheduling
  PROVE  ApartInv'
<1>1. TypeOK /\ TypeOK' /\ Schedule /\ Alongside
  BY DEF Inv, Scheduling
<1>2. HubKeeps
  BY <1>1, ScheduleHubKeeps
<1>3. /\ HubInv' /\ NodesStay
      /\ Up' => OrderedStay
      /\ ~Up' => lastId' = lastId
  BY <1>1, ScheduleHub DEF ApartInv
<1>4. job' = job /\ received' = received
  BY <1>1, <1>2 DEF Alongside, jobs, HubKeeps, StartedKept
<1>5. CASE Up'
  <2>1. excused' = excused
    BY <1>5 DEF Scheduling
  <2>2. AwaitedLive'
    BY <1>3, <1>4, <1>5, <2>1 DEF OrderedStay, AwaitedLive, ApartInv, Awaited
  <2>3. QED
    BY <1>1, <1>2, <1>3, <2>1, <2>2, AlongsideApart DEF HubKeeps
<1>6. CASE ~Up'
  <2>1. excused' = 1..lastId /\ lastId' = lastId
    BY <1>3, <1>6 DEF Scheduling
  <2>2. \A t \in TaskIds : Ordered(t)' => t \in excused'
    BY <2>1 DEF StartInv, StartsFresh
  <2>3. AwaitedLive'
    BY <2>2 DEF AwaitedLive, Awaited
  <2>4. OneJobPerSet'
    <3>1. \A t \in TaskIds : OnNode(t)' => t \in excused'
      BY <1>4, <2>2 DEF JobsInv, JobsOK, OnNode, Ordered
    <3>2. QED
      BY <3>1 DEF OneJobPerSet
  <2>5. SettlesOver'
    BY <1>3, <1>4 DEF ApartInv, SettlesOver, NodesStay, OnNode
  <2>6. QED
    BY <1>3, <2>3, <2>4, <2>5 DEF ApartInv
<1>7. QED
  BY <1>5, <1>6

LEMMA StoppingApart ==
  ASSUME Inv, StartInv, JobsInv, ApartInv, StartInv', Stopping
  PROVE  ApartInv'
<1>1. TypeOK
  BY DEF Inv
<1>2. /\ HubInv' /\ NodesStay /\ lastId' = lastId /\ received' = received
  <2>1. CASE HubCrash
    BY <1>1, <2>1, DiesHub DEF HubCrash, Dies
  <2>2. CASE HubRestart
    <3>1. /\ queue' = queue /\ received' = received /\ task' = task /\ lastId' = lastId
          /\ tid' = tid /\ pc'[Scheduler] = "recover"
          /\ \A n \in Nodes : pc'[n] = pc[n]
      BY <1>1, <2>2, ConstantsAssumption
      DEF HubRestart, Goto, TypeOK, Threads, Creators, memory, database
    <3>2. QED
      BY <3>1
      DEF ApartInv, HubInv, ClosesEnded, SetsNamed, StartsLive, SettlesReceived,
          NodesStay, Queued
  <2>3. QED
    BY <2>1, <2>2 DEF Stopping
<1>3. job' = job /\ excused' = 1..lastId
  BY DEF Stopping, Alongside, jobs
<1>4. \A t \in TaskIds : Ordered(t)' => t \in excused'
  BY <1>2, <1>3 DEF StartInv, StartsFresh
<1>5. AwaitedLive'
  BY <1>4 DEF AwaitedLive, Awaited
<1>6. OneJobPerSet'
  <2>1. \A t \in TaskIds : OnNode(t)' => t \in excused'
    BY <1>2, <1>3, <1>4 DEF JobsInv, JobsOK, OnNode, Ordered
  <2>2. QED
    BY <2>1 DEF OneJobPerSet
<1>7. SettlesOver'
  BY <1>2, <1>3 DEF ApartInv, SettlesOver, NodesStay, OnNode
<1>8. QED
  BY <1>2, <1>5, <1>6, <1>7 DEF ApartInv

\* A step of the thread of a node's connection: it ends the run only of a task
\* whose job has entered currentJobs.
LEMMA BesideApart ==
  ASSUME Inv, StartInv, JobsInv, ApartInv, Beside,
         received' = received, job' = job, excused \subseteq excused',
         \A t \in received : setOf'[t] = setOf[t],
         \A t \in TaskIds :
           \/ task'[t].run = task[t].run
           \/ t \in received /\ job[t] # "preparing" /\ task'[t].run \in Ended,
         \A n \in Nodes : pc'[n] = "settle" =>
           tid'[n] \in received /\ ~OnNode(tid'[n])
  PROVE  ApartInv'
<1>1. Aside /\ SetKept /\ \A t \in TaskIds : Ordered(t)' => Ordered(t)
  BY DEF Beside, NoneOrdered
<1>2. TypeOK
  BY DEF Inv
<1>3. HubInv'
  BY <1>1, AsideHub DEF ApartInv
<1>4. OneJobPerSet'
  BY <1>2, NoJobStarts DEF ApartInv, OnNode
<1>5. SettlesOver'
  BY DEF SettlesOver, OnNode
<1>6. AwaitedLive'
  <2>1. SUFFICES ASSUME NEW t \in TaskIds, t \notin excused, Awaited(t)'
                 PROVE  Live(t)'
    BY DEF AwaitedLive
  <2>2. Awaited(t) /\ (t \in received => job[t] = "preparing")
    BY <1>1, <2>1 DEF Awaited
  <2>3. Live(t) /\ task'[t].run = task[t].run
    BY <2>1, <2>2 DEF ApartInv, AwaitedLive
  <2>4. QED
    BY <1>1, <2>3 DEF Live, Aside, Queued
<1>7. QED
  BY <1>3, <1>4, <1>5, <1>6 DEF ApartInv

LEMMA SettlingApart ==
  ASSUME Inv, StartInv, JobsInv, ApartInv, TypeOK', NEW n \in Nodes, Settling(n)
  PROVE  ApartInv'
<1> USE ConstantsAssumption DEF threads, Goto, Return, Threads, Creators
<1>1. TypeOK /\ Settle(n) /\ Alongside
  BY DEF Inv, Settling
<1>2. Beside
  BY <1>1, NodeBeside DEF Handle
<1>3. HubKeeps
  BY <1>1, SettleHubKeeps
<1>4. /\ received' = received /\ job' = job /\ excused' = excused
      /\ \A t \in received : setOf'[t] = setOf[t]
  BY <1>1, <1>3, SetsStay DEF HubKeeps, StartedKept, Alongside, jobs, Settling
<1>5. /\ pc[n] = "settle" /\ pc'[n] = "reading" /\ verdict[n] \in Ended
      /\ \A m \in Nodes \ {n} : pc'[m] = pc[m] /\ tid'[m] = tid[m]
      /\ SetRunIfQueued(tid[n], verdict[n])
  BY <1>1 DEF Settle, TypeOK
<1>6. tid[n] \in received /\ ~OnNode(tid[n])
  BY <1>5 DEF ApartInv, HubInv, SettlesReceived, SettlesOver
<1>7. ASSUME NEW t \in TaskIds
      PROVE  \/ task'[t].run = task[t].run
             \/ t \in received /\ job[t] # "preparing" /\ task'[t].run \in Ended
  <2> DEFINE x == tid[n]
             v == verdict[n]
  <2>1. task \in [TaskIds -> TaskObjects]
    BY <1>1 DEF TypeOK
  <2>2. x \in received /\ ~OnNode(x) /\ v \in Ended
    BY <1>5, <1>6
  <2>3. task' = task \/ task' = [task EXCEPT ![x].run = v]
    BY <1>5 DEF SetRunIfQueued, SetRun
  <2> HIDE DEF x, v
  <2>4. task'[t].run = task[t].run \/ (t = x /\ task'[t].run = v)
    BY <2>1, <2>3 DEF TaskObjects
  <2>5. QED
    BY <2>2, <2>4 DEF OnNode
<1>8. ASSUME NEW m \in Nodes, pc'[m] = "settle"
      PROVE  tid'[m] \in received /\ ~OnNode(tid'[m])
  BY <1>5, <1>8 DEF ApartInv, HubInv, SettlesReceived, SettlesOver
<1>9. QED
  BY <1>2, <1>4, <1>7, <1>8, BesideApart

LEMMA ConnectionApart ==
  ASSUME Inv, StartInv, JobsInv, ApartInv, NEW n \in Nodes,
         Reconnects(n) \/ Disconnects(n)
  PROVE  ApartInv'
<1> USE DEF memory, threads
<1>1. Connection(n)
  BY DEF Reconnects, Disconnects, Connection
<1>2. Beside
  BY <1>1, NodeBeside
<1>3. /\ task' = task /\ pc' = pc /\ tid' = tid /\ received' = received
      /\ job' = job /\ excused' = excused /\ setOf' = setOf
  BY DEF Reconnects, Disconnects, PutNodeOnline, ClearNode, HandleOfflineNode,
         ApproveNode, jobs
<1>4. \A m \in Nodes : pc'[m] = "settle" => tid'[m] \in received /\ ~OnNode(tid'[m])
  BY <1>3 DEF ApartInv, HubInv, SettlesReceived, SettlesOver
<1>5. QED
  BY <1>2, <1>3, <1>4, BesideApart

\* A report is read: the end of a run is noted only of a task whose job is over,
\* or asks for storage and so is in currentJobs.
LEMMA ReadsApart ==
  ASSUME Inv, StartInv, JobsInv, ApartInv, NEW n \in Nodes, HubReads(n)
  PROVE  ApartInv'
<1> USE ConstantsAssumption DEF memory, threads, Goto, Threads, Creators
<1> DEFINE r == Head(outbox[n])
<1>1. TypeOK
  BY DEF Inv
<1>2. /\ r = outbox[n][1] /\ 1 \in 1..Len(outbox[n]) /\ Read(n)
      /\ \/ ReadsAlarm(n, r) \/ ReadsDone(n, r) \/ ReadsNoStorage(n, r)
         \/ ReadsWithoutEffect(n, r) \/ ReadsText(n, r)
  BY DEF HubReads, ReadsAlarm, ReadsDone, ReadsNoStorage, ReadsWithoutEffect, ReadsText,
         JobsInv, ReportsOK
<1>3. /\ r.kind = "done" => ~OnNode(r.id)
      /\ r.kind = "storage" => Begun(r.id)
  BY <1>2 DEF JobsInv, ReportsOK
<1> HIDE DEF r
<1>4. job' = job /\ setOf' = setOf
  BY <1>2 DEF Read, jobs
<1>5. \A m \in Nodes : pc[m] = "settle" => tid[m] \in received /\ ~OnNode(tid[m])
  BY DEF ApartInv, HubInv, SettlesReceived, SettlesOver
<1>6. CASE ReadsAlarm(n, r)
  <2>1. /\ received' = received /\ pc' = pc /\ tid' = tid /\ r.id \in TaskIds
        /\ task' = [task EXCEPT ![r.id].status = r.kind]
        /\ HandleTask(n, r.id, r.kind) /\ r.kind \in {"Warning", "Error"}
        /\ excused' = excused
    BY <1>1, <1>6 DEF ReadsAlarm, HandleTask, Handles, TypeOK
  <2>2. Beside
    BY <2>1, NodeBeside DEF Handle
  <2>3. \A t \in TaskIds : task'[t].run = task[t].run
    BY <1>1, <2>1 DEF TypeOK, TaskObjects
  <2>4. QED
    BY <1>4, <1>5, <2>1, <2>2, <2>3, BesideApart
<1>7. CASE ReadsDone(n, r)
  <2>1. /\ received' = received /\ task' = task /\ r.id \in TaskIds
        /\ HandleTaskDone(n, r.id) /\ r.kind = "done" /\ r.id \in received
        /\ excused \subseteq excused' /\ tid'[n] = r.id
        /\ \A m \in Nodes \ {n} : pc'[m] = pc[m] /\ tid'[m] = tid[m]
    BY <1>1, <1>7 DEF ReadsDone, HandleTaskDone, Handles, Overwritten, TypeOK
  <2>2. Beside
    BY <2>1, NodeBeside DEF Handle
  <2>3. \A m \in Nodes : pc'[m] = "settle" => tid'[m] \in received /\ ~OnNode(tid'[m])
    BY <1>3, <1>5, <2>1
  <2>4. QED
    BY <1>4, <2>1, <2>2, <2>3, BesideApart
<1>8. CASE ReadsNoStorage(n, r)
  <2>1. /\ received' = received /\ pc' = pc /\ tid' = tid /\ r.id \in TaskIds
        /\ task' = [task EXCEPT ![r.id].status = "Error", ![r.id].run = "Cancelled"]
        /\ HandleNoStorage(n, r.id) /\ r.kind = "storage" /\ r.id \in received
        /\ excused \subseteq excused'
    BY <1>1, <1>8 DEF ReadsNoStorage, HandleNoStorage, Handles, Overwritten, TypeOK
  <2>2. Beside
    BY <2>1, NodeBeside DEF Handle
  <2>3. ASSUME NEW t \in TaskIds
        PROVE  \/ task'[t].run = task[t].run
               \/ t \in received /\ job[t] # "preparing" /\ task'[t].run \in Ended
    <3>1. task'[t].run = task[t].run \/ (t = r.id /\ task'[t].run = "Cancelled")
      BY <1>1, <2>1 DEF TypeOK, TaskObjects
    <3>2. QED
      BY <1>3, <2>1, <3>1 DEF Begun, Ended
  <2>4. QED
    BY <1>4, <1>5, <2>1, <2>2, <2>3, BesideApart
<1>9. CASE ReadsText(n, r)
  <2>1. /\ ClearNode(n) /\ excused' = excused
    BY <1>9 DEF ReadsText
  <2>2. Beside
    BY <2>1, NodeBeside DEF Connection
  <2>3. task' = task /\ pc' = pc /\ tid' = tid /\ received' = received
    BY <2>1 DEF ClearNode
  <2>4. QED
    BY <1>4, <1>5, <2>1, <2>2, <2>3, BesideApart
<1>10. CASE ReadsWithoutEffect(n, r)
  <2>1. UNCHANGED vars /\ excused' = excused
    BY <1>10 DEF ReadsWithoutEffect
  <2>2. /\ Aside /\ SetKept /\ NoneReopened /\ AlarmKept /\ NoneRevived /\ UsersQuiet'
        /\ task' = task /\ pc' = pc /\ tid' = tid /\ received' = received
    BY <2>1
    DEF vars, database, Aside, SetKept, NoneReopened, AlarmKept, NoneRevived,
        StartInv, UsersQuiet
  <2>3. NoneOrdered
    BY <2>1, WireSame DEF vars, peers, StartInv
  <2>4. Beside
    BY <2>2, <2>3 DEF Beside
  <2>5. QED
    BY <1>4, <1>5, <2>1, <2>2, <2>4, BesideApart
<1>11. QED
  BY <1>2, <1>6, <1>7, <1>8, <1>9, <1>10

-----------------------------------------------------------------------------
(* The nodes.                                                              *)

\* A node leaves the hub alone and starts no job.
LEMMA NodeApart ==
  ASSUME Inv, JobsInv, ApartInv, UNCHANGED vars, setOf' = setOf,
         excused \subseteq excused',
         \A t \in TaskIds : /\ OnNode(t)' => OnNode(t)
                            /\ job'[t] = "preparing" => job[t] = "preparing"
  PROVE  ApartInv'
<1> USE DEF vars, memory, database, threads, peers
<1>1. HubInv'
  BY DEF ApartInv, HubInv, ClosesEnded, SetsNamed, StartsLive, SettlesReceived, Live,
         Queued
<1>2. SettlesOver'
  <2>1. received \subseteq TaskIds
    BY DEF Inv, TypeOK
  <2>2. \A n \in Nodes : pc[n] = "settle" => tid[n] \in TaskIds /\ ~OnNode(tid[n])
    BY <2>1 DEF ApartInv, HubInv, SettlesReceived, SettlesOver
  <2>3. \A n \in Nodes : pc[n] = "settle" => ~OnNode(tid[n])'
    BY <2>2
  <2>4. QED
    BY <2>3 DEF SettlesOver
<1>3. AwaitedLive'
  BY DEF ApartInv, AwaitedLive, Awaited, Ordered, Live, Queued
<1>4. OneJobPerSet'
  BY NoJobStarts DEF ApartInv, Inv
<1>5. QED
  BY <1>1, <1>2, <1>3, <1>4 DEF ApartInv

\* The order to start a task is taken up only if no job of the set is in
\* currentJobs; and a job in preparation would be alive on the hub as the task
\* is.
LEMMA ListensApart ==
  ASSUME Inv, StartInv, JobsInv, LiveInv, ApartInv, NEW n \in Nodes, Listens(n)
  PROVE  ApartInv'
<1> DEFINE t == Head(wire[n]).id
<1> USE DEF memory, threads
<1>1. /\ TypeOK /\ wire[n] # <<>> /\ NodeReads(n) /\ wire \in [Nodes -> Seq(Messages)]
      /\ received \subseteq TaskIds
  BY DEF Listens, RunBackup, CancelTask, Inv, TypeOK
<1>2. Head(wire[n]) = wire[n][1] /\ 1 \in 1..Len(wire[n]) /\ t \in TaskIds
  <2>1. Head(wire[n]) = wire[n][1] /\ 1 \in 1..Len(wire[n]) /\ wire[n][1] \in Messages
    BY <1>1
  <2>2. QED
    BY <2>1 DEF Messages
<1>3. /\ queue' = queue /\ task' = task /\ pc' = pc /\ tid' = tid /\ setOf' = setOf
      /\ received' = IF Head(wire[n]).order = "STARTTASK"
                     THEN received \cup {t} ELSE received
      /\ excused \subseteq excused'
  BY DEF Listens, RunBackup, CancelTask, NodeReads
<1>4. Beside
  BY <1>1, NodeBeside DEF Connection
<1>5. HubInv'
  <2>1. \A m \in Nodes : pc'[m] = "settle" => tid'[m] \in received'
    BY <1>3 DEF ApartInv, HubInv, SettlesReceived
  <2>2. QED
    BY <1>3, <1>4, <2>1, AsideHub DEF Beside, ApartInv
<1>6. \A x \in TaskIds : Ordered(x)' => Ordered(x)
  BY <1>4 DEF Beside, NoneOrdered
<1>7. CASE RunBackup(n)
  <2>1. /\ IsStart(wire[n][1]) /\ Head(wire[n]).order = "STARTTASK"
        /\ \/ Refuses(t) /\ excused' = excused \cup {t} /\ job' = job
           \/ ~Refuses(t) /\ excused' = excused
                /\ job' = [job EXCEPT ![t] = "preparing"]
    BY <1>2, <1>7 DEF RunBackup, IsStart
  <2>2. t \notin received /\ Ordered(t)
    BY <1>2, <2>1 DEF StartInv, OrderedOnce, Ordered
  <2>3. received' = received \cup {t}
    BY <1>3, <2>1
  <2> HIDE DEF t
  <2>4. t \notin excused => Live(t)
    BY <1>2, <2>2 DEF ApartInv, AwaitedLive, Awaited
  <2>5. /\ job \in [TaskIds -> {"none", "preparing", "running", "broken", "failed",
                                "leaving", "cancelled", "done"}]
        /\ \A x \in TaskIds : x \notin received => job[x] = "none"
        /\ \A x \in TaskIds : task[x].set # NoSet => setOf[x] = task[x].set
    BY DEF JobsInv, JobsOK
  <2>6. \A x \in TaskIds : x # t => job'[x] = job[x]
    BY <2>1, <2>5
  <2>7. SettlesOver'
    <3>1. ASSUME NEW m \in Nodes, pc[m] = "settle"
          PROVE  ~OnNode(tid[m])'
      <4>1. tid[m] \in received /\ ~OnNode(tid[m])
        BY <3>1 DEF ApartInv, HubInv, SettlesReceived, SettlesOver
      <4>2. QED
        BY <1>1, <1>3, <2>2, <2>6, <4>1 DEF OnNode
    <3>2. QED
      BY <1>3, <3>1 DEF SettlesOver
  <2>8. AwaitedLive'
    <3>1. SUFFICES ASSUME NEW x \in TaskIds, x \notin excused', Awaited(x)'
                   PROVE  Live(x)'
      BY DEF AwaitedLive
    <3>2. Live(x)
      <4>1. CASE x = t
        BY <1>3, <2>4, <3>1, <4>1
      <4>2. CASE x # t
        <5>1. Awaited(x)
          BY <1>6, <2>3, <2>6, <3>1, <4>2 DEF Awaited
        <5>2. QED
          BY <1>3, <3>1, <5>1 DEF ApartInv, AwaitedLive
      <4>3. QED
        BY <4>1, <4>2
    <3>3. QED
      BY <1>3, <3>2 DEF Live, Queued
  <2>9. OneJobPerSet'
    <3>1. CASE Refuses(t) /\ job' = job
      <4>1. OneJobPerSet /\ \A x \in TaskIds : OnNode(x)' => OnNode(x)
        BY <3>1 DEF ApartInv, OnNode
      <4>2. QED
        BY <1>3, <4>1 DEF OneJobPerSet
    <3>2. CASE ~Refuses(t) /\ excused' = excused
      <4>1. ASSUME NEW x \in TaskIds, x \notin excused, x # t, t \notin excused, OnNode(x),
                   setOf[x] = setOf[t]
            PROVE  FALSE
        <5>1. job[x] = "preparing" /\ x \in received
          BY <1>2, <2>5, <3>2, <4>1 DEF Refuses, Registered, OnNode
        <5>2. Live(x)
          BY <4>1, <5>1 DEF ApartInv, AwaitedLive, Awaited, Ordered
        <5>3. Alive(x) /\ Alive(t)
          BY <2>4, <4>1, <5>2 DEF Live, Alive, LiveRuns
        <5>4. task[x].set = task[t].set
          BY <1>2, <2>5, <4>1, <5>3 DEF ApartInv, HubInv, SetsNamed, Alive
        <5>5. QED
          BY <1>2, <4>1, <5>3, <5>4 DEF LiveInv, OneAlive
      <4>2. SUFFICES ASSUME NEW x \in TaskIds \ excused, NEW y \in TaskIds \ excused,
                            OnNode(x)', OnNode(y)', setOf[x] = setOf[y]
                     PROVE  x = y
        BY <1>3, <3>2 DEF OneJobPerSet
      <4>3. CASE x = t \/ y = t
        BY <2>6, <4>1, <4>2, <4>3 DEF OnNode
      <4>4. CASE x # t /\ y # t
        BY <2>6, <4>2, <4>4 DEF ApartInv, OneJobPerSet, OnNode
      <4>5. QED
        BY <4>3, <4>4
    <3>3. QED
      BY <2>1, <3>1, <3>2
  <2>10. QED
    BY <1>5, <2>7, <2>8, <2>9 DEF ApartInv
<1>8. CASE CancelTask(n)
  <2>1. received' = received /\ excused' = excused
    BY <1>3, <1>8 DEF CancelTask
  <2>2. job' = job \/ job' = [job EXCEPT ![t] = "cancelled"]
    BY <1>8 DEF CancelTask
  <2> HIDE DEF t
  <2>3. \A x \in TaskIds : job'[x] \in {"cancelled", job[x]}
    BY <2>2 DEF JobsInv, JobsOK
  <2>4. \A x \in TaskIds : OnNode(x)' => OnNode(x)
    BY <2>3 DEF OnNode
  <2>5. OneJobPerSet'
    BY <1>1, <1>3, <2>1, <2>4, NoJobStarts DEF ApartInv
  <2>6. AwaitedLive'
    BY <1>3, <1>6, <2>1, <2>3 DEF ApartInv, AwaitedLive, Awaited, Live, Queued
  <2>7. SettlesOver'
    <3>1. ASSUME NEW m \in Nodes, pc[m] = "settle"
          PROVE  ~OnNode(tid[m])'
      <4>1. tid[m] \in TaskIds /\ ~OnNode(tid[m])
        BY <1>1, <3>1 DEF ApartInv, HubInv, SettlesReceived, SettlesOver
      <4>2. QED
        BY <1>3, <2>3, <4>1 DEF OnNode
    <3>2. QED
      BY <1>3, <3>1 DEF SettlesOver
  <2>8. QED
    BY <1>5, <2>5, <2>6, <2>7 DEF ApartInv
<1>9. QED
  BY <1>7, <1>8 DEF Listens

LEMMA WorksApart ==
  ASSUME Inv, JobsInv, ApartInv, NEW n \in Nodes, NEW t \in TaskIds,
         \/ Works(n, t) \/ Fails(n, t)
         \/ \E kind \in {"Warning", "Error", "storage"} : Reports(n, t, kind)
  PROVE  ApartInv'
<1>1. /\ UNCHANGED vars /\ setOf' = setOf /\ excused \subseteq excused'
      /\ \/ job' = job
         \/ \E l \in {"failed", "leaving", "done"} : job' = [job EXCEPT ![t] = l]
         \/ OnNode(t) /\ \E l \in {"running", "broken"} : job' = [job EXCEPT ![t] = l]
  BY DEF Works, Fails, Prepares, BackupDone, BackupRemoved, PrepareFails, ThreadFails,
         RunFails, Reports, Over, OnNode
<1>2. \A x \in TaskIds : /\ OnNode(x)' => OnNode(x)
                         /\ job'[x] = "preparing" => job[x] = "preparing"
  BY <1>1 DEF OnNode, JobsInv, JobsOK
<1>3. QED
  BY <1>1, <1>2, NodeApart

-----------------------------------------------------------------------------
(* The theorem.                                                            *)

LEMMA InitApart ==
  ASSUME JobsInit
  PROVE  ApartInv
<1>1. /\ Queued = {} /\ pc[Scheduler] = "recover"
      /\ \A n \in Nodes : pc[n] = "reading" /\ wire[n] = <<>>
      /\ received = {} /\ job = [t \in TaskIds |-> "none"]
  BY ConstantsAssumption DEF JobsInit, Init, Threads, Creators, Queued, ToSet
<1>2. HubInv
  BY <1>1 DEF HubInv, ClosesEnded, SetsNamed, StartsLive, SettlesReceived
<1>3. AwaitedLive
  BY <1>1 DEF AwaitedLive, Awaited, Ordered
<1>4. SettlesOver /\ OneJobPerSet
  BY <1>1 DEF SettlesOver, OneJobPerSet, OnNode
<1>5. QED
  BY <1>2, <1>3, <1>4 DEF ApartInv

\* A node never works on two jobs of a backup set, however many nodes, sets and
\* tasks there are, whatever connections lose and whenever the hub stops; but
\* for jobs the hub has lost sight of, as excused lists them.
THEOREM OneJobOfASet == JobsSpec => []OneJobPerSet
<1>1. "Start" \notin UserRequests /\ UserRequests \subseteq {"Cancel"}
  BY JobsAssumption
<1>2. JobsSpec => []StartInv /\ []LiveInv
  <2>1. (Spec => []StartInv) /\ (Spec => []LiveInv)
    BY <1>1, StartsCorrect, LiveCorrect
  <2>2. QED
    BY <2>1, JobsSchedule, PTL
<1>3. JobsInit => ApartInv
  BY InitApart
<1>4. /\ Inv /\ JobsInv /\ Inv' /\ StartInv /\ StartInv' /\ LiveInv
      /\ ApartInv /\ [JobsNext]_allVars
      => ApartInv'
  <2>1. SUFFICES ASSUME Inv, JobsInv, Inv', StartInv, StartInv', LiveInv, ApartInv,
                        [JobsNext]_allVars
                 PROVE  ApartInv'
    OBVIOUS
  <2>2. CASE UNCHANGED allVars
    <3>1. UNCHANGED vars /\ setOf' = setOf /\ excused' = excused /\ job' = job
      BY <2>2 DEF allVars, jobs
    <3>2. QED
      BY <2>1, <3>1, NodeApart DEF OnNode
  <2>3. CASE Scheduling \/ Stopping
    BY <2>1, <2>3, SchedulingApart, StoppingApart
  <2>4. ASSUME NEW n \in Nodes,
               HubReads(n) \/ Settling(n) \/ Reconnects(n) \/ Disconnects(n) \/ Listens(n)
        PROVE  ApartInv'
    BY <2>1, <2>4, ReadsApart, SettlingApart, ConnectionApart, ListensApart DEF Inv
  <2>5. ASSUME NEW n \in Nodes, NEW t \in TaskIds,
               \/ Works(n, t) \/ Fails(n, t)
               \/ \E kind \in {"Warning", "Error", "storage"} : Reports(n, t, kind)
        PROVE  ApartInv'
    BY <2>1, <2>5, WorksApart
  <2>6. QED
    BY <2>1, <2>2, <2>3, <2>4, <2>5 DEF JobsNext
<1>5. ApartInv => OneJobPerSet
  BY DEF ApartInv
<1>6. QED
  BY JobsCorrect, <1>2, <1>3, <1>4, <1>5, PTL DEF JobsSpec
=============================================================================
