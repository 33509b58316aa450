------------------------------ MODULE NodeJobs ------------------------------
(***************************************************************************)
(* The jobs of the nodes (Node/User.cs, Node/UserProtocol.cs) together     *)
(* with the hub's scheduler (TaskScheduler).  In TaskScheduler a node may  *)
(* report anything of a task it was given; here it reports what its job    *)
(* does, in the order of its connection.                                   *)
(*                                                                         *)
(* An order to start a task is refused when a job of the same backup set   *)
(* is in currentJobs; otherwise the job is prepared in a thread of its own *)
(* and enters currentJobs only then.  An order to cancel ends the job in   *)
(* the thread that reads the hub's messages, before the next one is read.  *)
(***************************************************************************)
EXTENDS TaskScheduler

CONSTANT MaxReports   \* bound on the jobs' warnings, errors and storage requests

\* Tasks are started by the scheduler and cancelled for want of storage only:
\* no user makes a request.
ASSUME JobsAssumption == MaxReports \in Nat /\ UserRequests = {}

VARIABLES
  setOf,    \* the backup set the orders of a task name
  job,      \* how far the job of each task is on its node
  reports,  \* the reports of running jobs so far
  erred,    \* the jobs whose last warning or error was an error
  outbox,   \* what each node has written and the hub has not read
  lost,     \* history: the tasks a report of was lost with a connection
  excused   \* history: the tasks the hub has lost sight of

jobs == <<job, reports, erred>>
allVars == <<vars, setOf, jobs, outbox, lost, excused>>

-----------------------------------------------------------------------------
\* Reports: TASK with a warning or an error, ASKSTORAGE, TASKDONE, and a text
\* that is no message.
Report(kind, t) == [kind |-> kind, id |-> t]

\* What a node writes while its connection is down waits in a queue that
\* nothing reads (pendingHubMessages).
HubWrite(n, written) ==
  IF verified[n]
  THEN outbox' = [outbox EXCEPT ![n] = @ \o written] /\ UNCHANGED lost
  ELSE lost' = lost \cup {r.id : r \in ToSet(written)} /\ UNCHANGED outbox

\* Mutant: the reports outlive the connection.
LeavesAsItWas(reported) == outbox' = reported /\ UNCHANGED lost

\* The reports still to be read, if the connections are there; else they are
\* lost.
Leaves(reported) ==
  LET down == {n \in Nodes : ~verified'[n]} IN
  /\ outbox' = [n \in Nodes |-> IF n \in down THEN <<>> ELSE reported[n]]
  /\ lost' = lost \cup UNION {{r.id : r \in ToSet(reported[n])} : n \in down}

\* In currentJobs: also while its end is being told, and for ever once one of
\* its threads has failed.
Registered(t) == job[t] \in {"running", "broken", "leaving"}

\* Mutant: only the same task is refused.
RefusesSame(t) == Registered(t)

\* A job of the task's backup set is in currentJobs.
Refuses(t) == \E r \in TaskIds : Registered(r) /\ setOf[r] = setOf[t]

On(n, t) == t \in received /\ HandlingNode[setOf[t]] = n

JobsInit ==
  /\ Init
  /\ setOf = [t \in TaskIds |-> NoSet]
  /\ job = [t \in TaskIds |-> "none"]
  /\ reports = 0
  /\ erred = {}
  /\ outbox = [n \in Nodes |-> <<>>]
  /\ lost = {}
  /\ excused = {}

-----------------------------------------------------------------------------
(* The hub.                                                                  *)

\* What goes on with the jobs and the reports while the hub takes a step.
Alongside ==
  /\ setOf' = [t \in TaskIds |->
                 IF task'[t].set = NoSet THEN setOf[t] ELSE task'[t].set]
  /\ Leaves(outbox)
  /\ UNCHANGED jobs

\* A hub that stops forgets the tasks it has given out.
Scheduling ==
  /\ Schedule
  /\ Alongside
  /\ excused' = IF Up' THEN excused ELSE 1..lastId

Stopping ==
  /\ HubCrash \/ HubRestart
  /\ Alongside
  /\ excused' = 1..lastId

Settling(n) == Settle(n) /\ Alongside /\ UNCHANGED excused

\* A start of the task is still to be marked.
Marks(t) == \E w \in Creators : pc[w] \in {"mark", "marked"} /\ tid[w] = t

Read(n) ==
  /\ Leaves([outbox EXCEPT ![n] = Tail(@)])
  /\ UNCHANGED <<setOf, jobs>>

\* A status that is set before the start is marked is overwritten.
Overwritten(t) == excused' = IF Marks(t) THEN excused \cup {t} ELSE excused

ReadsAlarm(n, r) ==
  /\ r.kind \in {"Warning", "Error"}
  /\ HandleTask(n, r.id, r.kind)
  /\ Read(n)
  /\ UNCHANGED excused

ReadsDone(n, r) ==
  /\ r.kind = "done"
  /\ HandleTaskDone(n, r.id)
  /\ Read(n)
  /\ Overwritten(r.id)

ReadsNoStorage(n, r) ==
  /\ r.kind = "storage"
  /\ HandleNoStorage(n, r.id)
  /\ Read(n)
  /\ Overwritten(r.id)

\* Storage is granted; or the task has left the queue, and Decode logs an
\* exception.
ReadsWithoutEffect(n, r) ==
  /\ r.kind # "text"
  /\ r.kind = "storage" \/ r.id \notin Queued
  /\ Up
  /\ pc[n] = "reading"
  /\ UNCHANGED vars
  /\ Read(n)
  /\ UNCHANGED excused

\* What cannot be parsed ends the connection (MessageReceived).
ReadsText(n, r) ==
  /\ r.kind = "text"
  /\ ClearNode(n)
  /\ Read(n)
  /\ UNCHANGED excused

HubReads(n) ==
  /\ outbox[n] # <<>>
  /\ LET r == Head(outbox[n])
     IN  ReadsAlarm(n, r) \/ ReadsDone(n, r) \/ ReadsNoStorage(n, r)
           \/ ReadsWithoutEffect(n, r) \/ ReadsText(n, r)

\* A new connection knows nothing of what was under way on the last one.
Reconnects(n) ==
  /\ PutNodeOnline(n)
  /\ outbox' = [outbox EXCEPT ![n] = <<>>]
  /\ lost' = lost \cup {r.id : r \in ToSet(outbox[n])}
  /\ UNCHANGED <<setOf, jobs, excused>>

Disconnects(n) ==
  /\ ClearNode(n) \/ HandleOfflineNode(n) \/ ApproveNode(n)
  /\ Leaves(outbox)
  /\ UNCHANGED <<setOf, jobs, excused>>

-----------------------------------------------------------------------------
(* The nodes.                                                                *)

\* The hub drops the message of a refusal, which has no action.
RunBackup(n) ==
  /\ wire[n] # <<>>
  /\ Head(wire[n]).order = "STARTTASK"
  /\ LET t == Head(wire[n]).id
     IN  IF Refuses(t)
         THEN excused' = excused \cup {t} /\ UNCHANGED job
         ELSE job' = [job EXCEPT ![t] = "preparing"] /\ UNCHANGED excused
  /\ NodeReads(n)
  /\ UNCHANGED <<setOf, reports, erred, outbox, lost>>

\* A job that is not in currentJobs is not found.
CancelTask(n) ==
  /\ wire[n] # <<>>
  /\ Head(wire[n]).order = "CANCELTASK"
  /\ LET t == Head(wire[n]).id
     IN  job' = IF Registered(t) THEN [job EXCEPT ![t] = "cancelled"] ELSE job
  /\ NodeReads(n)
  /\ UNCHANGED <<setOf, reports, erred, outbox, lost, excused>>

\* PrepareAll has returned: the job enters currentJobs and runs.
Prepares(n, t) ==
  /\ job[t] = "preparing"
  /\ On(n, t)
  /\ job' = [job EXCEPT ![t] = "running"]
  /\ UNCHANGED <<vars, setOf, reports, erred, outbox, lost, excused>>

\* UnexpectedError writes a text and fails: the job is not in currentJobs yet.
PrepareFails(n, t) ==
  /\ job[t] = "preparing"
  /\ On(n, t)
  /\ job' = [job EXCEPT ![t] = "failed"]
  /\ HubWrite(n, <<Report("text", t)>>)
  /\ excused' = excused \cup {t}
  /\ UNCHANGED <<vars, setOf, reports, erred>>

\* A warning or an error, by preparation too, or a request for storage.
Reports(n, t, kind) ==
  /\ job[t] = "running" \/ (job[t] = "preparing" /\ kind # "storage")
  /\ On(n, t)
  /\ reports < MaxReports
  /\ reports' = reports + 1
  /\ erred' = CASE kind = "Error" -> erred \cup {t}
                [] kind = "Warning" -> erred \ {t}
                [] OTHER -> erred
  /\ HubWrite(n, <<Report(kind, t)>>)
  /\ UNCHANGED <<vars, setOf, job, excused>>

\* A thread of the job fails: an error is reported and the others are
\* cancelled, but the job stays in currentJobs (BackupManager.UnexpectedError).
ThreadFails(n, t) ==
  /\ job[t] = "running"
  /\ On(n, t)
  /\ job' = [job EXCEPT ![t] = "broken"]
  /\ erred' = erred \cup {t}
  /\ HubWrite(n, <<Report("Error", t)>>)
  /\ excused' = excused \cup {t}
  /\ UNCHANGED <<vars, setOf, reports>>

\* Mutant: the job says it is done and goes on.
DoneEarly(t) == job

\* ... its end is told while it is still in currentJobs.
Over(t) == [job EXCEPT ![t] = "leaving"]

\* Mutant: the end of a job is told as its cancellation is, by a TASK.
EndOfCancelled(t) == <<Report("Warning", t)>>

\* SendDoneTask
End(t) == <<Report("done", t)>>

\* BackupDone up to SendDoneTask,
BackupDone(n, t) ==
  /\ job[t] = "running"
  /\ On(n, t)
  /\ job' = Over(t)
  /\ HubWrite(n, End(t))
  /\ UNCHANGED <<vars, setOf, reports, erred, excused>>

\* ... and its Remove from currentJobs.
BackupRemoved(n, t) ==
  /\ job[t] = "leaving"
  /\ On(n, t)
  /\ job' = [job EXCEPT ![t] = "done"]
  /\ UNCHANGED <<vars, setOf, reports, erred, outbox, lost, excused>>

\* Run fails after the job has entered currentJobs: UnexpectedError writes a
\* text before it ends the job.
RunFails(n, t) ==
  /\ job[t] = "running"
  /\ On(n, t)
  /\ job' = Over(t)
  /\ HubWrite(n, <<Report("text", t)>> \o End(t))
  /\ excused' = excused \cup {t}
  /\ UNCHANGED <<vars, setOf, reports, erred>>

Listens(n) == RunBackup(n) \/ CancelTask(n)

Works(n, t) == Prepares(n, t) \/ BackupDone(n, t) \/ BackupRemoved(n, t)

Fails(n, t) == PrepareFails(n, t) \/ ThreadFails(n, t) \/ RunFails(n, t)

JobsNext ==
  \/ Scheduling \/ Stopping
  \/ \E n \in Nodes : \/ HubReads(n) \/ Settling(n)
                     \/ Reconnects(n) \/ Disconnects(n)
                     \/ Listens(n)
  \/ \E n \in Nodes, t \in TaskIds :
       \/ Works(n, t) \/ Fails(n, t)
       \/ \E kind \in {"Warning", "Error", "storage"} : Reports(n, t, kind)

JobsSpec == JobsInit /\ [][JobsNext]_allVars

\* The scheduler, the threads that read a connection at either end, and the
\* threads of a job run on while they can.
JobsFairness ==
  /\ WF_allVars(Scheduling)
  /\ \A n \in Nodes :
       /\ WF_allVars(Settling(n)) /\ WF_allVars(HubReads(n))
       /\ WF_allVars(Listens(n))
       /\ \A t \in TaskIds : WF_allVars(Works(n, t))

FairJobsSpec == JobsSpec /\ JobsFairness

-----------------------------------------------------------------------------
\* Every variable keeps its type; reports are under way on connections only
\* that are there, and of tasks the node was told of.
JobsTypeOK ==
  /\ setOf \in [TaskIds -> BackupSets \cup {NoSet}]
  /\ job \in [TaskIds -> {"none", "preparing", "running", "broken", "failed",
                          "leaving", "cancelled", "done"}]
  /\ reports \in 0..MaxReports
  /\ erred \subseteq received
  /\ outbox \in [Nodes -> Seq([kind : {"Warning", "Error", "storage", "done", "text"},
                               id : TaskIds])]
  /\ lost \subseteq TaskIds
  /\ excused \subseteq TaskIds
  /\ \A n \in Nodes : outbox[n] # <<>> => verified[n]
  /\ \A n \in Nodes : \A r \in ToSet(outbox[n]) : On(n, r.id)

OnNode(t) == job[t] \in {"preparing", "running", "broken"}

\* A node never works on two jobs of a backup set: the hub queues a set's next
\* task only when the last has ended for it, and where it has only lost sight of
\* it (no storage was found and the order to cancel was not written), the job of
\* the last task is in currentJobs and RunBackup refuses the next.  Excepted are
\* the tasks in `excused': those a stopped hub has forgotten, those whose end the
\* hub read before the thread that started them had marked them as started,
\* those the node refused, and those whose preparation, run or one thread failed.
OneJobPerSet ==
  \A t1, t2 \in TaskIds \ excused :
    OnNode(t1) /\ OnNode(t2) /\ setOf[t1] = setOf[t2] => t1 = t2

\* A job whose last warning or error was an error is not recorded as Done:
\* the error is read before TASKDONE, neither the scheduler's pass nor its
\* marks of the start wipe it out, and Complete saves what UpdateTerminatedTask
\* made of it.  Reports that were lost with the connection are excepted.
ErrorRecorded == \A t \in erred \ lost : row[t].run # "Done"

\* A task is recorded as Done only when its node has stopped working on it.
DoneMeansOver == \A t \in TaskIds : row[t].run = "Done" => ~OnNode(t)

\* A task whose order to start has been read leaves the queue in the end,
\* unless the node refused it, the job failed, one of its reports was lost, the
\* hub stopped, or it read the task's end before the thread that had started it
\* marked it as started.
ReceivedEnds ==
  \A t \in TaskIds :
    t \in received \cap Queued ~> t \notin Queued \/ t \in lost \cup excused
=============================================================================
