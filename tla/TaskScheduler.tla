--------------------------- MODULE TaskScheduler ---------------------------
(***************************************************************************)
(* The hub's task queue (Hub/TaskScheduler.cs): the scheduler thread, the  *)
(* threads that serve the users' requests, and the threads that read the   *)
(* nodes' connections and run the handlers of their messages.  They share  *)
(* the queue, the task objects and the node objects without a lock, so a   *)
(* step reads or writes shared state once and ends where the code calls    *)
(* the database, the network or another statement that depends on it.      *)
(*                                                                         *)
(* The nodes are an environment here that may report anything about a task *)
(* it was given: what is checked and proved of this module holds whatever  *)
(* the nodes do.  The database does not fail.                              *)
(***************************************************************************)
EXTENDS Integers, FiniteSets, SequencesExt

CONSTANTS
  BackupSets,     \* the backup sets whose operation is a backup
  Nodes,          \* the client nodes, and the threads reading from them
  HandlingNode,   \* backup set -> the node that runs its tasks
  Users,          \* threads of the remoting server, one per user's request
  Scheduler,      \* the scheduler thread
  NoSet,          \* "no backup set"
  UserRequests,   \* the requests users make: a subset of AllRequests
  MaxTasks,       \* bound on the tasks created
  MaxRetries,     \* passes of the scheduler within BackupSet.RetryTime
  MaxRequests,    \* bound on the users' requests
  MaxCrashes,     \* bound on the hub's crashes
  MaxWire         \* bound on the orders a node has not read yet

AllRequests == {"Start", "Cancel", "Pause"}

ASSUME ConstantsAssumption ==
  /\ HandlingNode \in [BackupSets -> Nodes]
  /\ NoSet \notin BackupSets
  /\ Scheduler \notin Users \cup Nodes
  /\ Users \cap Nodes = {}
  /\ UserRequests \subseteq AllRequests
  /\ MaxTasks \in Nat
  /\ MaxRetries \in Nat
  /\ MaxRequests \in Nat
  /\ MaxCrashes \in Nat
  /\ MaxWire \in Nat

VARIABLES
  queue,      \* TasksQueue: the ids of the tasks in memory, oldest first
  task,       \* the task objects in memory
  late,       \* passes a task has waited for its node
  row,        \* the task table of the database
  lastId,     \* the id generator
  pc,         \* where each thread is
  tid,        \* the task each thread works on
  tset,       \* the backup set a thread creates a task for
  verdict,    \* the final status a reading thread has decided to set
  due,        \* backup sets of the scheduler's current poll still to queue
  idx,        \* index of the scheduler's pass over the queue
  presence,   \* NodesList: status of each node's object, if it is listed
  verified,   \* PeerNode.verified: messages may be exchanged with the node
  wire,       \* orders written to each node's connection, not yet read
  received,   \* tasks a node has read the order to start of
  requests,   \* users' requests so far
  crashes     \* hub crashes so far

memory == <<queue, task, late>>
database == <<row, lastId>>
threads == <<pc, tid, tset, verdict>>
pass == <<due, idx>>
peers == <<presence, verified, wire>>
counters == <<requests, crashes>>
vars == <<memory, database, threads, pass, peers, received, counters>>

-----------------------------------------------------------------------------
Creators == Users \cup {Scheduler}
Threads == Creators \cup Nodes
TaskIds == 1..MaxTasks

RunStatuses == {"PendingStart", "Started", "Paused", "Error", "Cancelling",
                "Cancelled", "Done"}
Statuses == {"Ok", "Warning", "Error"}
Orders == {"STARTTASK", "CANCELTASK", "PAUSETASK"}

\* Mutant: cancelled tasks are forgotten.
EndedButCancelled == {"Done", "Error"}

\* The statuses the scheduler takes a task out of the queue for.
Ended == {"Done", "Cancelled", "Error"}

\* Mutant: every record is closed again.
InterruptedAny == RunStatuses

\* The statuses UpdateInterrupted closes a record for.
Interrupted == {"PendingStart", "Started"}

\* The statuses that do not keep a backup set from being queued again.
Replaceable == {"Cancelling", "Cancelled", "Done"}

NoRow == [run |-> "NoRow", status |-> "Ok"]
OpenRow == [run |-> "PendingStart", status |-> "Ok"]
NoTask == [set |-> NoSet, run |-> "PendingStart", status |-> "Ok"]

Queued == ToSet(queue)
Up == pc[Scheduler] # "down"
Node(t) == HandlingNode[task[t].set]

Goto(w, label) == pc' = [pc EXCEPT ![w] = label]
\* The same where the method that worked on a task returns.
Return(w, label) == Goto(w, label) /\ tid' = [tid EXCEPT ![w] = 0]
SetRun(t, r) == task' = [task EXCEPT ![t].run = r]

\* TasksQueue[t].RunStatus = r: an exception, caught by the caller's caller,
\* when the task has left the queue.
SetRunIfQueued(t, r) == IF t \in Queued THEN SetRun(t, r) ELSE UNCHANGED task

\* Mutant: the set's waiting task is seen, its running one is not.
TasksQueueExistsPending(b) ==
  \E t \in Queued : task[t].set = b /\ task[t].run = "PendingStart"

\* A task of the backup set is in the queue and may still run.
TasksQueueExists(b) ==
  \E t \in Queued : task[t].set = b /\ task[t].run \notin Replaceable

\* Mutant: every task that has not ended is started.
IsToStartAgain(t) == task[t].run \notin Ended

\* The pass over the queue starts the tasks that wait.
IsToStart(t) == task[t].run = "PendingStart"

\* Mutant: the status is reset together with the running status.
MarkStartedOk(t) ==
  task' = [task EXCEPT ![t].run = "Started", ![t].status = "Ok"]

MarkStarted(t) == SetRun(t, "Started")

\* Mutant: a retry forgets since when the task has waited.
LatenessReset(t) == 0

\* How late a task is after one more pass without its node.
Lateness(t) == late[t] + 1

\* Mutant: a refused task is started none the less.
AfterRefusalStart(w) == IF w = Scheduler THEN "create" ELSE "start"

\* Where a thread goes when no task was created.
AfterRefusal(w) == IF w = Scheduler THEN "create" ELSE "idle"

\* Mutant: the newest task comes first.
EnqueueFirst(t) == <<t>> \o queue

\* TasksQueue.Add
Enqueue(t) == Append(queue, t)

\* Mutant: the scheduler starts a task as soon as it is queued.
CreateTaskStarts(w) == Goto(w, "start") /\ UNCHANGED tid

\* CreateTask returns the new task.
CreateTaskReturns(w) ==
  IF w = Scheduler THEN Return(w, "create")
                   ELSE Goto(w, "start") /\ UNCHANGED tid

\* StartTask returns.
StartTaskReturns(w) ==
  IF w = Scheduler THEN Goto(w, "marked") /\ UNCHANGED tid
                   ELSE Return(w, "idle")

\* PeerNode.SendMessage of an order: written to the connection, or the write
\* fails and the hub drops the connection (Disconnect).
Send(n, order, t) ==
  \/ /\ Len(wire[n]) < MaxWire
     /\ wire' = [wire EXCEPT ![n] = Append(@, [order |-> order, id |-> t])]
     /\ UNCHANGED verified
  \/ /\ verified' = [verified EXCEPT ![n] = FALSE]
     /\ UNCHANGED wire

Init ==
  /\ queue = <<>>
  /\ task = [t \in TaskIds |-> NoTask]
  /\ late = [t \in TaskIds |-> 0]
  /\ row = [t \in TaskIds |-> NoRow]
  /\ lastId = 0
  /\ pc = [w \in Threads |-> IF w = Scheduler THEN "recover"
                             ELSE IF w \in Users THEN "idle" ELSE "reading"]
  /\ tid = [w \in Threads |-> 0]
  /\ tset = [w \in Creators |-> NoSet]
  /\ verdict = [n \in Nodes |-> "Done"]
  /\ due = {}
  /\ idx = 0
  /\ presence = [n \in Nodes |-> "Absent"]
  /\ verified = [n \in Nodes |-> FALSE]
  /\ wire = [n \in Nodes |-> <<>>]
  /\ received = {}
  /\ requests = 0
  /\ crashes = 0

-----------------------------------------------------------------------------
(* Schedule: recovery, the poll for due backup sets, the pass over the     *)
(* queue.                                                                  *)

\* First pass: UpdateInterrupted closes what a stopped hub left open.
Recover ==
  /\ pc[Scheduler] = "recover"
  /\ row' = [t \in TaskIds |->
               IF row[t].run \in Interrupted
               THEN [run |-> "Cancelled", status |-> "Error"]
               ELSE row[t]]
  /\ Goto(Scheduler, "poll")
  /\ UNCHANGED <<memory, lastId, tid, tset, verdict, pass, peers, received,
                 counters>>

\* GetNextToSchedule: any backup sets may be due.
Poll ==
  /\ pc[Scheduler] = "poll"
  /\ due' \in SUBSET (IF lastId < MaxTasks THEN BackupSets ELSE {})
  /\ Goto(Scheduler, "create")
  /\ UNCHANGED <<memory, database, tid, tset, verdict, idx, peers, received,
                 counters>>

NextDue(b) ==
  /\ pc[Scheduler] = "create"
  /\ b \in due
  /\ due' = due \ {b}
  /\ tset' = [tset EXCEPT ![Scheduler] = b]
  /\ Goto(Scheduler, "exists")
  /\ UNCHANGED <<memory, database, tid, verdict, idx, peers, received,
                 counters>>

NoneDue ==
  /\ pc[Scheduler] = "create"
  /\ due = {}
  /\ idx' = Len(queue)
  /\ Goto(Scheduler, "scan")
  /\ UNCHANGED <<memory, database, tid, tset, verdict, due, peers, received,
                 counters>>

ScanEnds ==
  /\ pc[Scheduler] = "scan"
  /\ idx = 0
  /\ Goto(Scheduler, "poll")
  /\ UNCHANGED <<memory, database, tid, tset, verdict, pass, peers, received,
                 counters>>

ScanSkips ==
  /\ pc[Scheduler] = "scan"
  /\ idx > 0
  /\ task[queue[idx]].run \notin Ended
  /\ ~IsToStart(queue[idx])
  /\ idx' = idx - 1
  /\ UNCHANGED <<memory, database, threads, due, peers, received, counters>>

ScanFindsEnded ==
  /\ pc[Scheduler] = "scan"
  /\ idx > 0
  /\ task[queue[idx]].run \in Ended
  /\ tid' = [tid EXCEPT ![Scheduler] = queue[idx]]
  /\ Goto(Scheduler, "complete")
  /\ UNCHANGED <<memory, database, tset, verdict, pass, peers, received,
                 counters>>

ScanFindsPending ==
  /\ pc[Scheduler] = "scan"
  /\ idx > 0
  /\ IsToStart(queue[idx])
  /\ task' = [task EXCEPT ![queue[idx]].status = "Ok"]
  /\ tid' = [tid EXCEPT ![Scheduler] = queue[idx]]
  /\ Goto(Scheduler, "start")
  /\ UNCHANGED <<queue, late, database, tset, verdict, pass, peers, received,
                 counters>>

\* RemoveAt(i).  Nothing reads the object of a task that has left the queue,
\* except for its backup set: the rest of it is forgotten here.
TakeOut(i) ==
  /\ queue' = RemoveAt(queue, i)
  /\ task' = [task EXCEPT ![queue[i]].status = "Ok", ![queue[i]].run = "Done"]
  /\ late' = [late EXCEPT ![queue[i]] = 0]

\* TaskDAO.Complete saves the task object as it is by now.
Complete ==
  /\ pc[Scheduler] = "complete"
  /\ LET t == tid[Scheduler]
     IN  row' = [row EXCEPT ![t] = [run |-> task[t].run,
                                    status |-> task[t].status]]
  /\ Goto(Scheduler, "remove")
  /\ UNCHANGED <<memory, lastId, tid, tset, verdict, pass, peers, received,
                 counters>>

\* Mutant: the second call of RemoveAt(i), at the index that now is another's.
RemovesTwice ==
  /\ pc[Scheduler] = "remove"
  /\ LET rest == RemoveAt(queue, idx)
     IN  queue' = IF idx <= Len(rest) THEN RemoveAt(rest, idx) ELSE rest
  /\ idx' = idx - 1
  /\ Return(Scheduler, "scan")
  /\ UNCHANGED <<task, late, database, tset, verdict, due, peers,
                 received, counters>>

\* The file defines DEBUG: of the two calls of RemoveAt(i) the first is compiled.
Removes ==
  /\ pc[Scheduler] = "remove"
  /\ TakeOut(idx)
  /\ idx' = idx - 1
  /\ Return(Scheduler, "scan")
  /\ UNCHANGED <<database, tset, verdict, due, peers,
                 received, counters>>

-----------------------------------------------------------------------------
(* CreateTask, by the scheduler or by a user's StartImmediateTask.         *)

\* TasksQueueExists: a null task ends a user's request with an exception.
CreateRefused(w) ==
  /\ pc[w] = "exists"
  /\ TasksQueueExists(tset[w])
  /\ Goto(w, AfterRefusal(w))
  /\ tset' = [tset EXCEPT ![w] = NoSet]
  /\ UNCHANGED <<memory, database, tid, verdict, pass, peers, received,
                 counters>>

CreateAllowed(w) ==
  /\ pc[w] = "exists"
  /\ ~TasksQueueExists(tset[w])
  /\ Goto(w, "save")
  /\ UNCHANGED <<memory, database, tid, tset, verdict, pass, peers, received,
                 counters>>

\* TaskDAO.Save inserts the row and gives the new task object its id.
CreateSaves(w) ==
  /\ pc[w] = "save"
  /\ lastId < MaxTasks
  /\ lastId' = lastId + 1
  /\ row' = [row EXCEPT ![lastId + 1] = OpenRow]
  /\ task' = [task EXCEPT ![lastId + 1] =
                [set |-> tset[w], run |-> "PendingStart", status |-> "Ok"]]
  /\ tid' = [tid EXCEPT ![w] = lastId + 1]
  /\ Goto(w, "add")
  /\ tset' = [tset EXCEPT ![w] = NoSet]
  /\ UNCHANGED <<queue, late, verdict, pass, peers, received, counters>>

\* The bound MaxTasks was reached meanwhile: no task is created.
CreateBounded(w) ==
  /\ pc[w] = "save"
  /\ lastId = MaxTasks
  /\ Goto(w, AfterRefusal(w))
  /\ tset' = [tset EXCEPT ![w] = NoSet]
  /\ UNCHANGED <<memory, database, tid, verdict, pass, peers, received,
                 counters>>

CreateAdds(w) ==
  /\ pc[w] = "add"
  /\ queue' = Enqueue(tid[w])
  /\ CreateTaskReturns(w)
  /\ UNCHANGED <<task, late, database, tset, verdict, pass, peers,
                 received, counters>>

-----------------------------------------------------------------------------
(* StartTask, by the scheduler's pass or by a user's StartImmediateTask.   *)

\* UnreachableNodeException: the scheduler retries until the task is too
\* late, a user's request fails.
StartUnreachable(w) ==
  /\ pc[w] = "start"
  /\ LET t == tid[w]
     IN  /\ presence[Node(t)] = "Absent"
         /\ IF w # Scheduler
            THEN Return(w, "idle") /\ UNCHANGED <<task, late, idx>>
            ELSE /\ Return(w, "scan")
                 /\ idx' = idx - 1
                 /\ IF late[t] < MaxRetries
                    THEN /\ late' = [late EXCEPT ![t] = Lateness(t)]
                         /\ task' = [task EXCEPT ![t].status = "Warning"]
                    ELSE /\ task' = [task EXCEPT ![t].status = "Error",
                                                 ![t].run = "Error"]
                         /\ UNCHANGED late
  /\ UNCHANGED <<queue, database, tset, verdict, due, peers, received,
                 counters>>

\* OverQuotaException: the node may have used up its quota at any time.
StartOverQuota(w) ==
  /\ pc[w] = "start"
  /\ presence[Node(tid[w])] # "Absent"
  /\ IF w = Scheduler
     THEN /\ task' = [task EXCEPT ![tid[w]].status = "Error",
                                  ![tid[w]].run = "Error"]
          /\ idx' = idx - 1
          /\ Return(w, "scan")
     ELSE Return(w, "idle") /\ UNCHANGED <<task, idx>>
  /\ UNCHANGED <<queue, late, database, tset, verdict, due, peers,
                 received, counters>>

\* The node is woken up, or the order fails on an unverified connection:
\* StartTask returns false, which its callers ignore.
StartNotSent(w) ==
  /\ pc[w] = "start"
  /\ LET n == Node(tid[w])
     IN  presence[n] = "Idle" \/ (presence[n] = "Online" /\ ~verified[n])
  /\ StartTaskReturns(w)
  /\ UNCHANGED <<memory, database, tset, verdict, pass, peers, received,
                 counters>>

StartSends(w) ==
  /\ pc[w] = "start"
  /\ LET n == Node(tid[w])
     IN  /\ presence[n] = "Online"
         /\ verified[n]
         /\ Send(n, "STARTTASK", tid[w])
  /\ Goto(w, "mark")
  /\ UNCHANGED <<memory, database, tid, tset, verdict, pass, presence,
                 received, counters>>

\* StartTask's own task.RunStatus = Started.
StartMarks(w) ==
  /\ pc[w] = "mark"
  /\ MarkStarted(tid[w])
  /\ StartTaskReturns(w)
  /\ UNCHANGED <<queue, late, database, tset, verdict, pass, peers,
                 received, counters>>

\* The scheduler's task.RunStatus = Started, whatever StartTask returned.
ScanMarks ==
  /\ pc[Scheduler] = "marked"
  /\ MarkStarted(tid[Scheduler])
  /\ idx' = idx - 1
  /\ Return(Scheduler, "scan")
  /\ UNCHANGED <<queue, late, database, tset, verdict, due, peers,
                 received, counters>>

-----------------------------------------------------------------------------
(* The users' requests.                                                    *)

Requests(u, request) ==
  /\ Up
  /\ pc[u] = "idle"
  /\ request \in UserRequests
  /\ requests < MaxRequests
  /\ requests' = requests + 1

\* StartImmediateTask; StartTask follows the task's creation.
RequestStart(u, b) ==
  /\ Requests(u, "Start")
  /\ lastId < MaxTasks
  /\ tset' = [tset EXCEPT ![u] = b]
  /\ Goto(u, "exists")
  /\ UNCHANGED <<memory, database, tid, verdict, pass, peers, received,
                 crashes>>

\* CancelTask up to its test of the running status.
RequestCancel(u, t) ==
  /\ Requests(u, "Cancel")
  /\ t \in Queued
  /\ tid' = [tid EXCEPT ![u] = t]
  /\ Goto(u, IF task[t].run = "PendingStart" THEN "cancelPending"
                                             ELSE "cancelSend")
  /\ UNCHANGED <<memory, database, tset, verdict, pass, peers, received,
                 crashes>>

CancelPending(u) ==
  /\ pc[u] = "cancelPending"
  /\ SetRunIfQueued(tid[u], "Cancelled")
  /\ Return(u, "idle")
  /\ UNCHANGED <<queue, late, database, tset, verdict, pass, peers,
                 received, counters>>

\* The order, if the node is there; an unverified node ends the request.
CancelSends(u) ==
  /\ pc[u] = "cancelSend"
  /\ LET n == Node(tid[u])
     IN  \/ /\ presence[n] = "Absent"
            /\ Goto(u, "cancelSet")
            /\ UNCHANGED <<tid, peers>>
         \/ /\ presence[n] # "Absent"
            /\ verified[n]
            /\ Send(n, "CANCELTASK", tid[u])
            /\ presence' = [presence EXCEPT ![n] = "Idle"]
            /\ Goto(u, "cancelSet")
            /\ UNCHANGED tid
         \/ /\ presence[n] # "Absent"
            /\ ~verified[n]
            /\ Return(u, "idle")
            /\ UNCHANGED peers
  /\ UNCHANGED <<memory, database, tset, verdict, pass, received,
                 counters>>

CancelSets(u) ==
  /\ pc[u] = "cancelSet"
  /\ SetRunIfQueued(tid[u], "Cancelling")
  /\ Return(u, "idle")
  /\ UNCHANGED <<queue, late, database, tset, verdict, pass, peers,
                 received, counters>>

\* PauseTask; it does nothing when the node is absent and fails, changing
\* nothing, when the node is not verified.
RequestPause(u, t) ==
  /\ Requests(u, "Pause")
  /\ t \in Queued
  /\ presence[Node(t)] # "Absent"
  /\ verified[Node(t)]
  /\ Send(Node(t), "PAUSETASK", t)
  /\ tid' = [tid EXCEPT ![u] = t]
  /\ Goto(u, "pauseSet")
  /\ UNCHANGED <<memory, database, tset, verdict, pass, presence, received,
                 crashes>>

PauseSets(u) ==
  /\ pc[u] = "pauseSet"
  /\ SetRunIfQueued(tid[u], "Paused")
  /\ Return(u, "idle")
  /\ UNCHANGED <<queue, late, database, tset, verdict, pass, peers,
                 received, counters>>

-----------------------------------------------------------------------------
(* The handlers of the nodes' messages, one at a time for each node.       *)

Handles(n, t) ==
  /\ Up
  /\ pc[n] = "reading"
  /\ verified[n]
  /\ t \in received \cap Queued
  /\ Node(t) = n

\* TASK with a warning (800-899) or an error (900 and above).
HandleTask(n, t, status) ==
  /\ Handles(n, t)
  /\ task' = [task EXCEPT ![t].status = status]
  /\ UNCHANGED <<queue, late, database, threads, pass, peers, received,
                 counters>>

\* TASKDONE: the available space is sent (a failing write drops the
\* connection), then UpdateTerminatedTask reads the statuses.
HandleTaskDone(n, t) ==
  /\ Handles(n, t)
  /\ verified' \in {verified, [verified EXCEPT ![n] = FALSE]}
  /\ tid' = [tid EXCEPT ![n] = t]
  /\ verdict' = [verdict EXCEPT ![n] =
                   IF task[t].status = "Error" THEN "Error"
                   ELSE IF task[t].run = "Cancelling" THEN "Cancelled"
                   ELSE "Done"]
  /\ Goto(n, "settle")
  /\ UNCHANGED <<memory, database, tset, pass, presence, wire, received,
                 counters>>

\* ... and sets the running status they call for.
Settle(n) ==
  /\ pc[n] = "settle"
  /\ SetRunIfQueued(tid[n], verdict[n])
  /\ verdict' = [verdict EXCEPT ![n] = "Done"]
  /\ Return(n, "reading")
  /\ UNCHANGED <<queue, late, database, tset, pass, peers,
                 received, counters>>

\* ChooseStorage finds no destination: the task is cancelled with an error.
HandleNoStorage(n, t) ==
  /\ Handles(n, t)
  /\ task' = [task EXCEPT ![t].status = "Error", ![t].run = "Cancelled"]
  /\ Send(n, "CANCELTASK", t)
  /\ UNCHANGED <<queue, late, database, threads, pass, presence, received,
                 counters>>

-----------------------------------------------------------------------------
(* Nodes come and go, the hub stops and starts.                            *)

NodeReads(n) ==
  /\ wire[n] # <<>>
  /\ wire' = [wire EXCEPT ![n] = Tail(@)]
  /\ received' = IF Head(wire[n]).order = "STARTTASK"
                 THEN received \cup {Head(wire[n]).id} ELSE received
  /\ UNCHANGED <<memory, database, threads, pass, presence, verified, counters>>

\* A new connection replaces an idle node's; a locked node is listed too,
\* but not verified.
PutNodeOnline(n) ==
  /\ Up
  /\ pc[n] = "reading"
  /\ presence[n] \in {"Absent", "Idle"}
  /\ presence' = [presence EXCEPT ![n] = "Online"]
  /\ verified' \in {[verified EXCEPT ![n] = v] : v \in BOOLEAN}
  /\ wire' = [wire EXCEPT ![n] = <<>>]
  /\ UNCHANGED <<memory, database, threads, pass, received, counters>>

\* The connection broke.
ClearNode(n) ==
  /\ pc[n] = "reading"
  /\ presence[n] # "Absent"
  /\ presence' = [presence EXCEPT ![n] = "Idle"]
  /\ verified' = [verified EXCEPT ![n] = FALSE]
  /\ wire' = [wire EXCEPT ![n] = <<>>]
  /\ UNCHANGED <<memory, database, threads, pass, received, counters>>

\* An idle node has not answered pings for five minutes.
HandleOfflineNode(n) ==
  /\ pc[n] = "reading"
  /\ presence[n] = "Idle"
  /\ presence' = [presence EXCEPT ![n] = "Absent"]
  /\ verified' = [verified EXCEPT ![n] = FALSE]
  /\ wire' = [wire EXCEPT ![n] = <<>>]
  /\ UNCHANGED <<memory, database, threads, pass, received, counters>>

\* An administrator unlocks a node: its object becomes idle and, if its
\* connection is there, verified.
ApproveNode(n) ==
  /\ presence[n] # "Absent"
  /\ presence' = [presence EXCEPT ![n] = "Idle"]
  /\ verified' \in {[verified EXCEPT ![n] = v] : v \in BOOLEAN}
  /\ UNCHANGED <<memory, database, threads, pass, wire, received, counters>>

\* The process ends: the database is left, and what the network holds.
Dies ==
  /\ queue' = <<>>
  /\ task' = [t \in TaskIds |-> NoTask]
  /\ late' = [t \in TaskIds |-> 0]
  /\ pc' = [w \in Threads |-> IF w = Scheduler THEN "down"
                              ELSE IF w \in Users THEN "idle" ELSE "reading"]
  /\ tid' = [w \in Threads |-> 0]
  /\ tset' = [w \in Creators |-> NoSet]
  /\ verdict' = [n \in Nodes |-> "Done"]
  /\ due' = {}
  /\ idx' = 0
  /\ presence' = [n \in Nodes |-> "Absent"]
  /\ verified' = [n \in Nodes |-> FALSE]
  /\ wire' \in {wire, [n \in Nodes |-> <<>>]}
  /\ UNCHANGED <<database, received, requests>>

HubCrash ==
  /\ Up
  /\ crashes < MaxCrashes
  /\ crashes' = crashes + 1
  /\ Dies

\* TaskEvent, raised once a finished task is removed, looks the nodes of its
\* storage sessions up in NodesList: if one has left, the exception leaves the
\* scheduler thread and ends the process (HandleTaskEvent, AddRemoveSession).
TaskEventFails ==
  /\ pc[Scheduler] = "remove"
  /\ tid[Scheduler] \in received
  /\ task[tid[Scheduler]].run \in {"Done", "Cancelled"}
  /\ \E n \in Nodes : presence[n] = "Absent"
  /\ Dies
  /\ UNCHANGED crashes

HubRestart ==
  /\ pc[Scheduler] = "down"
  /\ Goto(Scheduler, "recover")
  /\ UNCHANGED <<memory, database, tid, tset, verdict, pass, peers, received,
                 counters>>

-----------------------------------------------------------------------------
Create(w) == \/ CreateRefused(w) \/ CreateAllowed(w) \/ CreateSaves(w)
             \/ CreateBounded(w) \/ CreateAdds(w)

StartTask(w) == \/ StartUnreachable(w) \/ StartOverQuota(w)
                \/ StartNotSent(w) \/ StartSends(w) \/ StartMarks(w)

Schedule ==
  \/ Recover \/ Poll \/ NoneDue
  \/ \E b \in BackupSets : NextDue(b)
  \/ Create(Scheduler)
  \/ ScanEnds \/ ScanSkips \/ ScanFindsEnded \/ ScanFindsPending \/ ScanMarks
  \/ StartTask(Scheduler)
  \/ Complete \/ Removes \/ TaskEventFails

\* What a user's thread does once a request is under way.
Serve(u) == \/ Create(u) \/ StartTask(u)
            \/ CancelPending(u) \/ CancelSends(u) \/ CancelSets(u)
            \/ PauseSets(u)

User(u) ==
  \/ \E b \in BackupSets : RequestStart(u, b)
  \/ \E t \in TaskIds : RequestCancel(u, t) \/ RequestPause(u, t)
  \/ Serve(u)

Handle(n) ==
  \/ \E t \in TaskIds : \/ \E s \in {"Warning", "Error"} : HandleTask(n, t, s)
                        \/ HandleTaskDone(n, t)
                        \/ HandleNoStorage(n, t)
  \/ Settle(n)

Connection(n) == \/ NodeReads(n) \/ PutNodeOnline(n) \/ ClearNode(n)
                 \/ HandleOfflineNode(n) \/ ApproveNode(n)

Next == \/ Schedule
        \/ \E u \in Users : User(u)
        \/ \E n \in Nodes : Handle(n) \/ Connection(n)
        \/ HubCrash \/ HubRestart

Spec == Init /\ [][Next]_vars

\* The scheduler's thread runs on while the hub is up.
FairSpec == Spec /\ WF_vars(Schedule)

-----------------------------------------------------------------------------
SchedulerLabels == {"down", "recover", "poll", "create", "exists", "save",
                    "add", "scan", "start", "mark", "marked", "complete",
                    "remove"}
UserLabels == {"idle", "exists", "save", "add", "start", "mark",
               "cancelPending", "cancelSend", "cancelSet", "pauseSet"}
NodeLabels == {"reading", "settle"}
Labels == SchedulerLabels \cup UserLabels \cup NodeLabels
LabelsOf(w) == IF w = Scheduler THEN SchedulerLabels
               ELSE IF w \in Users THEN UserLabels ELSE NodeLabels
\* Where a thread works on no task.
AtRest == {"down", "recover", "poll", "create", "exists", "save", "scan",
           "idle", "reading"}

TaskObjects == [set: BackupSets \cup {NoSet}, run: RunStatuses,
                status: Statuses]
Records == [run: RunStatuses \cup {"NoRow"}, status: Statuses]
Messages == [order: Orders, id: TaskIds]

\* Every variable keeps its type, every index stays within the queue and
\* every id is one that was given out.
TypeOK ==
  /\ lastId \in 0..MaxTasks
  /\ queue \in Seq(1..lastId)
  /\ task \in [TaskIds -> TaskObjects]
  /\ late \in [TaskIds -> 0..MaxRetries]
  /\ row \in [TaskIds -> Records]
  /\ pc \in [Threads -> Labels]
  /\ tid \in [Threads -> 0..lastId]
  /\ \A w \in Threads :
       pc[w] \in LabelsOf(w) /\ (pc[w] \notin AtRest => tid[w] # 0)
  /\ tset \in [Creators -> BackupSets \cup {NoSet}]
  /\ verdict \in [Nodes -> Ended]
  /\ due \subseteq BackupSets
  /\ idx \in 0..Len(queue) + 1
  /\ presence \in [Nodes -> {"Absent", "Idle", "Online"}]
  /\ verified \in [Nodes -> BOOLEAN]
  /\ wire \in [Nodes -> Seq(Messages)]
  /\ received \subseteq TaskIds
  /\ requests \in 0..MaxRequests
  /\ crashes \in 0..MaxCrashes

\* The scheduler's pass stays at the task it works on, although users' threads
\* add tasks to the queue meanwhile: the index it closes, starts or removes a
\* task by is this task's (RemoveAt(i) long after GetByIndex(i)).
PassKeepsItsPlace ==
  /\ pc[Scheduler] = "scan" => idx <= Len(queue)
  /\ pc[Scheduler] \in {"start", "mark", "marked", "complete", "remove"} =>
       /\ idx \in 1..Len(queue)
       /\ queue[idx] = tid[Scheduler]

\* A record that says a task has yet to start is no lie: once the hub has
\* recovered from its last stop, the task is in the queue, or on its way
\* into it.  (CreateTask writes the record before it queues the task,
\* UpdateInterrupted runs once, RemoveAt must take out the task just closed.)
NoTaskForgotten ==
  pc[Scheduler] \notin {"down", "recover"} =>
    \A t \in TaskIds :
      row[t].run = "PendingStart" =>
        t \in Queued \/ \E w \in Creators : pc[w] = "add" /\ tid[w] = t

Live(t) == t \in Queued /\ task[t].run \in {"PendingStart", "Started", "Paused"}

\* As long as users only cancel, a backup set never has two live tasks:
\* the scheduler's TasksQueueExists sees every task that could still run,
\* although tasks are cancelled, marked and closed around it.
OneLiveTaskPerSet ==
  \A t1, t2 \in TaskIds :
    Live(t1) /\ Live(t2) /\ task[t1].set = task[t2].set => t1 = t2

StartOrders(n, t) ==
  {i \in DOMAIN wire[n] : wire[n][i] = [order |-> "STARTTASK", id |-> t]}

\* No task is ordered to start twice, though StartTask's answer is ignored,
\* nodes come and go and the hub is restarted.
StartSentOnce ==
  \A t \in TaskIds, n \in Nodes :
    /\ Cardinality(StartOrders(n, t)) <= 1
    /\ t \in received => StartOrders(n, t) = {}

\* Once a node runs a task, the scheduler never wipes out the warning or the
\* error the node has reported of it (the pass over the queue resets the
\* status of the tasks it is about to start).
NoAlarmCleared ==
  [][\A t \in received \cap Queued :
       task[t].status # "Ok" /\ t \in ToSet(queue') =>
         task'[t].status # "Ok"]_vars

\* The task table keeps the promises of TaskLedger: consecutive numbers,
\* records entered open, each closed once (Save, Complete, UpdateInterrupted).
Ledger == INSTANCE TaskLedger
            WITH OutcomeRuns <- RunStatuses \ {"PendingStart", "Started"}
ImplementsTaskLedger == Ledger!Spec

Pending(t) == t \in Queued /\ task[t].run = "PendingStart"
ToRemove(t) ==
  t \in Queued /\ task[t].run \in {"Done", "Cancelled", "Error"}

\* No task waits for ever: it is started, cancelled, or given up when its
\* node stays away for longer than BackupSet.RetryTime.
PendingResolves == \A t \in TaskIds : Pending(t) ~> ~Pending(t)

\* A task that has ended is closed and taken out of the queue.
EndedLeavesQueue == \A t \in TaskIds : ToRemove(t) ~> ~ToRemove(t)
=============================================================================
