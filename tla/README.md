# A verification development of BackO

BackO is a backup system: a **hub** schedules backup tasks and tells **client
nodes** to run them; a client node reads its files, packs them into chunks and
sends these to **storage nodes** the hub has chosen. Hub and nodes are C#
programs that talk over TLS connections, one for each node, and every message is
handled by the thread that reads the connection it came by. This directory
holds TLA+ models of the system, the TLC runs that check them, and proofs.

## The system

| part | code | state | operations | what is hard |
|---|---|---|---|---|
| Task scheduler | `Hub/TaskScheduler.cs`, `Hub/Collections/TasksList.cs` | `TasksQueue`, the `Task` objects | `Schedule` (recovery, poll, pass), `CreateTask`, `StartTask`, `CancelTask`, `PauseTask`, `UpdateTerminatedTask` | one thread passes over the queue while users' and nodes' threads add to it and write the same statuses; no lock |
| Task table | `Hub/DAL/DAO/TaskDAO.cs`, `Hub/DAL/IdManager.cs` | the table of tasks, the id counter | `Save`, `Complete`, `UpdateInterrupted` | all that survives a crash |
| Node presence | `Hub/Hub.cs`, `Hub/PeerNode.cs`, `Hub/NodesMonitor.cs` | `NodesList`, `Status`, `verified` | `PutNodeOnline`, `ClearNode`, `HandleOfflineNode`, `ApproveNode` | a node may go at any step of a start |
| Storage sessions | `Hub/Hub.cs`, `Common/PeerSession.cs` | `sessionsList`, reservations and loads of the storage nodes | `ChooseStorage`, `CreateStorageSessions`, `RenewStorageSession`, `HandleSessionEvent`, `HandleTaskEvent` | unlocked counts in several threads, renewals with budget left, session numbers |
| Synchronous messages | `Hub/PeerNode.cs` | `syncMessages`, one event per node | `SendMessage` | a late answer meets the next request |
| Jobs of a node | `Node/User.cs`, `Node/UserProtocol.cs` | `currentJobs` | `RunBackup`, `CancelTask`, `BackupDone` | preparation is asynchronous; a cancel may come before |
| Backup pipeline | `Node/BackupManager.cs`, `Node/DataProcessing/ChunkProcessor.cs` | chunk feeds, consumers, the indexer's feed | `Produce`, `SessionReceived`, `Consume`, `AfterTask`, `DoIndex`, `SendIndex`, `Cancel` | producers, consumers and indexer end each other; sessions fail and are replaced |
| Peer transfer | `Node/Session.cs` | budgets, the current chunk | `SendMessageToNode`, `Decode`, `ReceiveChunk` | two sockets, two budgets |
| Due backup sets | `Hub/DAL/DAO/BackupSetDAO.cs` | the schedule | `GetNextToSchedule`, `Update` | window arithmetic at the hour and the day |
| Chunk building | `Node/BackupRootDriveHandler.cs` | the current chunk | `GetNextChunk` | splitting of large files |

Users' requests reach the hub through its remoting server
(`Hub/RemoteOperations.cs`), one thread each. The hub's scheduler thread calls
`CreateTask` and `StartTask`; `StartTask` writes an order to a node's connection;
the node's answers come back through `PeerNode.HandleTaskMessage`, which writes
into the scheduler's task objects; `TaskEvent`, raised when a task has left the
queue, lets `Hub.HandleTaskEvent` drop the task's storage sessions.

The rest of the repository (snapshots, file system access, incremental
providers, deduplication and compression streams, VMware interfaces, the web and
command line interfaces, vendored Mono code) is listed in `PROJECT.json` with
the reason it is not modelled: platform I/O, data transformation without shared
state, generated or third-party code.

What makes each part correct:

- *Scheduler*: a task recorded as open is in the queue; a set has one live task;
  a task is sent once; what a node reports of it is kept; every waiting task is
  started, cancelled or given up; every ended one is closed and removed.
- *Task table*: numbers are consecutive; each record is closed once, by the end
  of its task or by recovery.
- *Storage sessions*: a client is told of a session its storage node knows of; what
  a client may send is accepted; what a node has accepted is held for it in the hub's
  accounts; a node's load is that of its sessions; every backup gets its sessions.
- *Pipeline*: every chunk produced is in the index with a destination that has
  it, or the job reports an error; the index goes out after the last chunk and
  only once; the job ends, cancelled or not.
- *Peer transfer*: no more chunks than the budget; what both ends count agrees.

## Modules

| module | models | refines |
|---|---|---|
| `TaskLedger` | what the task table promises: the abstract specification | |
| `TaskScheduler` | scheduler, task table and node presence on the hub | `TaskLedger` |
| `TaskScheduler_proofs`, `TaskStarts_proofs` | theorems about `TaskScheduler` | |
| `NodeJobs` | the jobs of the nodes, composed with `TaskScheduler` | `TaskScheduler` |
| `NodeJobs_proofs` | theorems about the composition | |
| `StorageSessions` | the hub's storage sessions, with both nodes' ends of a session | |
| `StorageSessions_proofs`, `StorageBudgets_proofs` | theorems about `StorageSessions` | |
| `BackupJob` | what a backup job promises: the abstract specification | |
| `BackupPipeline` | the threads of a backup job on its node | `BackupJob` |
| `BackupPipeline_proofs`, `PipelineIndex_proofs`, `PipelineJob_proofs` | theorems about `BackupPipeline` | |
| `MC_TaskScheduler`, `MC_NodeJobs`, `MC_StorageSessions`, `MC_BackupPipeline` | constants for TLC | |

The modules meet where the code's parts do. `NodeJobs` puts a node's jobs where
`TaskScheduler` has an environment that reports what it likes. `StorageSessions`
keeps of `BackupPipeline` the chunks left, the feeds that wait and the requests for storage,
and of `TaskScheduler` whether the task is in the queue; in `BackupPipeline` the
hub that answers these requests is an environment, as it is in `NodeJobs`.

### TaskScheduler and the code

`queue` is `TasksQueue` (ids, oldest first), `task` the objects (`set`,
`RunStatus` as `run`, `Status` as `status`), `row` the task table, `lastId` the
counter of `IdManager`. A removed task's object is reset when it leaves the
queue, because nothing but its backup set is read afterwards. `late` counts the
passes a task has waited for its node: the code measures minutes since the
creation and a pass takes at least one, so `MaxRetries` stands for
`BackupSet.RetryTime`. `presence` and `verified` describe the node objects in
`NodesList`; `wire` holds the orders written to a connection and not yet read by
the node, `received` the tasks a node has read the start order of.

`pc`, `tid`, `tset` and `verdict` are the local state of the threads: the
scheduler, users' requests and, for each node, the reader of its connection. A
step of a thread reads or writes shared state once and stops where the code
calls the database or the network, or where the next statement depends on
something another thread may change. So `CreateTask` is check, insert and add
(`CreateAllowed`, `CreateSaves`, `CreateAdds`); a start is the write of the
order, `StartTask`'s own mark and the scheduler's second one (`StartSends`,
`StartMarks`, `ScanMarks`); a cancel is the decision, the order and the status
(`RequestCancel`, `CancelSends`, `CancelSets`); the end of a task is the record
and then the removal (`Complete`, `Removes`). The action names are those of the
methods where a method is one step.

`Schedule` has two calls of `RemoveAt(i)`, one for builds with `DEBUG` and one for others.
The file defines the symbol itself (`TaskScheduler.cs:1`), so that whatever the
configuration only the first is compiled, and `Removes` is that one. `TaskEventFails` is
the exception that leaves the scheduler thread.

The nodes are an environment: a node that has read the order to start a task may
report warnings, errors, the end of it or a want of storage, as often and in
any order it likes, while its connection is verified. The model therefore says
nothing of what a correct node reports, and what it shows holds for every node.

Simplifications: the database does not fail; a task's statistics and log are
left out; a task is a backup (`HouseKeeping` sets are excluded); the node's
`UNKNOWN` message is left out, no node sends it; the hub stops by crashing (the
graceful stop also ends the thread between two passes and keeps nothing more);
a user's request counts against `MaxRequests`; the threads of several users
differ only by name.

### NodeJobs and the code

`NodeJobs` extends `TaskScheduler`: each of its steps is a step of the hub with
what it means for the jobs (`Alongside`), a step of a node, or both at once where
a message is read. `job` is how far the job of a task is on its node:

| `job[t]` | in the code |
|---|---|
| `none` | the order to start has not been read, or was refused |
| `preparing` | `RunBackup` has returned, `PrepareAll` runs in a task of its own; not in `currentJobs` |
| `running` | in `currentJobs`, `BackupManager.Run` and its threads at work |
| `leaving`, `done` | `BackupDone` up to `SendDoneTask`, and after its `Remove` |
| `cancelled` | `CancelTask` has ended and removed it |
| `failed` | `PrepareAll` or the test of its result has raised an exception |
| `broken` | a thread of the job has failed: the others are cancelled, the entry in `currentJobs` stays (`BackupManager.UnexpectedError`) |

`outbox` holds what a node has written and the hub has not read, in order; it is
lost with the connection, and what is written while there is none goes into
`pendingHubMessages`, which nothing reads (`lost` remembers of which tasks).
`setOf` is the backup set named in the order, kept because the hub's task object is
forgotten. `erred` are the jobs whose last warning or error was an error.

The hub loses sight of some tasks, and `excused` lists them at the step where that
happens: a refused start (the refusal has no action, `Decode` drops it); a failed
preparation (`UnexpectedError` looks the job up in `currentJobs`, where it is not
yet, and the text `TSK...` it writes first cannot be parsed, which ends the
connection); a thread that fails; `Run` that fails after registration, whose text
ends the connection with the `TASKDONE` behind it; `TASKDONE` or a want of storage
read before the hub's thread that has sent the order marks the task as started,
which overwrites the end; and a hub that stops.

Users make no requests here (`JobsAssumption`): a user who cancels a task has its
set queued again while the node still works on it, and the node's cancelled job
reports `TASK 790` but no `TASKDONE`, so that the task stays `Cancelling`. Those are
consequences of single lines, named under the hazards; with them `OneJobPerSet` is
false. What is left to cancel a job is the hub's want
of storage. Left out: the queries `TASKSTATS` and `EXPIREBACKUP`, restores, the limit of one
job on Windows XP, and a restart of the node's process, which forgets its jobs.

### StorageSessions and the code

`session` are the `PeerSession` objects by id, with `listed` for membership in
`sessionsList`; `reserved`, `used` and `load` are `ReservedSpace`, `StorageUsed` and
`CurrentLoad` of the storage nodes' `PeerNode` objects; `task`, `queued` and
`storageNodes` what the hub knows of each client's task. A client runs one task,
so the client's name stands for it. Sizes are in chunks of the largest size. The
conversions the code makes are kept: the budget of a node is the integer quotient
plus one, the load of a session is the integer quotient 1/priority.

The hub has one thread for each connection, and `pc` says where it is: `idle`
reading messages; `confirm` and `release` in `HandleSessionEvent` between noting the usage
and setting it off (`ConfirmsUsage`, `ReleasesReserved`); `renew` in `RenewStorageSession`;
`unlist`, `remove` and `lower` in the removal of the session an alternate is asked for; `choose`
and `create` in `ChooseStorage` and `CreateStorageSessions`; `send`, `wait`, `reset` in the
synchronous `STORE` request to the storage node (`SendsStore`, `Woken`, `Resets`,
`WaitTimesOut`); `tell`, `reserve`, `book`, `enlist` and `raise` in `CreateStorageSession` after it;
`ring` in a storage node's thread, calling the handlers that its answer is for. `event` is
`PeerNode.syncMsg`, shared by all requests to a node, `handlers` counts the
subscribers of `SyncMessageReceived` and `ringing` those still to be called.
`fromNode` and `toNode` are the connections.

`ReservedSpace` and `CurrentLoad` are read in one step and written in the next, with what
was read in `seen`: a thread between the two overwrites what another has written meanwhile
(`ReadsReserved` and `Reserves`, `ListsSession` and `RaisesLoad`, `RemovesSession` and `LowersLoad`).
Only `ReleasesReserved` is under the node's lock, which the threads that reserve do not
take. The scheduler collects the sessions of a task that has left the queue into `sweep`
(`HandleTaskEvent`) and then removes one after the other (`SweepsSession`, `SweepsLoad`), while the
clients' threads go on; a session one of them removes meanwhile is removed again.

On the nodes, `conn` are a client's `Session` objects and `receiving` those of the
storage nodes, each with the budget that end counts. A chunk's transfer and its
confirmation are one step (`SendsChunk`), the reuse, the connection and the refusal of a
granted session are three (`ReusesSession`, `ConnectsSession`, `ConnectFails`). Of the job
there is what decides which request comes next: the chunks left to send and `feeds`, how many
feeds wait on `chunksFeeds`. A consumer takes a feed (`carries` is then `data`) and stops when its
budget is spent, which puts the feed back, or when its feed is completed (`StopsConsuming`); then
`AfterTask` asks for a renewal whenever a feed waits, with or without budget left (`AsksAgain`), and
ends the session else (`EndsSession`). A session granted when no feed waits goes to `AfterTask` at
once. `OutOfBudget` and `SessionBreaks` ask for an alternate, `AsksIndex` for the index.

What the code does that a reader would not expect is in the model: a new session's id is
the number of sessions plus one, which may be in use (`NewId`, noted in `reused`); too
few nodes with room make `ChooseStorage` call itself without the list of excluded
nodes and fail (`TooFewFails`, `ChoiceFails`), and the request is not answered; nodes are taken by
*descending* load; a listed node whose connection is gone can be chosen (`SendRefused`); the usage
a session reports is what it has handled since it was opened, so that a renewed
session's first period is counted again; the reservation of a task's last
period is not released when the task ends. `used` and `reserved` therefore overstate
what is stored, and `SpaceHeld` and `RoomForEveryBudget` are inequalities.

Three things bound what the properties say. `Prompt` has a confirmation counted before any
thread notes another one or renews a session: the two ends' threads may otherwise
both find a period confirmed and release it twice, or find a renewed one not confirmed
and never release it; without `Prompt`, `SpaceHeld` is false of the code. `Regular` restricts the
accounts to histories in which no storage node was lost, no working session broke, no id was
given twice and no task was cancelled (what a cancelled task has open is never accounted for).
Each behaviour starts from one of `Setups`, which fix sizes, parallelism, the chunks to
store, the feeds they are on, and how many failures there may be: `breaks` of
connections a backup gets over, and `faults`, of nodes and of sessions at work.

Merged into one step, though the code has two: a change of the list of sessions and the read of the
load that follows; a message's removal from the connection and what is looked up first for it; the
read of a grant, the test in `Consume` and the take of a feed; the look-up of a session to create and its
addition or new budget; the removal of a task from the queue and the collection of its sessions.
Left out: the sessions of recovery and housekeeping, storage groups (there is one);
a node that is client and store at once (its thread may then wait for the thread
of a node that waits for it); the subtraction of the database's space for a node that
reconnects (it starts at zero), and its return while a thread is about to write one of its
counts (`Counting`); the exception of a list that changes while the scheduler collects from it;
a first session before the first feeds, and a consumer that waits in `Add` or `Take`, which
are in `BackupPipeline`.

### BackupPipeline and the code

`mega` is `megaQueue` and `drives` what is left in each of its queues; a producer's
feed has the producer's number, `buffer` is the one chunk it holds, `closed` says
that its adding is complete, and `feeds` is `chunksFeeds`. `processing` counts how
often `processingChunks` lists a chunk, `sent` and `disposed` are the states of
`SentEvent`. `consumers` is the list of that name as far as it concerns the latest
task of each session; `stale` says that it also lists an earlier task of one.
`job` is the entry in `currentJobs`: the job leaves it when the hub has been told
that it is done or when it has been cancelled.

Each producer, each consumer with its continuation `AfterTask`, each thread that
reads a storage session, the indexer and the thread that reads the hub's messages
is a process. A step ends where the code waits or reads something shared.
The label `faulted` is a task that has failed and whose continuation
`UnexpectedError` has yet to run; `failing` is that continuation waiting in
`Cancel`. Consumers that fail are not followed by `AfterTask`.

Where an exception is handled decides what the consumer does, and the actions are
split along that: a cancellation inside the `try` of the loop ends it normally
(`CancelledInside`), one at the `Take` of a feed, in the handler of
`SocketException` or at the hand-back fails the task (`CancelledOutside`); data
that cannot be sent is a `SocketException` (`SendBreaks`), the end of a chunk that
cannot is not handled (`SendFails`), and a session that is closed already gives an
exception that the loop takes for the end of the feed (`SendRefused`) or none at
all (`Sends`).

The hub and the storage nodes are an environment. The hub grants what it was
asked for, at any time and with any budget up to `MaxBudget` (the hub's own numbers
are 20 and a share of 20; what matters is that a budget ends before a feed
does), with the same session or another. A storage node confirms what it was sent
at any time while the session lasts. `MaxErrors` and `MaxTimeouts` bound failures
of connections and confirmations later than three minutes.

Two constants restrict the interleavings, because the properties they are used
for are false without them and the reason is known:

- `Prompt`: the places listed in `Windows`, and a confirmation between
  `SentEvent.Set` and the addition to the indexer's feed, are passed before another
  thread moves. These are single statements in a row: the dequeuing of a queue of
  drives, the start of a consumer and its registration, the two operands of
  the `&&` that ends the data backup.
- `FeedsFirst`: the first sessions are granted after the first producers have
  announced their feeds. `pipeline_early_index` shows what happens otherwise.

Simplifications: `doneBdhProducers` is left out, it decides which line is logged,
and a consumer that returns because of it returns for the next test as well; two
producers that share a queue of drives after a double dequeue take whole drives
from it; files that cannot be read are left out of their chunk, the chunk goes
on; sessions have distinct numbers; the deduplication database and SnapshotOnly
backups are left out; there is one job. Nothing completes the adding of
`chunksFeeds`, so the tests of its `IsCompleted` (251, 447) are never true and have
no action.

## Runs

The runs of the scheduler use one client node, one user thread and a connection that holds one
unread order. One node suffices because tasks of different nodes share only the
queue, whose order two tasks already show; the proofs are for any number.

| run | bounds | shows |
|---|---|---|
| `scheduler_start` | 1 set, 2 tasks, 1 manual start, 1 crash | `TypeOK`, `PassKeepsItsPlace`, `NoTaskForgotten` |
| `scheduler_cancel` | 1 set, 2 tasks, 1 cancel, 1 crash | `OneLiveTaskPerSet`, `StartSentOnce`, `NoAlarmCleared`, `ImplementsTaskLedger` |
| `scheduler_requests` | 1 task, 2 requests of any kind, 1 retry | `PendingResolves`, `EndedLeavesQueue` |
| `jobs_reports` | 1 set, 2 tasks, 2 reports, no user, no crash | `JobsTypeOK`, `OneJobPerSet`, `ErrorRecorded`, `DoneMeansOver`, `ReceivedEnds` |

Two tasks are needed for a queue in which one shifts the other, and are created
by the scheduler racing the user in `scheduler_start`, so that both are live at
once. One crash puts a restart between any two steps. The theorem
`NoTaskIsForgotten` covers any number of crashes. A second retry would
repeat the first one's step. In `jobs_reports` the second task of the set is given to
a node that may still have the first; two reports can be an error and a warning in
either order, of one task or of both, apart from those the failures of a
job write, which are not bounded.

| run | drives, parallelism, sessions | failures | interleavings | shows |
|---|---|---|---|---|
| `pipeline_transfers` | one disk of two chunks, 1, 2 | 1 error, 1 timeout | `Prompt`, `FeedsFirst` | `TypeOK`, `FeedNotForgotten`, `ImplementsBackupJob` |
| `pipeline_windows` | two disks of a chunk, 1, 2 | 1 error | all | `ChunkNotForgotten`, `IndexedOnce` |
| `pipeline_ends` | a disk of one chunk and one of none, 2, 1 | cancel | `Prompt`, `FeedsFirst` | `JobEnds`, `CancelReturns` |
| `pipeline_early_index` | one disk, 1, 1 | none | `Prompt` | `IndexAfterLastChunk` is violated |
| `pipeline_hand_back` | three disks, 1, 1 | none | `Prompt`, `FeedsFirst` | `HandBackFindsRoom` is violated |

In all of them a session's budget is one chunk, so that each second chunk of a
feed needs another grant. One failure can strike at every step, and what replaces
the session is then the second one. In `pipeline_windows` the second producer is
started by the first, in `pipeline_ends` a third one may be, before one of the
first two has begun: that one then finds no queue, fails and cancels the job.
With one session of two asked for, `pipeline_ends` has a hub that finds fewer
storage nodes than the parallelism. Deadlock is not checked in these runs: a
job's threads end.

| run | nodes | setups | shows |
|---|---|---|---|
| `storage_budgets` | 1 client, 3 stores | see below | `TypeOK`, `ToldWhenReady`, `BudgetCovered`, `RoomForEveryBudget`, `SpaceHeld`, `BackupEnds` |
| `storage_loads` | 2 clients, 1 store | 2 chunks each, no failures | `LoadIsSessions` is violated |
| `storage_two_clients` | 2 clients, 1 store | 2 chunks each, no failures | `ToldWhenReady` is violated |

The setups of `storage_budgets` (`Varied`): one session at a time for four chunks on two feeds, with
two nodes that have room and a fault, which may be a node that leaves and comes back; two
sessions and a node without the room for a renewal, for four chunks on two feeds, or three on
one and a broken connection; three nodes and a broken connection, for three chunks on two
feeds with one session, or one chunk with two; and two sessions wanted for five chunks on two feeds with
one node that has room for three, and a broken connection. A task is expected to need three
chunks and a renewal carries two (20 and 20 in the code), so that a budget runs out while there
is more to send; on two feeds the first may be completed with budget left and the
session be renewed on top of it; with two sessions the renewal
of one meets the creation of another; and a node given the share of two is asked for a
chunk more than it has room for. At most three ids are in use. The first
node's load counts, that of the others is 0, as the integer quotient has it for any
priority above one. Deadlock is not checked: the backups end. In `storage_loads` and
`storage_two_clients` nothing fails.

What the properties say:

- `NoTaskForgotten`: once the hub has recovered, a record that says a task has
  yet to start belongs to a task in the queue or on its way into it.
- `PassKeepsItsPlace`: the index of the pass and the task it works on agree until
  the removal.
- `OneLiveTaskPerSet`: the test in `CreateTask` keeps a set from having two tasks
  that can still run. It holds while users only cancel. With manual starts the
  test and the addition of two threads interleave and both succeed.
- `StartSentOnce`: no task's start order is written twice.
- `NoAlarmCleared`: while a started task is in the queue, its status never goes
  from a warning or an error back to "Ok".
- `ImplementsTaskLedger`: `TaskScheduler` refines `TaskLedger`. It holds while users
  only cancel: a manual start served before the scheduler thread has recovered
  is closed by the recovery and again at its end.
- `PendingResolves`, `EndedLeavesQueue`: no task waits for ever, and each task that
  has ended is cleared.
- `OneJobPerSet`: a node does not work on two jobs of a backup set. The hub's
  queue and the node's test of `currentJobs` are both needed: the job is in the queue of
  one or in the list of the other.
- `ErrorRecorded`: a job whose last warning or error was an error is not recorded
  as done, unless one of its reports was lost with a connection.
- `DoneMeansOver`: a task is recorded as done only when its node has stopped working on it.
- `ReceivedEnds`: a task whose order to start was read leaves the queue, unless it is `excused`.
- `FeedNotForgotten`: a feed from which chunks may still come is with exactly one
  running consumer or once on `chunksFeeds`.
- `ChunkNotForgotten`: a chunk that has left its producer is on a feed, listed as
  under way, with the indexer, in the index, or was reported to the hub.
- `IndexedOnce`: without a timeout no chunk is twice in the index, though sent twice.
  With one it may be: the chunk goes back on the feed and stays listed.
- `ImplementsBackupJob`: the pipeline refines `BackupJob`: the index is closed only when
  each chunk is in it or reported, and nothing is written into it later.
- `JobEnds`: without failures each job ends, or is cancelled.
- `CancelReturns`: the thread that reads the hub's messages does not stay in `Cancel`.
- `IndexAfterLastChunk` and `HandBackFindsRoom` fail: see the next section.
- `LoadIsSessions` would say that a storage node's load is that of its listed sessions whenever no
  thread is at it. It fails: see the next section.
- `ToldWhenReady`: a client is told of a session when the storage node has read the order
  to open or renew it. It fails with two clients: see the next section.
- `BudgetCovered`: what a client may send, granted or on its way, the storage node
  accepts; the two ends count on their own.
- `RoomForEveryBudget`: what a storage node has accepted to store exceeds its size by
  one request's overdraft at most, which is nothing if the task wants one session at a time.
  Without the overdraft the property fails in the last setup: see the next section.
- `SpaceHeld`: what a storage node has stored or accepted is covered by the hub's
  accounts of used and reserved space.
- `BackupEnds`: each backup ends, or is cancelled for want of space, though budgets end, feeds
  wait with budget left, nodes are full and a connection breaks. Excepted are backups after a
  fault or with an id given twice. A request that finds fewer nodes than it wants is not
  answered (`Hub.cs:522`); no first request of the setups meets that, so the property does not say that
  every request is answered.

Properties of the pipeline hold until the job is interrupted, that is until it is
cancelled or a task has failed whose continuation will cancel it.

**Fairness.** `TaskScheduler`'s `FairSpec` asks weak fairness of `Schedule`, the scheduler thread's
steps, and of nothing else. The thread loops as long as the process lives,
sleeps for a bounded time, waits for no lock and writes to connections that
either take the bytes or fail. Users, nodes and the network owe nothing. When a
connection is full (`MaxWire`) a write can still fail, so a full one blocks no
one. Deadlock is checked in every run of the scheduler and of `NodeJobs`.

`NodeJobs` adds the threads that read a connection at either end and the threads
of a job: a preparation returns, a backup comes to its end (`JobEnds` and `BackupEnds` say
under which conditions). Reports and failures need not happen.

In `BackupPipeline`, `FairSpec` asks weak fairness of each thread of the job, which
runs as long as it can, of the storage node and the reader of its
confirmations, and of the thread that reads the hub's messages with the hub behind
it: a request for a session is answered in the end. Failures, timeouts and the
order to cancel need not happen.

In `StorageSessions`, `FairSpec` asks weak fairness of the hub's thread of each node, of
each node's reader of the hub's messages, of the consumers, of the client's request
for the index and of the scheduler's pass. The time limit of a synchronous request, the
loss of a connection and the return of a node are not fair: `BackupEnds` does not
rest on them.

## Findings

`pipeline_early_index`: `AfterTask` (`BackupManager.cs:399`) takes an empty
`chunksFeeds` and no other consumer for the end of the data backup. `Run` asks for
sessions, loads the deduplication database and only then starts the producers. A
session granted before the first feed is announced makes its consumer return at
once (296), and the index is built and sent with no chunk in it.
`Hub/BUGS.txt:11` lists this as done.

`pipeline_hand_back`: `chunksFeeds` holds one feed more than `realParallelism`, "to
allow feed to be re-added when consumer's budget is expired" (123).
`ContinueProducing` starts producers without regard to that, so with three queues
and a parallelism of one the place is taken and the consumer waits in `Add` (367)
for a room nobody makes.

`storage_two_clients`: `PeerNode.cs:640` says that the hub waits for the storage node's
confirmation so that no client connects to a node that is not ready. All
synchronous requests to a node wait on one event (`syncMsg`, 460), and an answer calls
the handlers of all of them. Two clients' threads that wait for the same node go on at
its first answer: the second client is told of a session the node has not read the
order of.

`storage_loads`: `AddRemoveSession` "also updates the storage node's load accordingly"
(`Hub.cs:381`). The list of sessions is synchronised, the load is not: `+=` and `-=` (393 and
397) read and write it in the threads of the clients' connections and of the scheduler. In
the trace two clients' threads read the load of a node before either writes it, and the
node has two listed sessions and the load of one, which is what nodes are ordered by from
then on (513). Threads that count at once are enough for that; a session that the
scheduler has collected (604) and a client's request for an alternate removes meanwhile
has its load taken off twice as well.

One more disagreement has no run of its own. When fewer nodes have room than sessions are wanted,
`CalculateChunkDestinations` means to "use fewer nodes but require more storage space
from each one" (`Hub.cs:519`), but drops the result of the call that would require it
(522). The nodes found have room for a share among as many as wanted, and are given
a share among those found: in the last setup of `storage_budgets` a node that has room for three
chunks, more than the two it was asked for, accepts four. The attempt to prove that a
node has room for all it accepts showed this. `RoomForEveryBudget` therefore says how far a
node can be overdrawn; without `Overdraft` TLC finds it violated in that setup.

## Proofs

The theorems hold for every value of the constants that satisfies the named
assumptions of the modules: sets of any size, any bounds, any number of threads,
sessions, failures and crashes. The properties they state are checked by
the runs too, on small instances. In each module there is a
lemma for each group of actions with a step for each action, and lemmas on the
operators the actions share.

**The scheduler** (`TaskScheduler_proofs`). `Inv` is `TypeOK` and
`PassKeepsItsPlace`, and gives `TypeCorrect` and `PassInPlace`. `TypeOK` is not
inductive alone: that `task[queue[idx]]` is a task requires the index to be in the
queue, which requires that the pass keeps its place; and that requires of the
types that a thread which works on a task has one.

`NoTaskIsForgotten`: `NoTaskForgotten`. It is inductive only together with `Closing`: the task
whose removal is due is one whose record is closed. `KeepInv` is both.

**Starts and sets** (`TaskStarts_proofs`). `StartInv` says that users' threads
only cancel or pause (`UsersQuiet`), that an order to start is on the connections and
with the nodes at most once (`OrderedOnce`), that the queue names no task twice
(`QueuedOnce`), and that a queued task which waits to be started has not been
ordered, unless the scheduler is just marking it (`StartsFresh`).

- `NoTaskStartsTwice`: `StartSentOnce`, and `AlarmsStay`: `NoAlarmCleared`, if users
  do not start tasks. A user's thread and the scheduler's may be in `StartTask`
  for the same task, and then both send the order.
- `OneTaskPerSet`: `OneLiveTaskPerSet`, if users do nothing but cancel. `LiveInv` adds
  that the tasks of a set which can still run are one (`OneAlive`) and that what
  the test in `CreateTask` found is still so when the task is saved and queued
  (`SetIsFree`), which only holds as long as one thread creates.

**The ledger** (`TaskStarts_proofs`). `TableIsLedger`: `TaskScheduler` implements
`TaskLedger`, if users do nothing but cancel. A step of the hub is a step of the
ledger where it inserts, completes or recovers, and a stutter elsewhere. That a record is
closed once needs `LedgerInv`: a record is open unless it was closed as the code closes it
(`RowsOK`), the queued tasks' records are open, but for the one the pass has just closed
(`QueuedOpen`), and so is that of the task about to be queued (`PassOpen`).

**Jobs** (`NodeJobs_proofs`). `JobsTypes`: `JobsTypeOK`. `JobsSchedule`: the composition implements
`TaskScheduler`; the scheduler's theorems hold of it. `JobsInv` ties the two sides: a task is Done on
the hub only when its `TASKDONE` was read and its job is over (`DoneOK`); which jobs a node
may have (`JobsOK`) and what it may have written of them (`ReportsOK`); and an error which
is a job's last is the last on the connection or the task's status (`AlarmsOK`). The
thread that settles a task is the only one to record it as done, which gives
`DoneTaskIsOver` and, with `AlarmsOK`, `ErrorIsRecorded`.

**Jobs and sets** (`NodeJobs_proofs`). `OneJobOfASet`: `OneJobPerSet`. `ApartInv` says that a task whose order is on its way, or whose job is being
prepared, can still run on the hub (`AwaitedLive`), so that `OneAlive` keeps
another task of its set from being so; a job that is in `currentJobs` is what the
node's own test refuses. `HubInv` is what this needs of the
hub: it starts what is live and closes what has ended; and a task whose end is being
settled is over on its node (`SettlesOver`).

**The pipeline** (`BackupPipeline_proofs`, `PipelineIndex_proofs`, and for
`NoFeedForgotten` `PipelineJob_proofs`).

- `PipelineTypes`: `TypeOK`. `TypeInv` adds that a process has what its label works on
  (`WorkOK`) and who holds the lock.
- `NoChunkForgotten`: `ChunkNotForgotten`, with the chunks the threads hold in their hands
  (`ChunksInv`).
- `NoFeedForgotten`: `FeedNotForgotten`. `FeedsInv`: a feed has one place at most (`OnePlace`), none
  before it was announced (`NotTooEarly`), and one after that for as long as chunks may
  come (`SomePlace`); `LabelsOK` says which labels have none.
- `NoChunkIndexedTwice`: `IndexedOnce`, for drives that give each chunk once
  (`DistinctChunks`; `BackupRootDriveHandler` gives each chunk a name of its own). Its
  invariant says for each chunk that it is in one place only of the drives and
  buffers, the senders, the indexer's feed and the index, as long as no confirmation has been late.

**The pipeline is a job** (`PipelineJob_proofs`). `PipelineIsBackupJob`: `ImplementsBackupJob`,
and `IndexComesLast`: `IndexAfterLastChunk`, if the short windows are left undisturbed (`Prompt`),
the first sessions come after the first feeds (`FeedsFirst`; the run `pipeline_early_index` drops it)
and a producer is started for each queue of drives at once (`Parallelism = Len(Drives)`: what
"auto" gives, and any number not below that of the queues, `BackupManager.cs:116-121`). With fewer
producers the first may be done, and its consumers gone, before `ContinueProducing` has started
the next, and TLC shows the index closed meanwhile. `JobInv` adds to `ChunksInv` and
`FeedsInv` who may be in a window (`Alone`), that the producers share out the queues of drives and have
nothing left when they close their feeds (`TakersOK`, `DrainedOK`), that the first of them have
announced their feeds when there is a session (`FirstOK`), and that a chunk that was sent or is listed is being
sent, being confirmed or done with (`SentOK`). When the last consumer stops, nothing is left
(`NothingLeft`), which is what the closed index stands for (`ClosedOK`).

**Storage sessions** (`StorageSessions_proofs`).

- `StorageTypes`: `TypeOK`. `TypeInv` adds that a thread that confirms or creates a
  session has one's id, and that a node whose answer calls handlers has one left (`WorkOK`).
- `ToldOneAtATime`: `ToldWhenReady`, if no two requests wait for a storage node at a time (`Apart`;
  `storage_two_clients` shows why), and so `OneClientTold`. The invariant (`Settled`) says for
  each storage node that nothing is asked of it, or that the order, the answer, the
  call of the handler or the event, one of them and no other, is there for the request that waits.

**Budgets of sessions** (`StorageBudgets_proofs`). `OneClientCovered`: `BudgetCovered`, for one
client and any number of storage nodes and sessions, with or without `Prompt`. With two clients the
property is false for the reason `storage_two_clients` shows: a client may be told before its storage
node is, and each client's requests change what the other's answers mean.

- `TurnInv` says of each session whose turn it is: the client uses it, or a request that names it is
  on its way, or the hub works on one, or has the storage node open it, or a grant is on its
  way, and no two of these (`OneTurn`); a session that is in turn is in the hub's list
  (`ListedInTurn`), so that its id is not given again; the list, the grant, the client's
  connection and the session under creation lead to one storage node (`OnePlace`), and a
  session that is renewed stays with it (`RenewedOK`). It needs that only what was asked for is
  renewed or removed (`RenewalOK`) and that the scheduler removes sessions only of a task that has left
  the queue (`SweepOK`), whose requests are not accepted any more. Hence there is
  at most one grant that the client has not read, and the sum over grants has one term.
- `BudgetInv` adds that the storage node is asked for the budget the client is told (`OrdersMatch`)
  and that what the client has left, with what it is about to be given once the storage node has read the
  order, is within what the storage node has left (`BudgetOK`).
- Sums are numbers of elements of a disjoint union (`Total`), so that the library's theorems on finite
  sets give what a sum needs (`TotalOfOne`, `TotalOfZeros`) without an induction over data.

Only model-checked: liveness (`PendingResolves`, `EndedLeavesQueue`, `ReceivedEnds`, `JobEnds`,
`CancelReturns`, `BackupEnds`), which under fairness is out of the prover's reach, and the accounts
of storage nodes, `SpaceHeld` and `RoomForEveryBudget`. A theorem
states each other safety invariant and action property of the passing runs, under the
conditions named above; those that ask for a single client or for users who only cancel
are no weaker than what the runs check.

## Plan

1. `ScheduleWindow`: `GetNextToSchedule` against a definition of the sets due, over
   all minutes near the borders of an hour and a day; `ChunkBuilding`, how large
   files are split, in the same manner.
2. `ChunkTransfer`: the sockets of a chunk's transfer and their confirmations;
   `SyncMessages`: the browsing requests that share the event of `STORE`.
3. Theorems: `SpaceHeld` and `RoomForEveryBudget` for one client under `Prompt`, where what is counted as
   used when a period is confirmed must be no less than what was stored of it, although a client may
   tell its usage with budget left; `BudgetCovered` for several clients, if the requests for a
   node follow one another (`Apart`), for which `OneTurn` must be said of each client.
4. Two jobs on one node, which share the static `processingChunks`.

## Not modelled

- *File systems, snapshots, storage layout, incremental providers*: platform I/O. What
  matters of them for the protocols, that a file or a preparation may fail, is in
  the models.
- *Data processing streams, certificates, passwords*: transformations of data without
  shared state.
- *Indexes and deduplication*: a chunk is in the index or not; what is written of
  it is data. The deduplication database has one writer and is a candidate for a
  module of its own.
- *Data access layer*: SQL through an object mapper. The table of tasks, the only one
  that outlives a crash and is written by several threads, is in `TaskLedger`.
- *Task monitor, notifications, node daemon, virtualization*: display, I/O, process
  start-up, generated interfaces.
- *Web and command line interfaces, vendored runtime*: user interfaces and third-party
  code. Of the repository's JavaScript all belongs to these, most of it copies of
  widget libraries; the hub and the nodes, which are modelled, are C#. A figure of coverage
  that counts JavaScript lines therefore says nothing of the models.
