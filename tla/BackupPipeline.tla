--------------------------- MODULE BackupPipeline ---------------------------
(***************************************************************************)
(* A backup job on a client node (Node/BackupManager.cs): producers walk   *)
(* the drives and put chunks on feeds, one consumer for each storage       *)
(* session the hub grants takes a feed and sends its chunks, the threads   *)
(* that read the sessions hand confirmed chunks to the indexer, and the    *)
(* index goes out last.  All of them share the feeds and the lists of      *)
(* running consumers and of chunks under way.                              *)
(*                                                                         *)
(* The hub and the storage nodes are an environment: the hub grants what   *)
(* it was asked for when it likes, with new sessions or renewed ones, and  *)
(* a storage node confirms a chunk it was sent, late, or never.            *)
(***************************************************************************)
EXTENDS Integers, FiniteSets, SequencesExt

CONSTANTS
  Drives,        \* megaQueue: queues of drives, a drive as its chunks
  Parallelism,   \* realParallelism
  Producers,     \* threads that run Produce, numbered as they start
  Sessions,      \* storage sessions, and the consumers that use them
  HubReader,     \* the thread that reads the hub's messages
  Indexer,       \* the indexing thread
  NoChunk,       \* "no chunk"
  MaxBudget,     \* the most chunks one grant of the hub allows
  MaxErrors,     \* bound on the failures of connections
  MaxTimeouts,   \* bound on the confirmations that are late
  UserCancels,   \* does the hub order the job's cancellation?
  Prompt,        \* are the short windows of Windows left undisturbed?
  FeedsFirst     \* do the first grants come after the first feeds?

Queues == DOMAIN Drives
Chunks == UNION {UNION {ToSet(Drives[q][d]) : d \in DOMAIN Drives[q]} : q \in Queues}
Threads == Producers \cup Sessions \cup {HubReader, Indexer}

ASSUME ConstantsAssumption ==
  /\ Drives \in Seq(Seq(Seq(Chunks)))
  /\ Parallelism \in 1..Len(Drives)
  /\ IsFiniteSet(Producers)
  /\ Producers = 1..Cardinality(Producers)
  /\ Parallelism \in Producers
  /\ NoChunk \notin Chunks
  /\ Sessions # {}
  /\ HubReader \notin Producers \cup Sessions
  /\ Indexer \notin Producers \cup Sessions \cup {HubReader}
  /\ Producers \cap Sessions = {}
  /\ MaxBudget \in Nat \ {0}
  /\ MaxErrors \in Nat
  /\ MaxTimeouts \in Nat
  /\ UserCancels \in BOOLEAN
  /\ Prompt \in BOOLEAN
  /\ FeedsFirst \in BOOLEAN

VARIABLES
  pc,          \* where each thread is
  mega,        \* megaQueue: the queues of drives no producer has yet
  drives,      \* the drives left in each of those queues
  mine,        \* the queue of drives of each producer
  todo,        \* the chunks a producer's current drive has yet to give
  buffer,      \* the chunk on each producer's feed, if there is one
  closed,      \* the feeds whose adding is complete
  feeds,       \* chunksFeeds: the feeds no consumer works on
  feed,        \* the feed each consumer works on
  held,        \* the chunk each consumer sends
  budget,      \* Session.Budget
  open,        \* the sessions whose connection is open
  wire,        \* chunks a session's storage node has yet to confirm
  consumers,   \* consumers: the sessions whose latest task it lists
  stale,       \* does it list an earlier, completed task?
  processing,  \* processingChunks: how often it lists each chunk
  sent,        \* the chunks whose SentEvent is set
  disposed,    \* the chunks whose SentEvent has been disposed of
  reading,     \* the chunk a session's reading thread is confirming
  indexFeed,   \* indexerChunksFeed
  indexClosed, \* is its adding complete?
  index,       \* the index of the backup
  fresh,       \* sessions the hub owes to requests for a new one
  renewals,    \* sessions the hub was asked to renew
  serving,     \* the session the hub's reader starts a consumer for
  awaits,      \* the tasks a thread in Cancel waits for
  cancelled,   \* cancellationTokenSource.IsCancellationRequested
  job,         \* the job's entry in the node's currentJobs
  reported,    \* chunks reported to the hub as not sent in time (811)
  errors, timeouts

production == <<mega, drives, mine, todo>>
feedState == <<buffer, closed, feeds>>
working == <<feed, held, budget>>
storage == <<open, wire>>
tasks == <<consumers, stale>>
underway == <<processing, sent, disposed, reading>>
indexing == <<indexFeed, indexClosed, index>>
asked == <<fresh, renewals, serving>>
ending == <<awaits, cancelled, job>>
counters == <<reported, errors, timeouts>>
vars == <<pc, production, feedState, working, storage, tasks, underway,
          indexing, asked, ending, counters>>

-----------------------------------------------------------------------------
\* The places between two statements whose order the code relies on and does
\* not enforce; a reading thread with a chunk in "reading" is in one too.
Windows == {"dequeuing", "continuing", "registering", "emptied"}

Undisturbed(w) ==
  Prompt => /\ \A v \in Threads \ {w} : pc[v] \notin Windows
            /\ \A s \in Sessions : reading[s] = NoChunk

At(w, label) == pc[w] = label /\ Undisturbed(w)
Goto(w, label) == pc' = [pc EXCEPT ![w] = label]

\* BlockingCollection.IsCompleted of a producer's feed.
Completed(p) == p \in closed /\ buffer[p] = <<>>

\* chunksFeeds has this capacity.
FeedsCapacity == Parallelism + 1
IndexFeedCapacity == Parallelism + 1

\* The consumer's task has not completed.
Running(s) == pc[s] \in {"start", "take", "loop", "send", "wait", "requeue",
                         "resend", "handback"}

\* The session's confirmations reach ManageChunkSent.
Listening(s) ==
  \/ Running(s) /\ pc[s] # "start"
  \/ pc[s] \in {"faulted", "failing", "dead"}

\* processingChunks is locked while a confirmation is handled.
Unlocked == \A s \in Sessions : reading[s] = NoChunk

Fails == errors < MaxErrors /\ errors' = errors + 1

Disconnects(s) ==
  /\ open' = open \ {s}
  /\ wire' = [wire EXCEPT ![s] = {}]

Init ==
  /\ pc = [w \in Threads |->
             CASE w \in Sessions -> "none"
               [] w = HubReader -> "idle"
               [] w = Indexer -> "created"
               [] OTHER -> IF w <= Parallelism THEN "begin" ELSE "off"]
  /\ mega = [q \in Queues |-> q]
  /\ drives = Drives
  /\ mine = [p \in Producers |-> 0]
  /\ todo = [p \in Producers |-> <<>>]
  /\ buffer = [p \in Producers |-> <<>>]
  /\ closed = {}
  /\ feeds = <<>>
  /\ feed = [s \in Sessions |-> 0]
  /\ held = [s \in Sessions |-> NoChunk]
  /\ budget = [s \in Sessions |-> 0]
  /\ open = {}
  /\ wire = [s \in Sessions |-> {}]
  /\ consumers = {}
  /\ stale = FALSE
  /\ processing = [k \in Chunks |-> 0]
  /\ sent = {}
  /\ disposed = {}
  /\ reading = [s \in Sessions |-> NoChunk]
  /\ indexFeed = <<>>
  /\ indexClosed = FALSE
  /\ index = <<>>
  /\ fresh = Parallelism
  /\ renewals = {}
  /\ serving = CHOOSE s \in Sessions : TRUE
  /\ awaits = [w \in Threads |-> {}]
  /\ cancelled = FALSE
  /\ job = "running"
  /\ reported = {}
  /\ errors = 0
  /\ timeouts = 0

-----------------------------------------------------------------------------
(* Producers.  megaQueue is not synchronised: of two threads that dequeue    *)
(* at once both may get its first queue, and its head moves once or twice.   *)

MovesHead(q) ==
  IF mega # <<>> /\ Head(mega) = q
  THEN mega' = Tail(mega)
  ELSE \/ UNCHANGED mega
       \/ mega # <<>> /\ mega' = Tail(mega)

\* The producers Run starts take their queue themselves.
Dequeues(p) ==
  /\ At(p, "begin")
  /\ mega # <<>>
  /\ mine' = [mine EXCEPT ![p] = Head(mega)]
  /\ Goto(p, "dequeuing")
  /\ UNCHANGED <<mega, drives, todo, feedState, working, storage, tasks,
                 underway, indexing, asked, ending, counters>>

\* Those that went before, and what they started, have left no queue.
DequeueFails(p) ==
  /\ At(p, "begin")
  /\ mega = <<>>
  /\ Goto(p, "faulted")
  /\ UNCHANGED <<production, feedState, working, storage, tasks, underway,
                 indexing, asked, ending, counters>>

Dequeued(p) ==
  /\ pc[p] = "dequeuing"
  /\ MovesHead(mine[p])
  /\ Goto(p, "announce")
  /\ UNCHANGED <<drives, mine, todo, feedState, working, storage, tasks,
                 underway, indexing, asked, ending, counters>>

\* Waits for room on chunksFeeds, whether or not the job is cancelled.
Announces(p) ==
  /\ At(p, "announce")
  /\ Len(feeds) < FeedsCapacity
  /\ feeds' = Append(feeds, p)
  /\ Goto(p, "collect")
  /\ UNCHANGED <<production, buffer, closed, working, storage, tasks, underway,
                 indexing, asked, ending, counters>>

NextDrive(p) ==
  /\ At(p, "collect")
  /\ drives[mine[p]] # <<>>
  /\ todo' = [todo EXCEPT ![p] = Head(drives[mine[p]])]
  /\ drives' = [drives EXCEPT ![mine[p]] = Tail(@)]
  /\ Goto(p, "offer")
  /\ UNCHANGED <<mega, mine, feedState, working, storage, tasks, underway,
                 indexing, asked, ending, counters>>

\* A feed holds one chunk.
Offers(p) ==
  /\ At(p, "offer")
  /\ ~cancelled
  /\ todo[p] # <<>>
  /\ buffer[p] = <<>>
  /\ buffer' = [buffer EXCEPT ![p] = <<Head(todo[p])>>]
  /\ todo' = [todo EXCEPT ![p] = Tail(@)]
  /\ UNCHANGED <<pc, mega, drives, mine, closed, feeds, working, storage, tasks,
                 underway, indexing, asked, ending, counters>>

\* The addition is cancelled; the feed's adding is not completed.
OfferCancelled(p) ==
  /\ At(p, "offer")
  /\ cancelled
  /\ todo[p] # <<>>
  /\ Goto(p, "ended")
  /\ UNCHANGED <<production, feedState, working, storage, tasks, underway,
                 indexing, asked, ending, counters>>

\* The drive is done, or abandoned: on to the next drive of the queue.
DriveEnds(p) ==
  /\ At(p, "offer")
  /\ \/ todo[p] = <<>> /\ mega = <<>>
     \/ cancelled
  /\ todo' = [todo EXCEPT ![p] = <<>>]
  /\ Goto(p, "collect")
  /\ UNCHANGED <<mega, drives, mine, feedState, working, storage, tasks,
                 underway, indexing, asked, ending, counters>>

\* ContinueProducing: after each drive, a thread is started for the next queue.
Continues(p) ==
  /\ At(p, "offer")
  /\ ~cancelled
  /\ todo[p] = <<>>
  /\ mega # <<>>
  /\ \E n \in Producers :
       /\ pc[n] = "off"
       /\ \A m \in Producers : m < n => pc[m] # "off"
       /\ mine' = [mine EXCEPT ![n] = Head(mega)]
       /\ pc' = [pc EXCEPT ![n] = "created", ![p] = "continuing"]
  /\ UNCHANGED <<mega, drives, todo, feedState, working, storage, tasks,
                 underway, indexing, asked, ending, counters>>

Continued(p) ==
  /\ pc[p] = "continuing"
  /\ \E n \in Producers :
       /\ pc[n] = "created"
       /\ MovesHead(mine[n])
       /\ pc' = [pc EXCEPT ![n] = "announce", ![p] = "collect"]
  /\ UNCHANGED <<drives, mine, todo, feedState, working, storage, tasks,
                 underway, indexing, asked, ending, counters>>

\* All drives of the queue are done: CompleteAdding.
ClosesFeed(p) ==
  /\ At(p, "collect")
  /\ drives[mine[p]] = <<>>
  /\ closed' = closed \cup {p}
  /\ Goto(p, "ended")
  /\ UNCHANGED <<production, buffer, feeds, working, storage, tasks, underway,
                 indexing, asked, ending, counters>>

Produce(p) ==
  \/ Dequeues(p) \/ DequeueFails(p) \/ Dequeued(p) \/ Announces(p)
  \/ NextDrive(p) \/ Offers(p) \/ OfferCancelled(p) \/ DriveEnds(p)
  \/ Continues(p) \/ Continued(p) \/ ClosesFeed(p)

-----------------------------------------------------------------------------
(* The hub grants sessions; its reader starts a consumer for each.           *)

\* The request the hub answers with session s: for a new session, to renew s,
\* or to renew one that the hub could not renew and replaces.
Answers(s) ==
  \/ pc[s] = "none" /\ fresh > 0 /\ fresh' = fresh - 1 /\ UNCHANGED renewals
  \/ s \in renewals /\ renewals' = renewals \ {s} /\ UNCHANGED fresh
  \/ /\ pc[s] = "none"
     /\ \E r \in renewals : renewals' = renewals \ {r}
     /\ UNCHANGED fresh

FirstFeedsAnnounced ==
  \A p \in 1..Parallelism : pc[p] \notin {"begin", "dequeuing", "announce"}

\* GetStorageSession reuses the session if it is open, with what is left of
\* its budget, or connects; SessionReceived starts the consumer's task.
SessionReceived(s) ==
  /\ At(HubReader, "idle")
  /\ job = "running"
  /\ FeedsFirst => FirstFeedsAnnounced
  /\ Answers(s)
  /\ \E n \in 1..MaxBudget :
       budget' = [budget EXCEPT ![s] = n + IF s \in open THEN @ ELSE 0]
  /\ open' = open \cup {s}
  /\ pc' = [pc EXCEPT ![s] = "start", ![HubReader] = "registering"]
  /\ serving' = s
  /\ stale' = (stale \/ s \in consumers)
  /\ consumers' = consumers \ {s}
  /\ UNCHANGED <<production, feedState, feed, held, wire, underway, indexing,
                 ending, counters>>

\* The storage node cannot be reached: the hub is asked for another.
SessionFails(s) ==
  /\ At(HubReader, "idle")
  /\ job = "running"
  /\ Fails
  /\ \/ pc[s] = "none" /\ fresh > 0 /\ UNCHANGED <<fresh, renewals>>
     \/ /\ s \in renewals \ open
        /\ renewals' = renewals \ {s}
        /\ fresh' = fresh + 1
  /\ UNCHANGED <<pc, production, feedState, working, storage, tasks, underway,
                 indexing, serving, ending, reported, timeouts>>

\* consumers.Add, after the task has been started.
Registers ==
  /\ pc[HubReader] = "registering"
  /\ consumers' = consumers \cup {serving}
  /\ Goto(HubReader, "idle")
  /\ UNCHANGED <<production, feedState, working, storage, stale, underway,
                 indexing, asked, ending, counters>>

-----------------------------------------------------------------------------
(* Consumers.                                                                *)

ConsumeReturns(s) ==
  /\ At(s, "start")
  /\ feeds = <<>>
  /\ Goto(s, "after")
  /\ UNCHANGED <<production, feedState, working, storage, tasks, underway,
                 indexing, asked, ending, counters>>

ConsumeBegins(s) ==
  /\ At(s, "start")
  /\ feeds # <<>>
  /\ Goto(s, "take")
  /\ UNCHANGED <<production, feedState, working, storage, tasks, underway,
                 indexing, asked, ending, counters>>

\* chunksFeeds.Take waits for a feed.
TakesFeed(s) ==
  /\ At(s, "take")
  /\ ~cancelled
  /\ feeds # <<>>
  /\ feed' = [feed EXCEPT ![s] = Head(feeds)]
  /\ feeds' = Tail(feeds)
  /\ Goto(s, "loop")
  /\ UNCHANGED <<production, buffer, closed, held, budget, storage, tasks,
                 underway, indexing, asked, ending, counters>>

\* Where no handler is: the consumer's task fails.
CancelledOutside(s) ==
  /\ At(s, "take") \/ At(s, "handback") \/ At(s, "resend")
  /\ cancelled
  /\ Goto(s, "faulted")
  /\ UNCHANGED <<production, feedState, working, storage, tasks, underway,
                 indexing, asked, ending, counters>>

\* Mutant: the token is not passed to the Take of the next chunk.
CancellableButForTake == {"send", "wait", "requeue"}

\* Where a consumer that waits or works notices that the job is cancelled.
Cancellable == {"loop", "send", "wait", "requeue"}

\* The exception is handled and the consumer's task ends.
CancelledInside(s) ==
  /\ pc[s] \in Cancellable
  /\ Undisturbed(s)
  /\ cancelled
  /\ \/ UNCHANGED storage
     \/ pc[s] = "loop" /\ Disconnects(s)
  /\ Goto(s, "after")
  /\ UNCHANGED <<production, feedState, working, tasks, underway, indexing,
                 asked, ending, counters>>

\* Mutant: one chunk more than the budget.
HasBudgetOrNone(s) == budget[s] >= 0

HasBudget(s) == budget[s] > 0

\* Mutant: Count > 0 instead of !IsCompleted.
ReAddsIfChunk(s) == buffer[feed[s]] # <<>>

\* Is the feed put on chunksFeeds again by a consumer that leaves it?
ReAdds(s) == ~Completed(feed[s])

LeavesLoop(s) ==
  /\ At(s, "loop")
  /\ Completed(feed[s]) \/ ~HasBudget(s)
  /\ Goto(s, IF ReAdds(s) THEN "handback" ELSE "after")
  /\ UNCHANGED <<production, feedState, working, storage, tasks, underway,
                 indexing, asked, ending, counters>>

TakesChunk(s) ==
  /\ At(s, "loop")
  /\ ~cancelled
  /\ HasBudget(s)
  /\ buffer[feed[s]] # <<>>
  /\ Unlocked
  /\ LET k == Head(buffer[feed[s]]) IN
       /\ held' = [held EXCEPT ![s] = k]
       /\ processing' = [processing EXCEPT ![k] = @ + 1]
  /\ buffer' = [buffer EXCEPT ![feed[s]] = <<>>]
  /\ Goto(s, "send")
  /\ UNCHANGED <<production, closed, feeds, feed, budget, storage, tasks, sent,
                 disposed, reading, indexing, asked, ending, counters>>

\* Mutant: a chunk that is given up is only logged.
ReportedNot(k) == reported

\* AddHubNotificationEvent(811, chunk.Name, ...)
Reported(k) == reported \cup {k}

\* ChunkProcessor.Process; on a closed session the end goes out unheard.
Sends(s) ==
  /\ At(s, "send")
  /\ budget' = [budget EXCEPT ![s] = @ - 1]
  /\ IF s \in open
     THEN wire' = [wire EXCEPT ![s] = @ \cup {held[s]}] /\ UNCHANGED reported
     ELSE UNCHANGED wire /\ reported' \in {reported, Reported(held[s])}
  /\ Goto(s, "wait")
  /\ UNCHANGED <<production, feedState, feed, held, open, tasks, underway,
                 indexing, asked, ending, errors, timeouts>>

\* The session is closed: the hub is told, but the exception is taken for the
\* one that says that the feed has ended.
SendRefused(s) ==
  /\ At(s, "send")
  /\ s \notin open
  /\ reported' = Reported(held[s])
  /\ Goto(s, "loop")
  /\ UNCHANGED <<production, feedState, working, storage, tasks, underway,
                 indexing, asked, ending, errors, timeouts>>

\* Mutant: the chunk stays listed when it is to be sent again.
RemovedNot(k) == processing

\* RemoveChunk
Removed(k) == [processing EXCEPT ![k] = 0]

\* The connection fails while the data is sent: another session is asked for.
SendBreaks(s) ==
  /\ At(s, "send")
  /\ s \in open
  /\ Unlocked
  /\ Fails
  /\ reported' = Reported(held[s])
  /\ processing' = Removed(held[s])
  /\ fresh' = fresh + 1
  /\ Goto(s, "resend")
  /\ UNCHANGED <<production, feedState, working, storage, tasks, sent, disposed,
                 reading, indexing, renewals, serving, ending, timeouts>>

\* The connection fails when the chunk's last data and its end are sent.
SendFails(s) ==
  /\ At(s, "send")
  /\ IF s \in open THEN Fails ELSE UNCHANGED errors
  /\ Goto(s, "faulted")
  /\ UNCHANGED <<production, feedState, working, storage, tasks, underway,
                 indexing, asked, ending, reported, timeouts>>

\* SentEvent.Wait returns, or throws because the event is disposed of.
Confirmed(s) ==
  /\ At(s, "wait")
  /\ held[s] \in sent \cup disposed
  /\ disposed' = disposed \cup {held[s]}
  /\ Goto(s, "loop")
  /\ UNCHANGED <<production, feedState, working, storage, tasks, processing,
                 sent, reading, indexing, asked, ending, counters>>

TimesOut(s) ==
  /\ At(s, "wait")
  /\ held[s] \notin sent \cup disposed
  /\ timeouts < MaxTimeouts
  /\ timeouts' = timeouts + 1
  /\ reported' = Reported(held[s])
  /\ Goto(s, "requeue")
  /\ UNCHANGED <<production, feedState, working, storage, tasks, underway,
                 indexing, asked, ending, errors>>

\* After a timeout SentEvent is disposed of, after a broken connection it is not.
DisposedAfterRetry(s) ==
  IF pc[s] = "requeue" THEN disposed \cup {held[s]} ELSE disposed

\* The chunk goes back on the feed, if need be after waiting for room.
Retries(s) ==
  /\ At(s, "requeue") \/ At(s, "resend")
  /\ ~cancelled
  /\ feed[s] \notin closed
  /\ buffer[feed[s]] = <<>>
  /\ buffer' = [buffer EXCEPT ![feed[s]] = <<held[s]>>]
  /\ disposed' = DisposedAfterRetry(s)
  /\ Goto(s, "loop")
  /\ UNCHANGED <<production, closed, feeds, working, storage, tasks, processing,
                 sent, reading, indexing, asked, ending, counters>>

\* The feed's adding is complete: the chunk is given up.
GivesUp(s) ==
  /\ At(s, "requeue") \/ At(s, "resend")
  /\ ~cancelled
  /\ feed[s] \in closed
  /\ disposed' = DisposedAfterRetry(s)
  /\ Goto(s, "loop")
  /\ UNCHANGED <<production, feedState, working, storage, tasks, processing,
                 sent, reading, indexing, asked, ending, counters>>

HandsBack(s) ==
  /\ At(s, "handback")
  /\ ~cancelled
  /\ Len(feeds) < FeedsCapacity
  /\ feeds' = Append(feeds, feed[s])
  /\ Goto(s, "after")
  /\ UNCHANGED <<production, buffer, closed, working, storage, tasks, underway,
                 indexing, asked, ending, counters>>

Consume(s) ==
  \/ ConsumeReturns(s) \/ ConsumeBegins(s) \/ TakesFeed(s)
  \/ CancelledOutside(s) \/ CancelledInside(s) \/ LeavesLoop(s)
  \/ TakesChunk(s) \/ Sends(s) \/ SendRefused(s) \/ Confirmed(s)
  \/ Retries(s) \/ GivesUp(s) \/ HandsBack(s)

-----------------------------------------------------------------------------
(* AfterTask, the continuation of a consumer that has not failed.            *)

\* Completed tasks are removed from the list, under its lock.
Sweeps(s) ==
  /\ At(s, "after")
  /\ consumers' = {c \in consumers : Running(c)}
  /\ stale' = FALSE
  /\ feed' = [feed EXCEPT ![s] = 0]
  /\ held' = [held EXCEPT ![s] = NoChunk]
  /\ Goto(s, "swept")
  /\ UNCHANGED <<production, feedState, budget, storage, underway, indexing,
                 asked, ending, counters>>

\* Mutant: off by one.
SessionNeededForTwo == Len(feeds) > 1 /\ ~cancelled

SessionNeeded == feeds # <<>> /\ ~cancelled

AsksAgain(s) ==
  /\ At(s, "swept")
  /\ SessionNeeded
  /\ renewals' = renewals \cup {s}
  /\ Goto(s, "idle")
  /\ UNCHANGED <<production, feedState, working, storage, tasks, underway,
                 indexing, fresh, serving, ending, counters>>

EndsSession(s) ==
  /\ At(s, "swept")
  /\ ~SessionNeeded
  /\ Disconnects(s)
  /\ Goto(s, "closing")
  /\ UNCHANGED <<production, feedState, working, tasks, underway, indexing,
                 asked, ending, counters>>

\* The end cannot be sent, and the continuation fails.
EndFails(s) ==
  /\ At(s, "swept")
  /\ ~SessionNeeded
  /\ s \in open
  /\ Fails
  /\ Goto(s, "idle")
  /\ UNCHANGED <<production, feedState, working, storage, tasks, underway,
                 indexing, asked, ending, reported, timeouts>>

SeesNoFeeds(s) ==
  /\ At(s, "closing")
  /\ Goto(s, IF feeds = <<>> THEN "emptied" ELSE "idle")
  /\ UNCHANGED <<production, feedState, working, storage, tasks, underway,
                 indexing, asked, ending, counters>>

\* Mutant: only chunksFeeds is tested.
NoConsumerLeftUnasked == TRUE

NoConsumerLeft == consumers = {} /\ ~stale

\* Nothing more will be handed to the indexer.
DataBackupDone(s) ==
  /\ pc[s] = "emptied"
  /\ indexClosed' = (indexClosed \/ NoConsumerLeft)
  /\ Goto(s, "idle")
  /\ UNCHANGED <<production, feedState, working, storage, tasks, underway,
                 indexFeed, index, asked, ending, counters>>

AfterTask(s) ==
  \/ Sweeps(s) \/ AsksAgain(s) \/ EndsSession(s) \/ SeesNoFeeds(s)
  \/ DataBackupDone(s)

-----------------------------------------------------------------------------
(* A session's reading thread and the storage node behind it.                *)

\* ManageChunkSent, up to SentEvent.Set.
ManageChunkSent(s) ==
  /\ Undisturbed(s)
  /\ Unlocked
  /\ Listening(s)
  /\ \E k \in wire[s] :
       /\ processing[k] > 0
       /\ wire' = [wire EXCEPT ![s] = @ \ {k}]
       /\ sent' = sent \cup {k}
       /\ reading' = [reading EXCEPT ![s] = k]
  /\ UNCHANGED <<pc, production, feedState, working, open, tasks, processing,
                 disposed, indexing, asked, ending, counters>>

\* No one listens any more, or the chunk is not listed.
ConfirmationIgnored(s) ==
  /\ Undisturbed(s)
  /\ Unlocked
  /\ \E k \in wire[s] :
       /\ ~Listening(s) \/ processing[k] = 0
       /\ wire' = [wire EXCEPT ![s] = @ \ {k}]
  /\ UNCHANGED <<pc, production, feedState, working, open, tasks, underway,
                 indexing, asked, ending, counters>>

\* The rest, once for each time the chunk is listed.
HandsToIndexer(s) ==
  /\ reading[s] # NoChunk
  /\ ~cancelled
  /\ ~indexClosed
  /\ Len(indexFeed) < IndexFeedCapacity
  /\ indexFeed' = Append(indexFeed, reading[s])
  /\ processing' = [processing EXCEPT ![reading[s]] = @ - 1]
  /\ reading' = IF processing[reading[s]] > 1 THEN reading
                ELSE [reading EXCEPT ![s] = NoChunk]
  /\ UNCHANGED <<pc, production, feedState, working, storage, tasks, sent,
                 disposed, indexClosed, index, asked, ending, counters>>

\* The indexer's feed takes no more, and the exception ends the session.
IndexerRefuses(s) ==
  /\ reading[s] # NoChunk
  /\ cancelled \/ indexClosed
  /\ reading' = [reading EXCEPT ![s] = NoChunk]
  /\ Disconnects(s)
  /\ UNCHANGED <<pc, production, feedState, working, tasks, processing, sent,
                 disposed, indexing, asked, ending, counters>>

Read(s) ==
  \/ ManageChunkSent(s) \/ ConfirmationIgnored(s) \/ HandsToIndexer(s)
  \/ IndexerRefuses(s)

\* The storage node ends the session, because of an error or out of reach.
SessionBreaks(s) ==
  /\ s \in open
  /\ Undisturbed(s)
  /\ reading[s] = NoChunk
  /\ Fails
  /\ Disconnects(s)
  /\ UNCHANGED <<pc, production, feedState, working, tasks, underway, indexing,
                 asked, ending, reported, timeouts>>

-----------------------------------------------------------------------------
(* The indexing thread.                                                      *)

\* A task whose token is cancelled before it starts never runs.
IndexerStarts ==
  /\ pc[Indexer] = "created"
  /\ Goto(Indexer, IF cancelled THEN "never" ELSE "index")
  /\ UNCHANGED <<production, feedState, working, storage, tasks, underway,
                 indexing, asked, ending, counters>>

Indexes ==
  /\ pc[Indexer] = "index"
  /\ ~cancelled
  /\ indexFeed # <<>>
  /\ index' = Append(index, Head(indexFeed))
  /\ indexFeed' = Tail(indexFeed)
  /\ UNCHANGED <<pc, production, feedState, working, storage, tasks, underway,
                 indexClosed, asked, ending, counters>>

\* DoIndex returns and ProcessIndex runs, after a cancellation too.
IndexerEnds ==
  /\ pc[Indexer] = "index"
  /\ cancelled \/ (indexClosed /\ indexFeed = <<>>)
  /\ Goto(Indexer, "process")
  /\ UNCHANGED <<production, feedState, working, storage, tasks, underway,
                 indexing, asked, ending, counters>>

\* StorageNeeded has no subscriber any more once the job is cancelled.
ProcessIndex ==
  /\ pc[Indexer] = "process"
  /\ Goto(Indexer, IF job = "running" THEN "asked" ELSE "stuck")
  /\ UNCHANGED <<production, feedState, working, storage, tasks, underway,
                 indexing, asked, ending, counters>>

\* The hub grants a session for the index.
SendIndex ==
  /\ At(HubReader, "idle")
  /\ pc[Indexer] = "asked"
  /\ job = "running"
  /\ Goto(Indexer, "sending")
  /\ UNCHANGED <<production, feedState, working, storage, tasks, underway,
                 indexing, asked, ending, counters>>

\* It cannot be reached; what the hub is asked for then is a session for data.
IndexSessionFails ==
  /\ At(HubReader, "idle")
  /\ pc[Indexer] = "asked"
  /\ job = "running"
  /\ Fails
  /\ fresh' = fresh + 1
  /\ Goto(Indexer, "stuck")
  /\ UNCHANGED <<production, feedState, working, storage, tasks, underway,
                 indexing, renewals, serving, ending, reported, timeouts>>

\* The index is sent, and the hub is told that the task is done.
BackupDone ==
  /\ pc[Indexer] = "sending"
  /\ Goto(Indexer, "done")
  /\ job' = IF job = "running" THEN "done" ELSE job
  /\ UNCHANGED <<production, feedState, working, storage, tasks, underway,
                 indexing, asked, awaits, cancelled, counters>>

\* Nothing handles a failure of the task that sends the index.
IndexNotSent ==
  /\ pc[Indexer] = "sending"
  /\ Fails
  /\ Goto(Indexer, "stuck")
  /\ UNCHANGED <<production, feedState, working, storage, tasks, underway,
                 indexing, asked, ending, reported, timeouts>>

Index == IndexerStarts \/ Indexes \/ IndexerEnds \/ ProcessIndex \/ BackupDone

-----------------------------------------------------------------------------
(* BackupManager.Cancel, called for the hub's order and after an error.      *)

CancelsAndWaits(w, label) ==
  /\ cancelled' = TRUE
  /\ awaits' = [awaits EXCEPT ![w] = consumers]
  /\ Goto(w, label)

CancelTask ==
  /\ At(HubReader, "idle")
  /\ UserCancels
  /\ job = "running"
  /\ ~cancelled
  /\ CancelsAndWaits(HubReader, "cancelling")
  /\ UNCHANGED <<production, feedState, working, storage, tasks, underway,
                 indexing, asked, job, counters>>

\* A producer or a consumer failed, and its continuation cancels the job.
UnexpectedError(w) ==
  /\ At(w, "faulted")
  /\ CancelsAndWaits(w, "failing")
  /\ UNCHANGED <<production, feedState, working, storage, tasks, underway,
                 indexing, asked, job, counters>>

\* Tasks that have completed with an error, or were disposed of since, make
\* Task.WaitAll throw when all have completed.
AllCompleted(w) == \A s \in awaits[w] : ~Running(s)
SomeFailed(w) == \E s \in awaits[w] : pc[s] \in {"faulted", "failing", "dead"}
SomeDisposed(w) == \E s \in awaits[w] : s \notin consumers

\* After the hub's order the job leaves currentJobs, unless Cancel throws.
CancelEnds ==
  /\ pc[HubReader] = "cancelling"
  /\ AllCompleted(HubReader)
  /\ \/ /\ SomeFailed(HubReader) \/ SomeDisposed(HubReader)
        /\ UNCHANGED <<indexClosed, job>>
     \/ ~SomeFailed(HubReader) /\ indexClosed' = TRUE /\ job' = "cancelled"
  /\ Goto(HubReader, "idle")
  /\ UNCHANGED <<production, feedState, working, storage, tasks, underway,
                 indexFeed, index, asked, awaits, cancelled, counters>>

ErrorEnds(w) ==
  /\ pc[w] = "failing"
  /\ AllCompleted(w)
  /\ \/ /\ SomeFailed(w) \/ SomeDisposed(w)
        /\ UNCHANGED indexClosed
     \/ ~SomeFailed(w) /\ indexClosed' = TRUE
  /\ Goto(w, "dead")
  /\ UNCHANGED <<production, feedState, working, storage, tasks, underway,
                 indexFeed, index, asked, ending, counters>>

-----------------------------------------------------------------------------
HubAnswers == Registers \/ SendIndex \/ (\E s \in Sessions : SessionReceived(s))

\* What the node's threads do, and what they are owed.
Works ==
  \/ \E p \in Producers : Produce(p)
  \/ \E s \in Sessions : Consume(s) \/ AfterTask(s) \/ Read(s)
  \/ \E w \in Producers \cup Sessions : UnexpectedError(w) \/ ErrorEnds(w)
  \/ Index
  \/ CancelEnds

\* What goes wrong, or is ordered.
Disturbs ==
  \/ \E s \in Sessions : \/ SessionFails(s) \/ SendBreaks(s) \/ SendFails(s)
                         \/ TimesOut(s) \/ EndFails(s) \/ SessionBreaks(s)
  \/ IndexSessionFails \/ IndexNotSent \/ CancelTask

Next == Works \/ HubAnswers \/ Disturbs

Spec == Init /\ [][Next]_vars

Fairness ==
  /\ \A p \in Producers : WF_vars(Produce(p) \/ UnexpectedError(p) \/ ErrorEnds(p))
  /\ \A s \in Sessions :
       /\ WF_vars(Consume(s) \/ AfterTask(s) \/ UnexpectedError(s) \/ ErrorEnds(s))
       /\ WF_vars(Read(s))
  /\ WF_vars(Index)
  /\ WF_vars(HubAnswers \/ CancelEnds)

FairSpec == Spec /\ Fairness

-----------------------------------------------------------------------------
ProducerPlaces == {"off", "begin", "dequeuing", "created", "announce",
                   "collect", "offer", "continuing", "ended", "faulted",
                   "failing", "dead"}
ConsumerPlaces == {"none", "start", "take", "loop", "send", "wait", "requeue",
                   "resend", "handback", "after", "swept", "closing",
                   "emptied", "idle", "faulted", "failing", "dead"}
IndexerPlaces == {"created", "never", "index", "process", "asked", "sending",
                  "done", "stuck"}

\* The type invariant; a feed and the index hold chunks of this job, and no
\* budget is spent beyond what was granted.
TypeOK ==
  /\ \A p \in Producers : pc[p] \in ProducerPlaces
  /\ \A s \in Sessions : pc[s] \in ConsumerPlaces
  /\ pc[HubReader] \in {"idle", "registering", "cancelling"}
  /\ pc[Indexer] \in IndexerPlaces
  /\ mega \in Seq(Queues)
  /\ drives \in [Queues -> Seq(Seq(Chunks))]
  /\ mine \in [Producers -> Queues \cup {0}]
  /\ todo \in [Producers -> Seq(Chunks)]
  /\ buffer \in [Producers -> {<<>>} \cup {<<k>> : k \in Chunks}]
  /\ closed \subseteq Producers
  /\ feeds \in Seq(Producers) /\ Len(feeds) <= FeedsCapacity
  /\ feed \in [Sessions -> Producers \cup {0}]
  /\ held \in [Sessions -> Chunks \cup {NoChunk}]
  /\ budget \in [Sessions -> Nat]
  /\ open \subseteq Sessions
  /\ wire \in [Sessions -> SUBSET Chunks]
  /\ consumers \subseteq Sessions
  /\ stale \in BOOLEAN
  /\ processing \in [Chunks -> Nat]
  /\ sent \subseteq Chunks
  /\ disposed \subseteq Chunks
  /\ reading \in [Sessions -> Chunks \cup {NoChunk}]
  /\ indexFeed \in Seq(Chunks) /\ Len(indexFeed) <= IndexFeedCapacity
  /\ indexClosed \in BOOLEAN
  /\ index \in Seq(Chunks)
  /\ fresh \in Nat
  /\ renewals \subseteq Sessions
  /\ serving \in Sessions
  /\ awaits \in [Threads -> SUBSET Sessions]
  /\ cancelled \in BOOLEAN
  /\ job \in {"running", "done", "cancelled"}
  /\ reported \subseteq Chunks
  /\ errors \in 0..MaxErrors
  /\ timeouts \in 0..MaxTimeouts

Announced(p) == pc[p] \in {"collect", "offer", "continuing", "ended"}
Holders(p) == {s \in Sessions : feed[s] = p}

\* The job is cancelled, or a task has failed whose continuation will do that.
Interrupted == cancelled \/ \E w \in Producers \cup Sessions : pc[w] = "faulted"

\* A feed from which chunks may still come is on chunksFeeds or with a running
\* consumer, and there once only, until the job is interrupted: the hand-back
\* in Consume loses no feed and shares none, whatever fails and whoever else
\* takes or announces a feed meanwhile.
FeedNotForgotten ==
  \A p \in Producers :
    Announced(p) /\ ~Completed(p) /\ ~Interrupted =>
      Cardinality({i \in DOMAIN feeds : feeds[i] = p})
        + Cardinality({s \in Holders(p) : Running(s)}) = 1

\* The chunks that have been put on a feed.
Given ==
  Chunks \
    ((UNION {ToSet(todo[p]) : p \in Producers}) \cup
     (UNION {UNION {ToSet(drives[q][d]) : d \in DOMAIN drives[q]} : q \in Queues}))

\* A chunk on its way is somewhere one can find it: on a feed, in
\* processingChunks, on the indexer's feed, in the index, or reported.
ChunkNotForgotten ==
  \A k \in Given :
    \/ \E p \in Producers : buffer[p] = <<k>>
    \/ processing[k] > 0
    \/ k \in ToSet(indexFeed) \cup ToSet(index)
    \/ k \in reported
    \/ cancelled

\* Unless a confirmation was late, no chunk is twice in the index, though
\* ManageChunkSent indexes a chunk as often as processingChunks lists it and
\* a chunk is listed again when a broken connection makes it be sent again.
IndexedOnce ==
  timeouts = 0 => LET all == index \o indexFeed IN
    \A i, j \in DOMAIN all : all[i] = all[j] => i = j

\* When a consumer hands its feed back there is room for it (the comment on
\* the capacity of chunksFeeds, BackupManager.cs:123).
HandBackFindsRoom ==
  \A s \in Sessions : pc[s] = "handback" /\ ~cancelled => Len(feeds) < FeedsCapacity

\* The index is built after the last chunk: when ProcessIndex is reached, a
\* chunk of the backup is in the index, or the hub was told of it, or the job
\* was cancelled (BUGS.txt: "sometimes we process index ... while there are
\* still chunks pending for transfer").
IndexAfterLastChunk ==
  pc[Indexer] \in {"process", "asked", "sending", "done"} /\ ~Interrupted =>
    Chunks \subseteq ToSet(index) \cup reported

Phase ==
  IF Interrupted THEN "interrupted"
  ELSE IF job = "done" THEN "done"
  ELSE IF pc[Indexer] \in {"created", "never", "index"} THEN "sending"
  ELSE "closing"

Job == INSTANCE BackupJob WITH
  indexed <- ToSet(index), given <- reported, phase <- Phase

\* The pipeline does what a backup job promises.
ImplementsBackupJob == Job!Spec

\* If no connection fails and the hub grants what it is asked for, the job
\* ends: its index is sent, or it is cancelled.
JobEnds == <>(job # "running" \/ cancelled)

\* An order to cancel the job returns, so that the thread that reads the hub's
\* messages goes on: no consumer waits for something the cancellation leaves.
CancelReturns == pc[HubReader] = "cancelling" ~> pc[HubReader] = "idle"
=============================================================================
