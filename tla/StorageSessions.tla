-------------------------- MODULE StorageSessions --------------------------
(***************************************************************************)
(* Storage sessions (Hub/Hub.cs, Hub/PeerNode.cs, Common/PeerSession.cs    *)
(* and the two ends of a session in Node/User.cs and Node/Session.cs).     *)
(* Client nodes ask the hub where to store chunks; the hub chooses storage *)
(* nodes, has each open a session and waits until it says so, tells the    *)
(* client, reserves the space the session's budget stands for, and sets    *)
(* the reservation off against the space used when both ends have told it  *)
(* that the budget is used up.                                             *)
(*                                                                         *)
(* The hub has one thread for each node's connection, which reads the next *)
(* message when it is done with the last one: the thread of a client also  *)
(* chooses the storage nodes and waits for them.  The threads share the    *)
(* node objects and the list of sessions, as does the scheduler's thread.  *)
(* A node's CurrentLoad and ReservedSpace are read and written in steps of *)
(* their own, because += and -= are not atomic and mostly not locked.      *)
(*                                                                         *)
(* Space is counted in chunks of the largest size.  Each client runs one   *)
(* task, known by the client's name; its job is BackupPipeline's, of which *)
(* the chunks left to send and the number of feeds that wait for a         *)
(* consumer are kept here: the first sessions come after the first feeds.  *)
(* What a client and a storage node exchange over their own connection is  *)
(* one step.                                                               *)
(***************************************************************************)
EXTENDS Integers, FiniteSets, Sequences

CONSTANTS
  Clients,      \* the nodes that back up
  Stores,       \* the nodes of their storage group
  Priority,     \* StoragePriority of each storage node
  Setups,       \* what behaviours start from, see ConstantsAssumption
  FirstBudget,  \* chunks a task is expected to need: StorageBudget, or 20
  Renewal,      \* chunks a renewed session may carry: 20
  MaxIds,       \* bound on the ids of sessions
  Prompt        \* is a confirmation counted before a thread does anything
                \* else to a session?

Nodes == Clients \cup Stores
Ids == 1..MaxIds

ASSUME ConstantsAssumption ==
  /\ Clients # {} /\ Stores # {}
  /\ IsFiniteSet(Nodes)
  /\ Priority \in [Stores -> Nat \ {0}]
  /\ Setups \subseteq [size : [Stores -> Nat], parallelism : Nat \ {0},
                       needed : Nat \ {0}, feeds : Nat \ {0},
                       breaks : Nat, faults : Nat]
  /\ FirstBudget \in Nat \ {0}
  /\ Renewal \in Nat \ {0}
  /\ MaxIds \in Nat
  /\ Prompt \in BOOLEAN

VARIABLES
  setup,        \* the storage nodes' sizes, parallelism, chunks and feeds, failures
  session,      \* the PeerSession objects by id, and whether they are listed
  reserved,     \* PeerNode.ReservedSpace
  used,         \* PeerNode.StorageUsed
  load,         \* PeerNode.CurrentLoad
  verified,     \* the storage nodes messages may be sent to
  task,         \* how the hub sees each client's task
  queued,       \* the clients whose task is in the scheduler's queue
  storageNodes, \* Task.StorageNodes
  sweep,        \* the sessions the scheduler has yet to remove
  pc,           \* where the hub's thread of each node is
  asked,        \* the message it handles
  creating,     \* the session it creates or renews
  targets,      \* nodes it has yet to create a session with
  share,        \* perNodeBudget
  seen,         \* what it has read of a count it is about to write
  event,        \* PeerNode.syncMsg: is the event set?
  handlers,     \* handlers of SyncMessageReceived
  ringing,      \* handlers an answer has yet to call
  fromNode,     \* messages of a node the hub has not read
  toNode,       \* messages of the hub a node has not read
  conn,         \* a client's sessions, by id
  left,         \* the chunks a client has still to send
  feeds,        \* the feeds on its chunksFeeds
  phase,        \* how far a client's job is
  receiving,    \* a storage node's sessions, by client and id
  stored,       \* the chunks a storage node has stored
  breaks,       \* failures so far of connections between nodes
  faults,       \* and failures that a backup does not get over
  reused        \* has a session been given an id that is still in use?

hubState == <<session, reserved, used, load>>
tasks == <<task, queued, storageNodes, sweep>>
locals == <<asked, creating, targets, share, seen>>
sync == <<event, handlers, ringing>>
wires == <<verified, fromNode, toNode>>
clientState == <<conn, left, feeds, phase>>
storeState == <<receiving, stored>>
counters == <<breaks, faults, reused>>
vars == <<setup, hubState, tasks, pc, locals, sync, wires, clientState,
          storeState, counters>>

-----------------------------------------------------------------------------
\* What nodes send: requests for storage, the usage of a session, the answer
\* to STORE, the end of the task; id and data handled are those of a session.
Requests == {"first", "renewal", "alternate", "index"}
Message(kind, c, i, handled) ==
  [kind |-> kind, client |-> c, id |-> i, handled |-> handled]

\* What the hub sends: STORE, a grant of storage, or the task's cancellation.
Order(kind, c, i, s, budget, handled) ==
  [kind |-> kind, client |-> c, id |-> i, store |-> s, budget |-> budget,
   handled |-> handled]

AnyClient == CHOOSE c \in Clients : TRUE
AnyStore == CHOOSE s \in Stores : TRUE

NoSession ==
  [listed |-> FALSE, client |-> AnyClient, store |-> AnyStore, budget |-> 0,
   byClient |-> FALSE, byStore |-> FALSE, handled |-> 0]

NoConn ==
  [open |-> FALSE, store |-> AnyStore, budget |-> 0, handled |-> 0,
   carries |-> "nothing"]

Unswept == [ids |-> {}, id |-> 0, seen |-> 0]

NoReceiver == [open |-> FALSE, awaited |-> FALSE, budget |-> 0, handled |-> 0]

Init ==
  /\ setup \in Setups
  /\ session = [i \in Ids |-> NoSession]
  /\ reserved = [s \in Stores |-> 0]
  /\ used = [s \in Stores |-> 0]
  /\ load = [s \in Stores |-> 0]
  /\ verified = Nodes
  /\ task = [c \in Clients |-> "Started"]
  /\ queued = Clients
  /\ storageNodes = [c \in Clients |-> {}]
  /\ sweep = Unswept
  /\ pc = [n \in Nodes |-> "idle"]
  /\ asked = [n \in Nodes |-> Message("done", AnyClient, 0, 0)]
  /\ creating = [c \in Clients |->
       [id |-> 0, store |-> AnyStore, budget |-> 0, kind |-> "grant", renews |-> FALSE]]
  /\ targets = [c \in Clients |-> <<>>]
  /\ share = [c \in Clients |-> 0]
  /\ seen = [n \in Nodes |-> 0]
  /\ event = [s \in Stores |-> FALSE]
  /\ handlers = [s \in Stores |-> 0]
  /\ ringing = [s \in Stores |-> 0]
  /\ fromNode = [n \in Nodes |->
       IF n \in Clients THEN <<Message("first", n, 0, 0)>> ELSE <<>>]
  /\ toNode = [n \in Nodes |-> <<>>]
  /\ conn = [c \in Clients |-> [i \in Ids |-> NoConn]]
  /\ left = [c \in Clients |-> setup.needed]
  /\ feeds = [c \in Clients |-> setup.feeds]
  /\ phase = [c \in Clients |-> "sending"]
  /\ receiving = [s \in Stores |-> [k \in Clients \X Ids |-> NoReceiver]]
  /\ stored = [s \in Stores |-> 0]
  /\ breaks = 0
  /\ faults = 0
  /\ reused = FALSE

Breaks ==
  breaks < setup.breaks /\ breaks' = breaks + 1 /\ UNCHANGED <<faults, reused>>
Faults ==
  faults < setup.faults /\ faults' = faults + 1 /\ UNCHANGED <<breaks, reused>>

At(n, label) == pc[n] = label
Goto(n, label) == pc' = [pc EXCEPT ![n] = label]

SendHub(n, m) ==
  fromNode' = IF n \in verified THEN [fromNode EXCEPT ![n] = Append(@, m)]
                                ELSE fromNode
SendNode(n, o) == toNode' = [toNode EXCEPT ![n] = Append(@, o)]

-----------------------------------------------------------------------------
(* The hub: messages are read, and usage is confirmed.                       *)

Listed == {i \in Ids : session[i].listed}
Known(i) == i \in Ids /\ session[i].listed

\* HandleSessionEvent throws when the task or the session is unknown or not
\* the sender's; the reading thread logs that and reads on.
Accepted(n, m) ==
  /\ m.client \in queued
  /\ Known(m.id)
  /\ m.kind = "usage" => session[m.id].store = n

\* What is said of a period is noted once for each end of the session.
SetUsage(m) ==
  LET i == m.id IN
  session' = IF m.kind = "usage"
             THEN IF session[i].byStore THEN session
                  ELSE [session EXCEPT ![i].byStore = TRUE, ![i].handled = m.handled]
             ELSE IF session[i].byClient THEN session
                  ELSE [session EXCEPT ![i].byClient = TRUE, ![i].handled = m.handled]

Reads(n, kinds) ==
  /\ At(n, "idle")
  /\ fromNode[n] # <<>>
  /\ Head(fromNode[n]).kind \in kinds
  /\ fromNode' = [fromNode EXCEPT ![n] = Tail(@)]

\* No thread has noted a usage that it is still to count.
Counted == \A o \in Nodes : pc[o] \notin {"confirm", "release"}

\* A session's usage, or a request that names a session.
HandleSessionEvent(n) ==
  LET m == Head(fromNode[n]) IN
  /\ Reads(n, {"usage", "renewal", "alternate"})
  /\ Prompt => Counted
  /\ IF Accepted(n, m)
     THEN /\ SetUsage(m)
          /\ asked' = [asked EXCEPT ![n] = m]
          /\ Goto(n, "confirm")
     ELSE UNCHANGED <<session, asked, pc>>
  /\ UNCHANGED <<setup, reserved, used, load, tasks, creating, targets, share, seen,
                 sync, verified, toNode, clientState, storeState, counters>>

\* Mutant: one end's word is enough.
IsStorageUsagePartiallyConfirmed(i) == session[i].byClient \/ session[i].byStore

IsStorageUsageConfirmed(i) == session[i].byClient /\ session[i].byStore

Answer(n) ==
  CASE asked[n].kind = "usage" -> "idle"
    [] asked[n].kind = "renewal" -> "renew"
    [] asked[n].kind = "alternate" -> "unlist"
    [] OTHER -> "choose"

\* The space reserved for the period is released when both ends have told its
\* usage.  Of the threads that do this for a node only one at a time holds its
\* lock, which those that reserve space do not take.
ConfirmsUsage(n) ==
  LET i == asked[n].id
      s == session[i].store IN
  /\ At(n, "confirm")
  /\ IF IsStorageUsageConfirmed(i)
     THEN /\ \A o \in Nodes : At(o, "release") => session[asked[o].id].store # s
          /\ seen' = [seen EXCEPT ![n] = reserved[s]]
          /\ Goto(n, "release")
     ELSE Goto(n, Answer(n)) /\ UNCHANGED seen
  /\ UNCHANGED <<setup, hubState, tasks, asked, creating, targets, share, sync, wires,
                 clientState, storeState, counters>>

\* Mutant: when the usage is confirmed, the request that told it is done with.
AfterUsageDone(n) == "idle"

AfterUsage(n) == Answer(n)

\* What the session has handled since it was opened counts as used.
ReleasesReserved(n) ==
  LET i == asked[n].id
      s == session[i].store IN
  /\ At(n, "release")
  /\ reserved' = [reserved EXCEPT ![s] = seen[n] - session[i].budget]
  /\ used' = [used EXCEPT ![s] = @ + session[i].handled]
  /\ Goto(n, AfterUsage(n))
  /\ UNCHANGED <<setup, session, load, tasks, locals, sync, wires, clientState,
                 storeState, counters>>

\* A first request, or one for the index, names no session.
AskStorage(n) ==
  /\ Reads(n, {"first", "index"})
  /\ IF n \in queued
     THEN asked' = [asked EXCEPT ![n] = Head(fromNode[n])] /\ Goto(n, "choose")
     ELSE UNCHANGED <<asked, pc>>
  /\ UNCHANGED <<setup, hubState, tasks, creating, targets, share, seen, sync, verified,
                 toNode, clientState, storeState, counters>>

TaskDone(n) ==
  /\ Reads(n, {"done"})
  /\ task' = IF n \in queued /\ task[n] = "Started"
             THEN [task EXCEPT ![n] = "Done"] ELSE task
  /\ UNCHANGED <<setup, hubState, queued, storageNodes, sweep, pc, locals, sync, verified,
                 toNode, clientState, storeState, counters>>

\* The answer to STORE calls the handlers of all requests that wait for an
\* answer of the node, and each sets the one event; there may be none left.
HandleReady(n) ==
  /\ Reads(n, {"ready"})
  /\ ringing' = [ringing EXCEPT ![n] = handlers[n]]
  /\ handlers' = [handlers EXCEPT ![n] = 0]
  /\ Goto(n, IF handlers[n] > 0 THEN "ring" ELSE "idle")
  /\ UNCHANGED <<setup, hubState, tasks, locals, event, verified, toNode,
                 clientState, storeState, counters>>

\* Mutant: one handler too many is called.
LastHandlerBut(n) == ringing[n] = 0

LastHandler(n) == ringing[n] = 1

Rings(n) ==
  /\ At(n, "ring")
  /\ event' = [event EXCEPT ![n] = TRUE]
  /\ ringing' = [ringing EXCEPT ![n] = @ - 1]
  /\ Goto(n, IF LastHandler(n) THEN "idle" ELSE "ring")
  /\ UNCHANGED <<setup, hubState, tasks, locals, handlers, wires, clientState,
                 storeState, counters>>

-----------------------------------------------------------------------------
(* The hub: storage nodes are chosen.                                        *)

\* 1/StoragePriority, in integers.
LoadOf(s) == 1 \div Priority[s]

\* Mutant: what is reserved is not counted.
RoomUnreserved(s) == setup.size[s] - used[s]

Room(s) == setup.size[s] - used[s] - reserved[s]

Eligible(p, budget, excluded) ==
  {s \in Stores \ excluded : Room(s) > (budget \div p) + 1}

\* The first p by descending load, in any order of equals.
Elected(p, eligible) ==
  LET k == IF Cardinality(eligible) < p THEN Cardinality(eligible) ELSE p IN
  {d \in [1..k -> eligible] :
     /\ \A i, j \in 1..k : i < j => d[i] # d[j] /\ load[d[i]] >= load[d[j]]
     /\ \A s \in eligible \ {d[i] : i \in 1..k} : \A i \in 1..k : load[d[i]] >= load[s]}

\* When there are fewer than p, the method calls itself without a list of
\* nodes to exclude, and fails at the first node that has room.
TooFewFails(p, budget, eligible) ==
  LET k == Cardinality(eligible) IN
  /\ 0 < k /\ k < p
  /\ \E s \in Stores : Room(s) > (budget \div k) + 1

IsAlternate(n) == asked[n].kind = "alternate"
ChosenBudget(n) == IF asked[n].kind = "index" THEN 1 ELSE FirstBudget
ChosenParallelism(n) == IF asked[n].kind = "first" THEN setup.parallelism ELSE 1

\* The storage nodes of a failed request's task are not asked again.
Excluded(n) == {n} \cup IF IsAlternate(n) THEN storageNodes[n] ELSE {}

EligibleFor(n) == Eligible(ChosenParallelism(n), ChosenBudget(n), Excluded(n))

\* AddRemoveSession of the session an alternate is asked for.  It is looked up,
\* and the request not answered when it has left the list;
FindsSession(n) ==
  /\ At(n, "unlist")
  /\ Goto(n, IF Known(asked[n].id) THEN "remove" ELSE "idle")
  /\ UNCHANGED <<setup, hubState, tasks, locals, sync, wires, clientState, storeState,
                 counters>>

\* it leaves the list, if the scheduler has not removed it meanwhile, and the
\* node's load is read;
RemovesSession(n) ==
  LET i == asked[n].id IN
  /\ At(n, "remove")
  /\ session' = [session EXCEPT ![i].listed = FALSE]
  /\ seen' = [seen EXCEPT ![n] = load[session[i].store]]
  /\ Goto(n, "lower")
  /\ UNCHANGED <<setup, reserved, used, load, tasks, asked, creating, targets, share,
                 sync, wires, clientState, storeState, counters>>

\* the load is written.
LowersLoad(n) ==
  LET s == session[asked[n].id].store IN
  /\ At(n, "lower")
  /\ load' = [load EXCEPT ![s] = seen[n] - LoadOf(s)]
  /\ Goto(n, "choose")
  /\ UNCHANGED <<setup, session, reserved, used, tasks, locals, sync, wires,
                 clientState, storeState, counters>>

ChooseStorage(n) ==
  /\ At(n, "choose")
  /\ n \in queued
  /\ EligibleFor(n) # {}
  /\ ~TooFewFails(ChosenParallelism(n), ChosenBudget(n), EligibleFor(n))
  /\ \E d \in Elected(ChosenParallelism(n), EligibleFor(n)) :
       /\ targets' = [targets EXCEPT ![n] = d]
       /\ share' = [share EXCEPT ![n] = (ChosenBudget(n) \div Len(d)) + 1]
  /\ Goto(n, "create")
  /\ UNCHANGED <<setup, hubState, tasks, asked, creating, seen, sync, wires,
                 clientState, storeState, counters>>

\* The task is cancelled, on the hub and by an order to the node.
NoStorage(n) ==
  /\ At(n, "choose")
  /\ n \in queued
  /\ EligibleFor(n) = {}
  /\ task' = [task EXCEPT ![n] = "Cancelled"]
  /\ SendNode(n, Order("cancel", n, 0, AnyStore, 0, 0))
  /\ Goto(n, "idle")
  /\ UNCHANGED <<setup, hubState, queued, storageNodes, sweep, locals, sync, verified,
                 fromNode, clientState, storeState, counters>>

\* An exception that the reading thread logs, when the task has left the queue
\* or as TooFewFails says: the request is not answered.
ChoiceFails(n) ==
  /\ At(n, "choose")
  /\ \/ n \notin queued
     \/ TooFewFails(ChosenParallelism(n), ChosenBudget(n), EligibleFor(n))
  /\ Goto(n, "idle")
  /\ UNCHANGED <<setup, hubState, tasks, locals, sync, wires, clientState,
                 storeState, counters>>

-----------------------------------------------------------------------------
(* The hub: a session is created or renewed.                                 *)

\* The exception of a renewal that is not possible is caught in ChooseStorage.
LooksForAlternate(n) ==
  asked' = [asked EXCEPT ![n].kind = "alternate"] /\ Goto(n, "unlist")

\* A request to renew a session that has left the list is not answered; one
\* whose node lacks the room is taken for a request for an alternate.
RenewStorageSession(n) ==
  LET i == asked[n].id
      s == session[i].store IN
  /\ At(n, "renew")
  /\ Prompt => Counted
  /\ IF ~Known(i)
     THEN Goto(n, "idle") /\ UNCHANGED <<session, asked, creating>>
     ELSE /\ session' = [session EXCEPT ![i].budget = Renewal,
                           ![i].byClient = FALSE, ![i].byStore = FALSE]
          /\ IF Room(s) > Renewal
             THEN /\ creating' = [creating EXCEPT ![n] =
                       [id |-> i, store |-> s, budget |-> Renewal,
                        kind |-> "grant", renews |-> TRUE]]
                  /\ Goto(n, "send")
                  /\ UNCHANGED asked
             ELSE /\ LooksForAlternate(n)
                  /\ UNCHANGED creating
  /\ UNCHANGED <<setup, reserved, used, load, tasks, targets, share, seen, sync, wires,
                 clientState, storeState, counters>>

\* The new session's id is the number of sessions plus one, which may be the
\* id of a session that is listed, under creation, granted to a client that has
\* not read it, or open on a client.
NewId == Cardinality(Listed) + 1

Creates(n, i) ==
  /\ pc[n] \in {"send", "wait", "reset", "tell", "reserve", "book", "enlist"}
  /\ creating[n].id = i

Granted(c, i) ==
  {k \in DOMAIN toNode[c] : toNode[c][k].kind \in {"grant", "index"} /\ toNode[c][k].id = i}

InUse(i) ==
  \/ Known(i)
  \/ \E c \in Clients : Creates(c, i) \/ Granted(c, i) # {} \/ conn[c][i].open

CreateStorageSessions(n) ==
  /\ At(n, "create")
  /\ targets[n] # <<>>
  /\ NewId <= MaxIds
  /\ creating' = [creating EXCEPT ![n] =
       [id |-> NewId, store |-> Head(targets[n]), budget |-> share[n],
        kind |-> IF asked[n].kind = "index" THEN "index" ELSE "grant",
        renews |-> FALSE]]
  /\ targets' = [targets EXCEPT ![n] = Tail(@)]
  /\ reused' = (reused \/ InUse(NewId))
  /\ Goto(n, "send")
  /\ UNCHANGED <<setup, hubState, tasks, asked, share, seen, sync, wires, clientState,
                 storeState, breaks, faults>>

CreatedAll(n) ==
  /\ At(n, "create")
  /\ targets[n] = <<>>
  /\ Goto(n, "idle")
  /\ UNCHANGED <<setup, hubState, tasks, locals, sync, wires, clientState, storeState,
                 counters>>

\* The data an order carries of the session's object.
SessionOrder(n, kind) ==
  LET c == creating[n] IN
  Order(kind, n, c.id, c.store, c.budget,
        IF c.renews THEN session[c.id].handled ELSE 0)

\* The storage node is told first, and its answer waited for.
SendsStore(n) ==
  LET s == creating[n].store IN
  /\ At(n, "send")
  /\ s \in verified
  /\ handlers' = [handlers EXCEPT ![s] = @ + 1]
  /\ SendNode(s, SessionOrder(n, "STORE"))
  /\ Goto(n, "wait")
  /\ UNCHANGED <<setup, hubState, tasks, locals, event, ringing, verified,
                 fromNode, clientState, storeState, counters>>

\* Nothing may be sent to the node: the renewal becomes a request for an
\* alternate; of new sessions the next one is tried.
SendRefused(n) ==
  /\ At(n, "send")
  /\ creating[n].store \notin verified
  /\ IF creating[n].renews
     THEN LooksForAlternate(n)
     ELSE UNCHANGED asked /\ Goto(n, "create")
  /\ UNCHANGED <<setup, hubState, tasks, creating, targets, share, seen, sync, wires,
                 clientState, storeState, counters>>

\* Mutant: the client is told without waiting for the storage node.
GoesOnUnanswered(s) == TRUE

\* The event of the node is set, by whichever answer.
GoesOn(s) == event[s]

Woken(n) ==
  /\ At(n, "wait")
  /\ GoesOn(creating[n].store)
  /\ Goto(n, "reset")
  /\ UNCHANGED <<setup, hubState, tasks, locals, sync, wires, clientState,
                 storeState, counters>>

Resets(n) ==
  /\ At(n, "reset")
  /\ event' = [event EXCEPT ![creating[n].store] = FALSE]
  /\ Goto(n, "tell")
  /\ UNCHANGED <<setup, hubState, tasks, locals, handlers, ringing, wires,
                 clientState, storeState, counters>>

\* What the hub and the node have not read of the connection is lost.
Disconnects(s) ==
  /\ verified' = verified \ {s}
  /\ fromNode' = [fromNode EXCEPT ![s] = <<>>]
  /\ toNode' = [toNode EXCEPT ![s] = <<>>]

\* After 30 seconds the storage node is disconnected and the client told all
\* the same.
WaitTimesOut(n) ==
  LET s == creating[n].store IN
  /\ At(n, "wait")
  /\ ~event[s]
  /\ IF s \in verified
     THEN Faults /\ Disconnects(s)
     ELSE UNCHANGED <<counters, wires>>
  /\ Goto(n, "tell")
  /\ UNCHANGED <<setup, hubState, tasks, locals, sync, clientState, storeState>>

TellsClient(n) ==
  /\ At(n, "tell")
  /\ SendNode(n, SessionOrder(n, creating[n].kind))
  /\ Goto(n, "reserve")
  /\ UNCHANGED <<setup, hubState, tasks, locals, sync, verified, fromNode,
                 clientState, storeState, counters>>

\* Space is reserved for the session's period.
ReadsReserved(n) ==
  /\ At(n, "reserve")
  /\ seen' = [seen EXCEPT ![n] = reserved[creating[n].store]]
  /\ Goto(n, "book")
  /\ UNCHANGED <<setup, hubState, tasks, asked, creating, targets, share, sync, wires,
                 clientState, storeState, counters>>

Reserves(n) ==
  LET c == creating[n] IN
  /\ At(n, "book")
  /\ reserved' = [reserved EXCEPT ![c.store] = seen[n] + c.budget]
  /\ Goto(n, "enlist")
  /\ UNCHANGED <<setup, session, used, load, tasks, locals, sync, wires, clientState,
                 storeState, counters>>

Created(n) == IF creating[n].renews THEN "idle" ELSE "create"

AddsStorageNode(n) ==
  storageNodes' = IF creating[n].renews THEN storageNodes
                  ELSE [storageNodes EXCEPT ![n] = @ \cup {creating[n].store}]

\* A session that is in the list has a new period, any other is added and its
\* node's load is read.
ListsSession(n) ==
  LET c == creating[n] IN
  /\ At(n, "enlist")
  /\ IF Known(c.id)
     THEN /\ session' = [session EXCEPT ![c.id].budget = c.budget,
                           ![c.id].byClient = FALSE, ![c.id].byStore = FALSE]
          /\ AddsStorageNode(n)
          /\ Goto(n, Created(n))
          /\ UNCHANGED seen
     ELSE /\ session' = [session EXCEPT ![c.id] =
               IF c.renews THEN [@ EXCEPT !.listed = TRUE]
               ELSE [NoSession EXCEPT !.listed = TRUE, !.client = n,
                       !.store = c.store, !.budget = c.budget]]
          /\ seen' = [seen EXCEPT ![n] = load[c.store]]
          /\ Goto(n, "raise")
          /\ UNCHANGED storageNodes
  /\ UNCHANGED <<setup, reserved, used, load, task, queued, sweep, asked, creating,
                 targets, share, sync, wires, clientState, storeState, counters>>

RaisesLoad(n) ==
  LET s == creating[n].store IN
  /\ At(n, "raise")
  /\ load' = [load EXCEPT ![s] = seen[n] + LoadOf(s)]
  /\ AddsStorageNode(n)
  /\ Goto(n, Created(n))
  /\ UNCHANGED <<setup, session, reserved, used, task, queued, sweep, locals, sync, wires,
                 clientState, storeState, counters>>

-----------------------------------------------------------------------------
(* The hub: the scheduler removes the sessions of a task that has ended.     *)

Sweeping == sweep.ids # {} \/ sweep.id # 0

\* A pass of the scheduler has taken the task out of the queue and collects its
\* sessions; what is reserved for them is not released.
HandleTaskEvent(c) ==
  /\ ~Sweeping
  /\ c \in queued
  /\ task[c] \in {"Done", "Cancelled"}
  /\ queued' = queued \ {c}
  /\ sweep' = [sweep EXCEPT !.ids = {i \in Listed : session[i].client = c}]
  /\ UNCHANGED <<setup, hubState, task, storageNodes, pc, locals, sync, wires,
                 clientState, storeState, counters>>

\* AddRemoveSession of one after the other, whether or not it is still listed.
SweepsSession ==
  /\ sweep.id = 0
  /\ \E i \in sweep.ids :
       /\ session' = [session EXCEPT ![i].listed = FALSE]
       /\ sweep' = [ids |-> sweep.ids \ {i}, id |-> i, seen |-> load[session[i].store]]
  /\ UNCHANGED <<setup, reserved, used, load, task, queued, storageNodes, pc, locals,
                 sync, wires, clientState, storeState, counters>>

SweepsLoad ==
  LET s == session[sweep.id].store IN
  /\ sweep.id # 0
  /\ load' = [load EXCEPT ![s] = sweep.seen - LoadOf(s)]
  /\ sweep' = [ids |-> sweep.ids, id |-> 0, seen |-> 0]
  /\ UNCHANGED <<setup, session, reserved, used, task, queued, storageNodes, pc, locals,
                 sync, wires, clientState, storeState, counters>>

-----------------------------------------------------------------------------
(* The connections of the storage nodes.                                     *)

\* The node's connection is lost; its object stays in NodesList.
ClearNode(s) ==
  /\ s \in verified \ Clients
  /\ Faults
  /\ Disconnects(s)
  /\ UNCHANGED <<setup, hubState, tasks, pc, locals, sync, clientState, storeState>>

\* A thread is about to write one of the node's counts.
Counting(s) ==
  \/ \E n \in Nodes : \/ pc[n] \in {"release", "lower"} /\ session[asked[n].id].store = s
                      \/ n \in Clients /\ pc[n] \in {"book", "raise"} /\ creating[n].store = s
  \/ sweep.id # 0 /\ session[sweep.id].store = s

\* The node connects again, when the requests that wait for it have timed out:
\* a new object takes its place, with the space used that the database has.
\* Threads that are changing a count of the old object then (Counting) are left out.
PutNodeOnline(s) ==
  /\ s \notin verified
  /\ pc[s] = "idle"
  /\ ~Counting(s)
  /\ \A c \in Clients : pc[c] \in {"wait", "reset"} => creating[c].store # s
  /\ verified' = verified \cup {s}
  /\ reserved' = [reserved EXCEPT ![s] = 0]
  /\ used' = [used EXCEPT ![s] = 0]
  /\ load' = [load EXCEPT ![s] = 0]
  /\ event' = [event EXCEPT ![s] = FALSE]
  /\ handlers' = [handlers EXCEPT ![s] = 0]
  /\ UNCHANGED <<setup, session, tasks, pc, locals, ringing, fromNode, toNode,
                 clientState, storeState, counters>>

-----------------------------------------------------------------------------
(* The nodes.                                                                *)

Receives(n, kinds) ==
  /\ toNode[n] # <<>>
  /\ Head(toNode[n]).kind \in kinds
  /\ toNode' = [toNode EXCEPT ![n] = Tail(@)]

\* A session is opened, and its first connection awaited, or its budget grows
\* by what it may carry now; then the hub has its answer.
StartStoreSession(n) ==
  LET o == Head(toNode[n])
      k == <<o.client, o.id>>
      r == receiving[n][k] IN
  /\ Receives(n, {"STORE"})
  /\ receiving' = [receiving EXCEPT ![n][k] =
       IF r.open THEN [r EXCEPT !.budget = @ + o.budget]
       ELSE [open |-> TRUE, awaited |-> TRUE, budget |-> o.budget, handled |-> 0]]
  /\ SendHub(n, Message("ready", o.client, o.id, 0))
  /\ UNCHANGED <<setup, hubState, tasks, pc, locals, sync, verified, clientState,
                 stored, counters>>

Grant(n) == Head(toNode[n])
JobRuns(n) == phase[n] \in {"sending", "emptied", "indexing"}

\* A consumer takes the first feed that waits; without one it returns at once.
Carries(n) ==
  CASE ~JobRuns(n) -> "nothing"
    [] JobRuns(n) /\ Grant(n).kind = "index" -> "index"
    [] OTHER -> IF feeds[n] > 0 THEN "data" ELSE "after"
TakesFeed(n) == feeds' = IF Carries(n) = "data" THEN [feeds EXCEPT ![n] = @ - 1] ELSE feeds
AddsFeed(n) == feeds' = [feeds EXCEPT ![n] = @ + 1]

Receiver(n, i) == receiving[conn[n][i].store][<<n, i>>]

\* A session with the grant's id is open, whatever node it leads to; a job
\* that has ended does not use it, and another node is asked for.
ReusesSession(n) ==
  LET o == Grant(n) IN
  /\ Receives(n, {"grant", "index"})
  /\ conn[n][o.id].open
  /\ conn' = [conn EXCEPT ![n][o.id].budget = @ + o.budget,
                ![n][o.id].carries = IF JobRuns(n) THEN Carries(n) ELSE @]
  /\ TakesFeed(n)
  /\ IF JobRuns(n) THEN UNCHANGED fromNode
     ELSE SendHub(n, Message("alternate", n, o.id, o.handled))
  /\ UNCHANGED <<setup, hubState, tasks, pc, locals, sync, verified, left, phase,
                 storeState, counters>>

\* The storage node accepts one connection for each session it opens.
ConnectsSession(n) ==
  LET o == Grant(n)
      k == <<n, o.id>> IN
  /\ Receives(n, {"grant", "index"})
  /\ ~conn[n][o.id].open
  /\ receiving[o.store][k].awaited
  /\ receiving' = [receiving EXCEPT ![o.store][k].awaited = FALSE]
  /\ conn' = [conn EXCEPT ![n][o.id] =
       [open |-> TRUE, store |-> o.store, budget |-> o.budget,
        handled |-> o.handled, carries |-> Carries(n)]]
  /\ TakesFeed(n)
  /\ IF JobRuns(n) THEN UNCHANGED fromNode
     ELSE SendHub(n, Message("alternate", n, o.id, o.handled))
  /\ UNCHANGED <<setup, hubState, tasks, pc, locals, sync, verified, left, phase,
                 stored, counters>>

\* The node cannot be reached, or does not expect the client: another is asked
\* for, for data even when the session was for the index, which counts as a
\* fault because the job does not get over it.
ConnectFails(n) ==
  LET o == Grant(n) IN
  /\ Receives(n, {"grant", "index"})
  /\ ~conn[n][o.id].open
  /\ IF o.kind = "index" THEN Faults
     ELSE IF receiving[o.store][<<n, o.id>>].awaited THEN Breaks
     ELSE UNCHANGED counters
  /\ SendHub(n, Message("alternate", n, o.id, o.handled))
  /\ UNCHANGED <<setup, hubState, tasks, pc, locals, sync, verified, clientState,
                 storeState>>

CancelTask(n) ==
  /\ Receives(n, {"cancel"})
  /\ phase' = [phase EXCEPT ![n] = IF @ = "done" THEN @ ELSE "cancelled"]
  /\ UNCHANGED <<setup, hubState, tasks, pc, locals, sync, verified, fromNode, conn,
                 left, feeds, storeState, counters>>

-----------------------------------------------------------------------------
(* The sessions of a client.                                                 *)

\* A consumer works on a feed, or its task has ended and AfterTask goes on.
Working(n, i) == conn[n][i].open /\ conn[n][i].carries = "data"
Ended(n, i) == conn[n][i].open /\ conn[n][i].carries = "after"

CloseConn(n, i) == conn' = [conn EXCEPT ![n][i] = NoConn]
CloseReceiver(n, i) ==
  receiving' = [receiving EXCEPT ![conn[n][i].store][<<n, i>>] = NoReceiver]

\* One chunk goes over and is counted on both sides; the storage node tells
\* the hub when its budget is used up.
Carry(n, i) ==
  LET c == conn[n][i]
      r == Receiver(n, i) IN
  /\ c.budget > 0
  /\ r.open /\ r.budget > 0
  /\ receiving' = [receiving EXCEPT ![c.store][<<n, i>>] =
       [r EXCEPT !.budget = @ - 1, !.handled = @ + 1]]
  /\ stored' = [stored EXCEPT ![c.store] = @ + 1]

UsageOf(n, i) ==
  Message("usage", n, i, Receiver(n, i).handled)
UsageAfter(n, i) ==
  Message("usage", n, i, Receiver(n, i).handled + 1)

SendsChunk(n, i) ==
  LET s == conn[n][i].store IN
  /\ Working(n, i)
  /\ phase[n] # "cancelled"
  /\ left[n] > 0
  /\ Carry(n, i)
  /\ conn' = [conn EXCEPT ![n][i].budget = @ - 1, ![n][i].handled = @ + 1]
  /\ left' = [left EXCEPT ![n] = @ - 1]
  /\ IF Receiver(n, i).budget = 1 THEN SendHub(s, UsageAfter(n, i))
                                  ELSE UNCHANGED fromNode
  /\ UNCHANGED <<setup, hubState, tasks, pc, locals, sync, verified, toNode, feeds,
                 phase, counters>>

\* The storage node has no budget left for the session and disconnects; the
\* client's next chunk cannot be sent, and another node is asked for.
OutOfBudget(n, i) ==
  /\ Working(n, i)
  /\ phase[n] # "cancelled"
  /\ left[n] > 0
  /\ conn[n][i].budget > 0
  /\ Receiver(n, i).budget = 0
  /\ CloseConn(n, i)
  /\ CloseReceiver(n, i)
  /\ AddsFeed(n)
  /\ SendHub(n, Message("alternate", n, i, conn[n][i].handled))
  /\ UNCHANGED <<setup, hubState, tasks, pc, locals, sync, verified, toNode, left,
                 phase, stored, counters>>

\* The budget is used up: the feed waits for another session, even when its last
\* chunk has been taken and only the end of adding is missing.
BudgetExpires(n, i) ==
  /\ conn[n][i].budget = 0
  /\ AddsFeed(n)

\* The feed is completed; chunks that are left are on other feeds.
FeedCompletes(n, i) ==
  /\ left[n] > 0 => feeds[n] > 0 \/ \E j \in Ids \ {i} : Working(n, j)
  /\ UNCHANGED feeds

StopsConsuming(n, i) ==
  /\ Working(n, i)
  /\ phase[n] # "cancelled"
  /\ BudgetExpires(n, i) \/ FeedCompletes(n, i)
  /\ conn' = [conn EXCEPT ![n][i].carries = "after"]
  /\ UNCHANGED <<setup, hubState, tasks, pc, locals, sync, wires, left, phase,
                 storeState, counters>>

\* AfterTask: a feed waits, whatever is left of the session's budget.
AsksAgain(n, i) ==
  /\ Ended(n, i)
  /\ phase[n] # "cancelled"
  /\ feeds[n] > 0
  /\ conn' = [conn EXCEPT ![n][i].carries = "nothing"]
  /\ SendHub(n, Message("renewal", n, i, conn[n][i].handled))
  /\ UNCHANGED <<setup, hubState, tasks, pc, locals, sync, verified, toNode, left,
                 feeds, phase, storeState, counters>>

\* No feed waits, or the job is cancelled: END, and without a consumer that still
\* works the data backup is done.
EndsSession(n, i) ==
  /\ \/ Ended(n, i) /\ (feeds[n] = 0 \/ phase[n] = "cancelled")
     \/ Working(n, i) /\ phase[n] = "cancelled"
  /\ CloseConn(n, i)
  /\ CloseReceiver(n, i)
  /\ SendHub(conn[n][i].store, UsageOf(n, i))
  /\ phase' = IF phase[n] = "sending" /\ \A j \in Ids : ~Working(n, j)
              THEN [phase EXCEPT ![n] = "emptied"] ELSE phase
  /\ UNCHANGED <<setup, hubState, tasks, pc, locals, sync, verified, toNode, left,
                 feeds, stored, counters>>

\* The connection between the nodes is lost: each closes its end, and a
\* consumer asks for another node.  What becomes of its feed then is
\* BackupPipeline's: it counts as a fault, because the job may not get over it.
\* (A loss before AfterTask asks again is taken for one after it.)
SessionBreaks(n, i) ==
  /\ conn[n][i].open
  /\ conn[n][i].carries \in {"nothing", "data"}
  /\ CloseConn(n, i)
  /\ CloseReceiver(n, i)
  /\ IF Working(n, i) /\ JobRuns(n)
     THEN /\ Faults
          /\ AddsFeed(n)
          /\ SendHub(n, Message("alternate", n, i, conn[n][i].handled))
     ELSE Breaks /\ UNCHANGED <<feeds, fromNode>>
  /\ UNCHANGED <<setup, hubState, tasks, pc, locals, sync, verified, toNode, left,
                 phase, stored>>

\* ProcessIndex, when the indexer has done its work.
AsksIndex(n) ==
  /\ phase[n] = "emptied"
  /\ phase' = [phase EXCEPT ![n] = "indexing"]
  /\ SendHub(n, Message("index", n, 0, 0))
  /\ UNCHANGED <<setup, hubState, tasks, pc, locals, sync, verified, toNode, conn,
                 left, feeds, storeState, counters>>

\* The index goes out and the job is done; its session stays open.
SendsIndex(n, i) ==
  /\ phase[n] = "indexing"
  /\ conn[n][i].open /\ conn[n][i].carries = "index"
  /\ Carry(n, i)
  /\ conn' = [conn EXCEPT ![n][i].budget = @ - 1, ![n][i].handled = @ + 1,
                          ![n][i].carries = "nothing"]
  /\ phase' = [phase EXCEPT ![n] = "done"]
  /\ SendHub(n, Message("done", n, 0, 0))
  /\ UNCHANGED <<setup, hubState, tasks, pc, locals, sync, verified, toNode, left,
                 feeds, counters>>

-----------------------------------------------------------------------------
Answers(n) ==
  \/ AskStorage(n) \/ TaskDone(n)
  \/ FindsSession(n) \/ RemovesSession(n) \/ LowersLoad(n)
  \/ ChooseStorage(n) \/ NoStorage(n) \/ ChoiceFails(n)
  \/ RenewStorageSession(n) \/ CreateStorageSessions(n) \/ CreatedAll(n)
  \/ SendsStore(n) \/ SendRefused(n) \/ Woken(n) \/ Resets(n)
  \/ TellsClient(n)
  \/ ReadsReserved(n) \/ Reserves(n) \/ ListsSession(n) \/ RaisesLoad(n)

\* The hub's thread of a node.
HubThread(n) ==
  \/ HandleSessionEvent(n) \/ ConfirmsUsage(n) \/ ReleasesReserved(n)
  \/ n \in Stores /\ (HandleReady(n) \/ Rings(n))
  \/ n \in Clients /\ Answers(n)

\* A node reads an order of the hub.
NodeReads(n) ==
  \/ n \in Stores /\ StartStoreSession(n)
  \/ n \in Clients /\ (\/ ReusesSession(n) \/ ConnectsSession(n)
                       \/ ConnectFails(n) \/ CancelTask(n))

Consumes(n, i) ==
  SendsChunk(n, i) \/ OutOfBudget(n, i) \/ StopsConsuming(n, i) \/ AsksAgain(n, i)
    \/ EndsSession(n, i) \/ SendsIndex(n, i)

\* The hub's scheduler.
SchedulerThread == SweepsSession \/ SweepsLoad \/ \E n \in Clients : HandleTaskEvent(n)

Next ==
  \/ \E n \in Nodes : HubThread(n) \/ NodeReads(n)
  \/ SchedulerThread
  \/ \E n \in Clients : WaitTimesOut(n) \/ AsksIndex(n)
  \/ \E n \in Clients, i \in Ids : Consumes(n, i) \/ SessionBreaks(n, i)
  \/ \E s \in Stores : ClearNode(s) \/ PutNodeOnline(s)

Spec == Init /\ [][Next]_vars

\* Threads and processes go on when they can, and the scheduler's passes come
\* round.  Nothing makes a connection fail or a node come back.
Fairness ==
  /\ \A n \in Nodes : WF_vars(HubThread(n)) /\ WF_vars(NodeReads(n))
  /\ WF_vars(SchedulerThread) /\ \A n \in Clients : WF_vars(AsksIndex(n))
  /\ \A n \in Clients, i \in Ids : WF_vars(Consumes(n, i))

FairSpec == Spec /\ Fairness

-----------------------------------------------------------------------------
Sessions ==
  [listed : BOOLEAN, client : Clients, store : Stores, budget : Nat,
   byClient : BOOLEAN, byStore : BOOLEAN, handled : Nat]
Messages ==
  [kind : Requests \cup {"usage", "done", "ready"}, client : Clients,
   id : Ids \cup {0}, handled : Nat]
OrdersOfHub ==
  [kind : {"STORE", "grant", "index", "cancel"}, client : Clients,
   id : Ids \cup {0}, store : Stores, budget : Nat, handled : Nat]

\* Every variable has its type: no count goes below zero but those of a storage
\* node, which start again at zero when it connects again (PutNodeOnline).
TypeOK ==
  /\ setup \in Setups
  /\ session \in [Ids -> Sessions]
  /\ reserved \in [Stores -> Int] /\ used \in [Stores -> Nat] /\ load \in [Stores -> Int]
  /\ verified \subseteq Nodes
  /\ task \in [Clients -> {"Started", "Done", "Cancelled"}]
  /\ queued \subseteq Clients
  /\ storageNodes \in [Clients -> SUBSET Stores]
  /\ sweep \in [ids : SUBSET Ids, id : Ids \cup {0}, seen : Int]
  /\ pc \in [Nodes -> {"idle", "confirm", "release", "ring", "renew", "unlist", "remove",
                       "lower", "choose", "create", "send", "wait", "reset", "tell",
                       "reserve", "book", "enlist", "raise"}]
  /\ asked \in [Nodes -> Messages]
  /\ creating \in [Clients -> [id : Ids \cup {0}, store : Stores, budget : Nat,
                                kind : {"grant", "index"}, renews : BOOLEAN]]
  /\ targets \in [Clients -> Seq(Stores)]
  /\ share \in [Clients -> Nat]
  /\ seen \in [Nodes -> Int]
  /\ event \in [Stores -> BOOLEAN]
  /\ handlers \in [Stores -> Nat] /\ ringing \in [Stores -> Nat]
  /\ fromNode \in [Nodes -> Seq(Messages)] /\ toNode \in [Nodes -> Seq(OrdersOfHub)]
  /\ conn \in [Clients -> [Ids ->
       [open : BOOLEAN, store : Stores, budget : Nat, handled : Nat,
        carries : {"nothing", "data", "after", "index"}]]]
  /\ left \in [Clients -> Nat] /\ feeds \in [Clients -> Nat]
  /\ phase \in [Clients -> {"sending", "emptied", "indexing", "done", "cancelled"}]
  /\ receiving \in [Stores -> [Clients \X Ids ->
       [open : BOOLEAN, awaited : BOOLEAN, budget : Nat, handled : Nat]]]
  /\ stored \in [Stores -> Nat]
  /\ breaks \in Nat /\ faults \in Nat /\ reused \in BOOLEAN

\* The accounts below are those of a hub that has lost no storage node, has
\* cancelled no task and has given no session the id of another that is still
\* in use.  After any of these the code does not keep them.
Regular == faults = 0 /\ ~reused /\ \A c \in Clients : task[c] # "Cancelled"

\* What AddRemoveSession adds to and takes from a node's CurrentLoad, in the
\* threads of clients and of the scheduler, remains the load of the node's
\* listed sessions, whenever none of them is at it.
LoadIsSessions ==
  (Regular /\ ~Sweeping /\ \A n \in Nodes : pc[n] \notin {"lower", "raise"}) =>
    \A s \in Stores :
      load[s] = LoadOf(s) * Cardinality({i \in Listed : session[i].store = s})

\* CreateStorageSession tells a client of a session only when the storage node
\* has read the order to open or renew that session, so that the client is not
\* turned away and does not overrun the node's budget.
ToldWhenReady ==
  faults = 0 =>
    \A c \in Clients : pc[c] = "tell" =>
      \A k \in DOMAIN toNode[creating[c].store] :
        LET o == toNode[creating[c].store][k] IN
        o.kind = "STORE" => <<o.client, o.id>> # <<c, creating[c].id>>

\* The sum of the values of f, as the number of elements of a disjoint union.
Total(f) == Cardinality(UNION {{x} \X (1..f[x]) : x \in DOMAIN f})

GrantsUnderWay(n, i) == Total([k \in Granted(n, i) |-> toNode[n][k].budget])

\* The two ends of a session count its budget each on its own (Session.Budget in
\* the client's and in the storage node's process), and are told of a renewal at
\* different times: what the client may send, now or when it has read the grants
\* on their way, the storage node accepts.
BudgetCovered ==
  Regular =>
    \A n \in Clients, i \in Ids : conn[n][i].open =>
      conn[n][i].budget + GrantsUnderWay(n, i) <= Receiver(n, i).budget

Outstanding(s) == Total([k \in Clients \X Ids |-> receiving[s][k].budget])

\* What a request for several sessions may take from a node beyond the room that
\* was asked of it: the budget is shared by the nodes found, the room asked for
\* is that of a share among as many as wanted.
Overdraft ==
  LET more == FirstBudget - FirstBudget \div setup.parallelism IN
  IF more = 0 THEN 0 ELSE more - 1

\* What a storage node has accepted to store exceeds its size by no more than one
\* request's overdraft, however often requests follow each other: the test of
\* StorageSize - StorageUsed - ReservedSpace, made at each choice and renewal before
\* the space is reserved, leaves room for all the rest.
RoomForEveryBudget ==
  Regular => \A s \in Stores : stored[s] + Outstanding(s) <= setup.size[s] + Overdraft

Promised(s) ==
  Total([c \in {c \in Clients : /\ pc[c] \in {"send", "wait", "reset", "tell", "reserve", "book"}
                               /\ creating[c].store = s} |-> creating[c].budget])

\* What a storage node has stored or has accepted to store is covered by the
\* hub's accounts of it, StorageUsed and ReservedSpace, and the session its
\* thread is creating: the reservation of a period is released only when both
\* ends have told what the session has handled.
SpaceHeld ==
  Regular => \A s \in Stores :
      stored[s] + Outstanding(s) <= used[s] + reserved[s] + Promised(s)

\* A client's backup ends, or is cancelled for want of space, though budgets run
\* out, feeds wait with budget left, nodes are full and a connection between nodes
\* breaks (ChooseStorage, AfterTask): the hub's answers bring it as many sessions
\* as it takes.  A request may go unanswered after a fault or when an id was given
\* twice, which are excepted, and when a task finds fewer nodes than it wants
\* (ChoiceFails), which does not happen to a first request of the checked setups.
BackupEnds ==
  \A n \in Clients : <>(faults > 0 \/ reused \/ phase[n] \in {"done", "cancelled"})
=============================================================================
