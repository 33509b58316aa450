------------------------- MODULE TaskStarts_proofs -------------------------
(***************************************************************************)
(* What holds of TaskScheduler for every value of its constants as long as *)
(* tasks are started by the scheduler only: no task is ordered to start    *)
(* twice, no alarm of a node is wiped out and, if users do nothing but     *)
(* cancel, a backup set has one live task and the task table is a ledger.  *)
(***************************************************************************)
EXTENDS TaskScheduler_proofs, FiniteSetTheorems

-----------------------------------------------------------------------------
(* The orders to start on the connections.                                 *)

IsStart(m) == m.order = "STARTTASK"

\* The order to start t is on a connection or has been read.
Ordered(t) ==
  \/ t \in received
  \/ \E n \in Nodes : \E i \in 1..Len(wire[n]) :
       IsStart(wire[n][i]) /\ wire[n][i].id = t

\* Each at most once, on all connections together.
OrderedOnce ==
  /\ \A n1, n2 \in Nodes : \A i \in 1..Len(wire[n1]), j \in 1..Len(wire[n2]) :
       IsStart(wire[n1][i]) /\ IsStart(wire[n2][j])
         /\ wire[n1][i].id = wire[n2][j].id
         => n1 = n2 /\ i = j
  /\ \A n \in Nodes : \A i \in 1..Len(wire[n]) :
       IsStart(wire[n][i]) => wire[n][i].id \notin received

\* No order is new.
NoneOrdered ==
  OrderedOnce' /\ \A t \in TaskIds : Ordered(t)' => Ordered(t)

LEMMA WireSame ==
  ASSUME OrderedOnce, wire' = wire, received' = received
  PROVE  NoneOrdered
BY DEF OrderedOnce, Ordered, NoneOrdered

\* What was under way to a node, or to all of them, is lost.
LEMMA WireCleared ==
  ASSUME OrderedOnce, wire \in [Nodes -> Seq(Messages)],
         NEW f \in [Nodes -> Seq(Messages)], wire' = f, received' = received,
         \A n \in Nodes : f[n] = wire[n] \/ f[n] = <<>>
  PROVE  NoneOrdered
<1>1. \A n \in Nodes : \A i \in 1..Len(f[n]) :
        i \in 1..Len(wire[n]) /\ f[n][i] = wire[n][i]
  OBVIOUS
<1>2. OrderedOnce'
  BY <1>1 DEF OrderedOnce
<1>3. \A t \in TaskIds : Ordered(t)' => Ordered(t)
  BY <1>1 DEF Ordered
<1>4. QED
  BY <1>2, <1>3 DEF NoneOrdered

\* An order is written, or the write fails.
LEMMA WireSent ==
  ASSUME TypeOK, OrderedOnce, NEW n, NEW order \in Orders,
         NEW t \in TaskIds, Send(n, order, t), received' = received,
         order = "STARTTASK" => ~Ordered(t)
  PROVE  /\ OrderedOnce'
         /\ \A x \in TaskIds :
              Ordered(x)' => Ordered(x) \/ (order = "STARTTASK" /\ x = t)
<1> DEFINE m == [order |-> order, id |-> t]
<1>1. CASE wire' = wire
  BY <1>1, WireSame DEF NoneOrdered
<1>2. CASE n \in Nodes /\ wire' = [wire EXCEPT ![n] = Append(@, m)]
  <2>1. m \in Messages /\ m.order = order /\ m.id = t
    BY DEF Messages
  <2> HIDE DEF m
  <2>2. ASSUME NEW x \in Nodes
        PROVE  /\ wire[x] \in Seq(Messages)
               /\ x # n => wire'[x] = wire[x]
               /\ x = n => /\ Len(wire'[x]) = Len(wire[x]) + 1
                           /\ wire'[x][Len(wire[x]) + 1] = m
                           /\ \A i \in 1..Len(wire[x]) : wire'[x][i] = wire[x][i]
    <3>1. wire[x] \in Seq(Messages)
      BY DEF TypeOK
    <3>2. CASE x # n
      BY <1>2, <3>1, <3>2 DEF TypeOK
    <3>3. CASE x = n
      <4>1. wire'[n] = Append(wire[n], m)
        BY <1>2 DEF TypeOK
      <4>2. QED
        BY <2>1, <3>1, <3>3, <4>1
    <3>4. QED
      BY <3>1, <3>2, <3>3
  <2>3. ASSUME NEW x \in Nodes, NEW i \in 1..Len(wire'[x])
        PROVE  \/ i \in 1..Len(wire[x]) /\ wire'[x][i] = wire[x][i]
               \/ x = n /\ i = Len(wire[n]) + 1 /\ wire'[x][i] = m
    BY <2>2, <2>3
  <2>4. ASSUME NEW x \in Nodes, NEW i \in 1..Len(wire[x])
        PROVE  order = "STARTTASK" /\ IsStart(wire[x][i]) => wire[x][i].id # t
    BY DEF Ordered
  <2>5. OrderedOnce'
    <3>1. ASSUME NEW x \in Nodes, NEW y \in Nodes,
                 NEW i \in 1..Len(wire'[x]), NEW j \in 1..Len(wire'[y]),
                 IsStart(wire'[x][i]), IsStart(wire'[y][j]),
                 wire'[x][i].id = wire'[y][j].id
          PROVE  x = y /\ i = j
      <4>1. CASE i \in 1..Len(wire[x]) /\ wire'[x][i] = wire[x][i]
        <5>1. CASE j \in 1..Len(wire[y]) /\ wire'[y][j] = wire[y][j]
          BY <3>1, <4>1, <5>1 DEF OrderedOnce
        <5>2. CASE y = n /\ j = Len(wire[n]) + 1 /\ wire'[y][j] = m
          BY <2>1, <2>4, <3>1, <4>1, <5>2 DEF IsStart
        <5>3. QED
          BY <2>3, <5>1, <5>2
      <4>2. CASE x = n /\ i = Len(wire[n]) + 1 /\ wire'[x][i] = m
        <5>1. CASE j \in 1..Len(wire[y]) /\ wire'[y][j] = wire[y][j]
          BY <2>1, <2>4, <3>1, <4>2, <5>1 DEF IsStart
        <5>2. CASE y = n /\ j = Len(wire[n]) + 1 /\ wire'[y][j] = m
          BY <4>2, <5>2
        <5>3. QED
          BY <2>3, <5>1, <5>2
      <4>3. QED
        BY <2>3, <4>1, <4>2
    <3>2. ASSUME NEW x \in Nodes, NEW i \in 1..Len(wire'[x]),
                 IsStart(wire'[x][i])
          PROVE  wire'[x][i].id \notin received
      <4>1. CASE i \in 1..Len(wire[x]) /\ wire'[x][i] = wire[x][i]
        BY <3>2, <4>1 DEF OrderedOnce
      <4>2. CASE x = n /\ i = Len(wire[n]) + 1 /\ wire'[x][i] = m
        BY <2>1, <3>2, <4>2 DEF IsStart, Ordered
      <4>3. QED
        BY <2>3, <4>1, <4>2
    <3>3. QED
      BY <3>1, <3>2 DEF OrderedOnce
  <2>6. ASSUME NEW x \in TaskIds, Ordered(x)'
        PROVE  Ordered(x) \/ (order = "STARTTASK" /\ x = t)
    <3>1. CASE x \in received
      BY <3>1 DEF Ordered
    <3>2. ASSUME NEW y \in Nodes, NEW i \in 1..Len(wire'[y]),
                 IsStart(wire'[y][i]), wire'[y][i].id = x
          PROVE  Ordered(x) \/ (order = "STARTTASK" /\ x = t)
      BY <2>1, <2>3, <3>2 DEF Ordered, IsStart
    <3>3. QED
      BY <2>6, <3>1, <3>2 DEF Ordered
  <2>7. QED
    BY <2>5, <2>6
<1>3. CASE n \notin Nodes
  BY <1>1, <1>3 DEF Send, TypeOK
<1>4. QED
  BY <1>1, <1>2, <1>3 DEF Send

\* A node reads the oldest of its orders.
LEMMA WireRead ==
  ASSUME TypeOK, OrderedOnce, NEW n \in Nodes, NodeReads(n)
  PROVE  NoneOrdered
<1> DEFINE m == Head(wire[n])
<1>1. wire \in [Nodes -> Seq(Messages)] /\ wire[n] # <<>>
  BY DEF NodeReads, TypeOK
<1>2. /\ Len(wire[n]) \in Nat \ {0} /\ m = wire[n][1] /\ wire[n] \in Seq(Messages)
      /\ Len(Tail(wire[n])) = Len(wire[n]) - 1
      /\ \A i \in 1..Len(wire[n]) - 1 : Tail(wire[n])[i] = wire[n][i + 1]
  BY <1>1
<1>3. /\ wire'[n] = Tail(wire[n])
      /\ \A x \in Nodes : x # n => wire'[x] = wire[x]
      /\ received' = IF IsStart(m) THEN received \cup {m.id} ELSE received
  BY <1>1 DEF NodeReads, IsStart
<1> HIDE DEF m
<1>4. \A x \in Nodes : Len(wire[x]) \in Nat
  BY <1>1
<1>5. ASSUME NEW x \in Nodes, NEW i \in 1..Len(wire'[x])
      PROVE  \/ x # n /\ i \in 1..Len(wire[x]) /\ wire'[x][i] = wire[x][i]
             \/ /\ x = n /\ i + 1 \in 1..Len(wire[x]) /\ i # 0
                /\ wire'[x][i] = wire[x][i + 1]
  <2>1. CASE x # n
    BY <1>3, <2>1
  <2>2. CASE x = n
    <3>1. i \in 1..Len(wire[n]) - 1
      BY <1>2, <1>3, <2>2
    <3>2. wire'[x][i] = wire[x][i + 1]
      BY <1>2, <1>3, <2>2, <3>1
    <3>3. QED
      BY <1>2, <2>2, <3>1, <3>2
  <2>3. QED
    BY <2>1, <2>2
<1>6. OrderedOnce'
  <2>1. ASSUME NEW x \in Nodes, NEW y \in Nodes,
               NEW i \in 1..Len(wire'[x]), NEW j \in 1..Len(wire'[y]),
               IsStart(wire'[x][i]), IsStart(wire'[y][j]),
               wire'[x][i].id = wire'[y][j].id
        PROVE  x = y /\ i = j
    <3>1. PICK k \in 1..Len(wire[x]) :
            /\ wire'[x][i] = wire[x][k] /\ k = IF x = n THEN i + 1 ELSE i
      BY <1>5
    <3>2. PICK l \in 1..Len(wire[y]) :
            /\ wire'[y][j] = wire[y][l] /\ l = IF y = n THEN j + 1 ELSE j
      BY <1>5
    <3>3. /\ IsStart(wire[x][k]) /\ IsStart(wire[y][l])
          /\ wire[x][k].id = wire[y][l].id
      BY <2>1, <3>1, <3>2
    <3>4. x = y /\ k = l
      BY <3>3 DEF OrderedOnce
    <3>5. i \in Nat /\ j \in Nat
      OBVIOUS
    <3>6. QED
      BY <3>1, <3>2, <3>4, <3>5
  <2>2. ASSUME NEW x \in Nodes, NEW i \in 1..Len(wire'[x]),
               IsStart(wire'[x][i])
        PROVE  wire'[x][i].id \notin received'
    <3>1. PICK k \in 1..Len(wire[x]) :
            wire'[x][i] = wire[x][k] /\ (x = n => k # 1)
      BY <1>5
    <3>2. wire[x][k].id \notin received
      BY <2>2, <3>1 DEF OrderedOnce
    <3>3. IsStart(m) => wire[x][k].id # m.id
      BY <1>2, <2>2, <3>1 DEF OrderedOnce
    <3>4. QED
      BY <1>3, <3>1, <3>2, <3>3
  <2>3. QED
    BY <2>1, <2>2 DEF OrderedOnce
<1>7. ASSUME NEW t \in TaskIds, Ordered(t)'
      PROVE  Ordered(t)
  <2>1. CASE t \in received'
    BY <1>2, <1>3, <2>1 DEF Ordered
  <2>2. ASSUME NEW x \in Nodes, NEW i \in 1..Len(wire'[x]),
               IsStart(wire'[x][i]), wire'[x][i].id = t
        PROVE  Ordered(t)
    BY <1>5, <2>2 DEF Ordered
  <2>3. QED
    BY <1>7, <2>1, <2>2 DEF Ordered
<1>8. QED
  BY <1>6, <1>7 DEF NoneOrdered

-----------------------------------------------------------------------------
(* Starts by the scheduler only.                                           *)

\* Where a user's thread may be when users start nothing.
QuietLabels ==
  {"idle", "cancelPending", "cancelSend", "cancelSet"}
    \cup (IF "Pause" \in UserRequests THEN {"pauseSet"} ELSE {})
UsersQuiet == \A u \in Users : pc[u] \in QuietLabels

\* No task is twice in the queue, or about to be.
QueuedOnce ==
  /\ \A i, j \in 1..Len(queue) : queue[i] = queue[j] => i = j
  /\ pc[Scheduler] = "add" => tid[Scheduler] \notin Queued

\* The scheduler starts what was not ordered to start, and nothing that was
\* still waits, except for the task whose order the scheduler has just sent.
StartsFresh ==
  /\ \A t \in TaskIds : Ordered(t) => t \in 1..lastId
  /\ \A t \in TaskIds :
       Ordered(t) /\ t \in Queued /\ task[t].run = "PendingStart" =>
         pc[Scheduler] \in {"mark", "marked"} /\ tid[Scheduler] = t
  /\ pc[Scheduler] \in {"add", "start"} => ~Ordered(tid[Scheduler])

StartInv == UsersQuiet /\ OrderedOnce /\ QueuedOnce /\ StartsFresh

\* What the steps of users, nodes and connections leave alone.
Aside ==
  /\ lastId' = lastId /\ queue' = queue
  /\ pc'[Scheduler] = pc[Scheduler] /\ tid'[Scheduler] = tid[Scheduler]
  /\ tset'[Scheduler] = tset[Scheduler]

SetKept == \A t \in TaskIds : task'[t].set = task[t].set
AlarmKept == \A t \in TaskIds : task[t].status # "Ok" => task'[t].status # "Ok"

\* No task gets alive.
LiveRuns == {"PendingStart", "Started", "Paused"}
NoneRevived ==
  \A t \in TaskIds : task'[t].run \in LiveRuns => task[t].run \in LiveRuns

\* A step of another thread.
Beside ==
  /\ Aside /\ NoneOrdered /\ NoneReopened /\ SetKept /\ AlarmKept /\ UsersQuiet'
  /\ "Pause" \notin UserRequests => NoneRevived

LEMMA TaskOf ==
  ASSUME TypeOK, NEW w \in Threads, pc[w] \notin AtRest
  PROVE  tid[w] \in 1..lastId /\ tid[w] \in TaskIds
<1>1. tid[w] \in 0..lastId /\ tid[w] # 0 /\ lastId \in 0..MaxTasks
  BY DEF TypeOK
<1>2. QED
  BY <1>1, ConstantsAssumption DEF TaskIds

LEMMA RunUpdateKeeps ==
  ASSUME TypeOK, NEW t, NEW r \in RunStatuses \ {"PendingStart"},
         SetRunIfQueued(t, r) \/ SetRun(t, r)
  PROVE  /\ NoneReopened /\ SetKept /\ AlarmKept
         /\ r \notin LiveRuns => NoneRevived
<1>1. CASE task' = task
  BY <1>1 DEF NoneReopened, SetKept, AlarmKept, NoneRevived
<1>2. CASE task' = [task EXCEPT ![t].run = r]
  <2>1. ASSUME NEW x \in TaskIds
        PROVE  /\ task'[x].set = task[x].set
               /\ task'[x].status = task[x].status
               /\ task'[x].run = task[x].run \/ task'[x].run = r
    BY <1>2 DEF TypeOK, TaskObjects
  <2>2. QED
    BY <2>1 DEF NoneReopened, SetKept, AlarmKept, NoneRevived
<1>3. QED
  BY <1>1, <1>2 DEF SetRunIfQueued, SetRun

LEMMA AsideStarts ==
  ASSUME TypeOK, StartInv, Aside, NoneOrdered, NoneReopened, UsersQuiet'
  PROVE  StartInv'
<1>1. /\ OrderedOnce'
      /\ \A t \in TaskIds : Ordered(t)' => Ordered(t)
  BY DEF NoneOrdered
<1>2. QueuedOnce'
  BY DEF StartInv, QueuedOnce, Aside, Queued
<1>3. StartsFresh'
  <2>1. \A t \in TaskIds : Ordered(t)' => t \in 1..lastId'
    BY <1>1 DEF StartInv, StartsFresh, Aside
  <2>2. ASSUME NEW t \in TaskIds, Ordered(t)', t \in Queued',
               task'[t].run = "PendingStart"
        PROVE  pc'[Scheduler] \in {"mark", "marked"} /\ tid'[Scheduler] = t
    BY <1>1, <2>2 DEF StartInv, StartsFresh, Aside, Queued, NoneReopened
  <2>3. ASSUME pc'[Scheduler] \in {"add", "start"}
        PROVE  ~Ordered(tid[Scheduler])'
    <3>1. pc[Scheduler] \in {"add", "start"}
      BY <2>3 DEF Aside
    <3>2. tid[Scheduler] \in TaskIds /\ ~Ordered(tid[Scheduler])
      BY <3>1, TaskOf DEF AtRest, StartInv, StartsFresh, Threads, Creators
    <3>3. tid'[Scheduler] = tid[Scheduler]
      BY DEF Aside
    <3>4. QED
      BY <1>1, <3>2, <3>3
  <2>4. QED
    BY <2>1, <2>2, <2>3 DEF StartsFresh
<1>4. QED
  BY <1>1, <1>2, <1>3 DEF StartInv

\* The steps of the users' threads.
LEMMA UserBeside ==
  ASSUME Inv, StartInv, "Start" \notin UserRequests,
         NEW u \in Users, User(u)
  PROVE  Beside
<1> USE ConstantsAssumption
    DEF memory, database, pass, peers, counters, threads, Goto, Return,
        Threads, Creators
<1>1. TypeOK /\ OrderedOnce /\ UsersQuiet
  BY DEF Inv, StartInv
<1>2. u # Scheduler
  OBVIOUS
<1>3. ASSUME NEW l \in QuietLabels, pc' = [pc EXCEPT ![u] = l]
      PROVE  UsersQuiet'
  BY <1>1, <1>3 DEF UsersQuiet, TypeOK
<1> DEFINE TasksKept == NoneReopened /\ SetKept /\ AlarmKept /\ NoneRevived
<1>4. ASSUME task' = task PROVE TasksKept
  BY <1>4 DEF NoneReopened, SetKept, AlarmKept, NoneRevived
<1>5. ~(\E b \in BackupSets : RequestStart(u, b))
  BY DEF RequestStart, Requests
<1>6. ~Create(u) /\ ~StartTask(u)
  BY <1>1 DEF UsersQuiet, QuietLabels, Create, CreateRefused, CreateAllowed,
     CreateSaves, CreateBounded, CreateAdds, StartTask, StartUnreachable,
     StartOverQuota, StartNotSent, StartSends, StartMarks
<1>7. ASSUME NEW t \in TaskIds, RequestCancel(u, t) PROVE Beside
  <2>1. /\ Aside /\ wire' = wire /\ received' = received /\ task' = task
        /\ \E l \in QuietLabels : pc' = [pc EXCEPT ![u] = l]
    BY <1>1, <1>2, <1>7 DEF RequestCancel, Requests, Aside, QuietLabels, TypeOK
  <2>2. QED
    BY <1>1, <1>3, <1>4, <2>1, WireSame DEF Beside
<1>8. ASSUME NEW t \in TaskIds, RequestPause(u, t) PROVE Beside
  <2>1. /\ Aside /\ received' = received /\ task' = task
        /\ \E l \in QuietLabels : pc' = [pc EXCEPT ![u] = l]
        /\ Send(Node(t), "PAUSETASK", t)
        /\ "Pause" \in UserRequests /\ t \in Queued
    BY <1>1, <1>2, <1>8 DEF RequestPause, Requests, Aside, QuietLabels, TypeOK
  <2>2. NoneOrdered
    BY <1>1, <2>1, WireSent DEF Orders, NoneOrdered
  <2>3. QED
    BY <1>3, <1>4, <2>1, <2>2 DEF Beside
<1>9. CASE CancelPending(u)
  <2>1. /\ Aside /\ wire' = wire /\ received' = received
        /\ pc' = [pc EXCEPT ![u] = "idle"]
        /\ SetRunIfQueued(tid[u], "Cancelled")
    BY <1>1, <1>2, <1>9 DEF CancelPending, Aside, TypeOK
  <2>2. TasksKept
    BY <1>1, <2>1, RunUpdateKeeps DEF RunStatuses, LiveRuns
  <2>3. QED
    BY <1>1, <1>3, <2>1, <2>2, WireSame DEF Beside, QuietLabels
<1>10. CASE CancelSends(u)
  <2>1. /\ Aside /\ received' = received /\ task' = task
        /\ \E l \in QuietLabels : pc' = [pc EXCEPT ![u] = l]
        /\ wire' = wire \/ Send(Node(tid[u]), "CANCELTASK", tid[u])
    BY <1>1, <1>2, <1>10 DEF CancelSends, Aside, QuietLabels, TypeOK
  <2>2. NoneOrdered
    <3>1. CASE wire' = wire
      BY <1>1, <2>1, <3>1, WireSame
    <3>2. CASE Send(Node(tid[u]), "CANCELTASK", tid[u])
      <4>1. tid[u] \in TaskIds
        BY <1>1, <1>10, TaskOf DEF CancelSends, AtRest
      <4>2. QED
        BY <1>1, <2>1, <3>2, <4>1, WireSent DEF Orders, NoneOrdered
    <3>3. QED
      BY <2>1, <3>1, <3>2
  <2>3. QED
    BY <1>3, <1>4, <2>1, <2>2 DEF Beside
<1>11. CASE CancelSets(u)
  <2>1. /\ Aside /\ wire' = wire /\ received' = received
        /\ pc' = [pc EXCEPT ![u] = "idle"]
        /\ SetRunIfQueued(tid[u], "Cancelling")
    BY <1>1, <1>2, <1>11 DEF CancelSets, Aside, TypeOK
  <2>2. TasksKept
    BY <1>1, <2>1, RunUpdateKeeps DEF RunStatuses, LiveRuns
  <2>3. QED
    BY <1>1, <1>3, <2>1, <2>2, WireSame DEF Beside, QuietLabels
<1>12. CASE PauseSets(u)
  <2>1. /\ Aside /\ wire' = wire /\ received' = received
        /\ pc' = [pc EXCEPT ![u] = "idle"]
        /\ SetRunIfQueued(tid[u], "Paused")
    BY <1>1, <1>2, <1>12 DEF PauseSets, Aside, TypeOK
  <2>2. NoneReopened /\ SetKept /\ AlarmKept
    BY <1>1, <2>1, RunUpdateKeeps DEF RunStatuses
  <2>3. "Pause" \in UserRequests
    BY <1>1, <1>12 DEF PauseSets, UsersQuiet, QuietLabels
  <2>4. QED
    BY <1>1, <1>3, <2>1, <2>2, <2>3, WireSame DEF Beside, QuietLabels
<1>13. QED
  BY <1>5, <1>6, <1>7, <1>8, <1>9, <1>10, <1>11, <1>12 DEF User, Serve

\* The steps of the threads that read from the nodes, and of the connections.
LEMMA NodeBeside ==
  ASSUME Inv, StartInv, NEW n \in Nodes, Handle(n) \/ Connection(n)
  PROVE  Beside
<1> USE ConstantsAssumption
    DEF memory, database, pass, peers, counters, threads, Goto, Return,
        Threads, Creators
<1>1. TypeOK /\ OrderedOnce /\ UsersQuiet
  BY DEF Inv, StartInv
<1>2. n # Scheduler /\ n \notin Users
  OBVIOUS
<1>3. ASSUME UNCHANGED <<pc, tid>> \/ \E l, t : /\ pc' = [pc EXCEPT ![n] = l]
                                                 /\ tid' = [tid EXCEPT ![n] = t],
             UNCHANGED <<lastId, queue, tset>>
      PROVE  Aside /\ UsersQuiet'
  BY <1>1, <1>2, <1>3 DEF Aside, UsersQuiet, TypeOK
<1> DEFINE TasksKept == NoneReopened /\ SetKept /\ AlarmKept /\ NoneRevived
<1>4. ASSUME task' = task PROVE TasksKept
  BY <1>4 DEF NoneReopened, SetKept, AlarmKept, NoneRevived
<1>5. ASSUME NEW t \in TaskIds, NEW st \in {"Warning", "Error"},
             HandleTask(n, t, st)
      PROVE  Beside
  <2>1. /\ UNCHANGED <<lastId, queue, tset, pc, tid, wire, received>>
        /\ task' = [task EXCEPT ![t].status = st]
    BY <1>5 DEF HandleTask
  <2>2. ASSUME NEW x \in TaskIds
        PROVE  /\ task'[x].set = task[x].set /\ task'[x].run = task[x].run
               /\ task'[x].status = task[x].status \/ task'[x].status # "Ok"
    BY <1>1, <2>1 DEF TypeOK, TaskObjects
  <2>3. TasksKept
    BY <2>2 DEF NoneReopened, SetKept, AlarmKept, NoneRevived
  <2>4. QED
    BY <1>1, <1>3, <2>1, <2>3, WireSame DEF Beside
<1>6. ASSUME NEW t \in TaskIds, HandleTaskDone(n, t) PROVE Beside
  <2>1. /\ UNCHANGED <<lastId, queue, tset, wire, received, task>>
        /\ pc' = [pc EXCEPT ![n] = "settle"]
        /\ tid' = [tid EXCEPT ![n] = t]
    BY <1>6 DEF HandleTaskDone
  <2>2. QED
    BY <1>1, <1>3, <1>4, <2>1, WireSame DEF Beside
<1>7. ASSUME NEW t \in TaskIds, HandleNoStorage(n, t) PROVE Beside
  <2>1. /\ UNCHANGED <<lastId, queue, tset, pc, tid, received>>
        /\ task' = [task EXCEPT ![t].status = "Error", ![t].run = "Cancelled"]
        /\ Send(n, "CANCELTASK", t)
    BY <1>7 DEF HandleNoStorage
  <2>2. ASSUME NEW x \in TaskIds
        PROVE  /\ task'[x].set = task[x].set
               /\ task'[x].run = task[x].run \/ task'[x].run = "Cancelled"
               /\ task'[x].status = task[x].status \/ task'[x].status # "Ok"
    BY <1>1, <2>1 DEF TypeOK, TaskObjects
  <2>3. TasksKept
    BY <2>2 DEF NoneReopened, SetKept, AlarmKept, NoneRevived, LiveRuns
  <2>4. NoneOrdered
    BY <1>1, <2>1, WireSent DEF Orders, NoneOrdered
  <2>5. QED
    BY <1>3, <2>1, <2>3, <2>4 DEF Beside
<1>8. CASE Settle(n)
  <2>1. /\ UNCHANGED <<lastId, queue, tset, wire, received>>
        /\ pc' = [pc EXCEPT ![n] = "reading"]
        /\ tid' = [tid EXCEPT ![n] = 0]
        /\ SetRunIfQueued(tid[n], verdict[n])
    BY <1>8 DEF Settle
  <2>2. verdict[n] \in RunStatuses \ {"PendingStart"} /\ verdict[n] \notin LiveRuns
    BY <1>1 DEF TypeOK, Ended, RunStatuses, LiveRuns
  <2>3. TasksKept
    BY <1>1, <2>1, <2>2, RunUpdateKeeps
  <2>4. QED
    BY <1>1, <1>3, <2>1, <2>3, WireSame DEF Beside
<1>9. CASE Connection(n)
  <2>1. UNCHANGED <<lastId, queue, tset, pc, tid, task>>
    BY <1>9 DEF Connection, NodeReads, PutNodeOnline, ClearNode,
                HandleOfflineNode, ApproveNode
  <2>2. NoneOrdered
    <3>1. CASE NodeReads(n)
      BY <1>1, <3>1, WireRead
    <3>2. CASE PutNodeOnline(n) \/ ClearNode(n) \/ HandleOfflineNode(n)
      <4> DEFINE f == [wire EXCEPT ![n] = <<>>]
      <4>1. wire' = f /\ received' = received
        BY <3>2 DEF PutNodeOnline, ClearNode, HandleOfflineNode
      <4>2. wire \in [Nodes -> Seq(Messages)]
        BY <1>1 DEF TypeOK
      <4>3. f \in [Nodes -> Seq(Messages)]
        BY <4>2
      <4>4. \A x \in Nodes : f[x] = wire[x] \/ f[x] = <<>>
        BY <4>2
      <4> HIDE DEF f
      <4>5. QED
        BY <1>1, <4>1, <4>2, <4>3, <4>4, WireCleared
    <3>3. CASE ApproveNode(n)
      BY <1>1, <3>3, WireSame DEF ApproveNode
    <3>4. QED
      BY <1>9, <3>1, <3>2, <3>3 DEF Connection
  <2>3. QED
    BY <1>3, <1>4, <2>1, <2>2 DEF Beside
<1>10. QED
  BY <1>5, <1>6, <1>7, <1>8, <1>9 DEF Handle

\* The hub stops, or starts.
LEMMA DiesStarts ==
  ASSUME Inv, StartInv, Dies
  PROVE  StartInv'
<1> USE ConstantsAssumption DEF Threads, Creators
<1>1. TypeOK /\ OrderedOnce
  BY DEF Inv, StartInv
<1>2. /\ queue' = <<>> /\ lastId' = lastId /\ received' = received
      /\ pc'[Scheduler] = "down" /\ \A u \in Users : pc'[u] = "idle"
  BY DEF Dies, database
<1>3. NoneOrdered
  <2>1. CASE wire' = wire
    BY <1>1, <1>2, <2>1, WireSame
  <2>2. CASE wire' = [n \in Nodes |-> <<>>]
    <3> DEFINE f == [n \in Nodes |-> <<>>]
    <3>1. f \in [Nodes -> Seq(Messages)] /\ wire \in [Nodes -> Seq(Messages)]
      BY <1>1 DEF TypeOK
    <3>2. \A x \in Nodes : f[x] = wire[x] \/ f[x] = <<>>
      OBVIOUS
    <3>3. wire' = f
      BY <2>2
    <3> HIDE DEF f
    <3>4. QED
      BY <1>1, <1>2, <3>1, <3>2, <3>3, WireCleared
  <2>3. QED
    BY <2>1, <2>2 DEF Dies
<1>4. UsersQuiet'
  BY <1>2 DEF UsersQuiet, QuietLabels
<1>5. QueuedOnce'
  BY <1>2 DEF QueuedOnce
<1>6. StartsFresh'
  <2>1. Queued' = {}
    BY <1>2 DEF Queued, ToSet
  <2>2. QED
    BY <1>2, <1>3, <2>1 DEF StartsFresh, NoneOrdered, StartInv
<1>7. QED
  BY <1>3, <1>4, <1>5, <1>6 DEF StartInv, NoneOrdered

\* A step of the scheduler that sends nothing and reopens nothing: the queue
\* does not grow, and it comes to no label where something must be fresh.
LEMMA SchedulerStarts ==
  ASSUME Inv, StartInv, wire' = wire, received' = received, lastId' = lastId,
         \A u \in Users : pc'[u] = pc[u],
         NoneReopened,
         \/ queue' = queue
         \/ \E i \in 1..Len(queue) : queue' = RemoveAt(queue, i),
         pc'[Scheduler] \notin {"add", "start"},
         \/ pc[Scheduler] \notin {"mark", "marked"}
         \/ pc[Scheduler] = "mark" /\ pc'[Scheduler] = "marked"
              /\ tid'[Scheduler] = tid[Scheduler]
         \/ task'[tid[Scheduler]].run # "PendingStart"
  PROVE  StartInv' /\ Queued' \subseteq Queued
<1>1. NoneOrdered
  BY WireSame DEF StartInv
<1>2. UsersQuiet'
  BY DEF StartInv, UsersQuiet
<1>3. queue \in Seq(1..lastId)
  BY DEF Inv, TypeOK
<1>4. QueuedOnce' /\ Queued' \subseteq Queued
  <2>1. CASE queue' = queue
    BY <2>1 DEF StartInv, QueuedOnce, Queued
  <2>2. ASSUME NEW i \in 1..Len(queue), queue' = RemoveAt(queue, i)
        PROVE  QueuedOnce' /\ Queued' \subseteq Queued
    <3>1. /\ queue' \in Seq(1..lastId) /\ Len(queue') = Len(queue) - 1
          /\ \A j \in 1..Len(queue) - 1 :
               queue'[j] = IF j < i THEN queue[j] ELSE queue[j + 1]
      BY <1>3, <2>2, RemoveAtLemma
    <3>2. \A j \in 1..Len(queue') : \E k \in 1..Len(queue) :
            queue'[j] = queue[k] /\ k = IF j < i THEN j ELSE j + 1
      BY <1>3, <3>1
    <3>3. \A j, k \in 1..Len(queue') : queue'[j] = queue'[k] => j = k
      <4>1. SUFFICES ASSUME NEW j \in 1..Len(queue'), NEW k \in 1..Len(queue'),
                            queue'[j] = queue'[k]
                     PROVE  j = k
        OBVIOUS
      <4>2. PICK a \in 1..Len(queue) :
              queue'[j] = queue[a] /\ a = IF j < i THEN j ELSE j + 1
        BY <3>2
      <4>3. PICK b \in 1..Len(queue) :
              queue'[k] = queue[b] /\ b = IF k < i THEN k ELSE k + 1
        BY <3>2
      <4>4. a = b
        BY <4>1, <4>2, <4>3 DEF StartInv, QueuedOnce
      <4>5. QED
        BY <4>2, <4>3, <4>4
    <3>4. /\ Queued = {queue[j] : j \in 1..Len(queue)}
          /\ Queued' = {queue'[j] : j \in 1..Len(queue')}
      BY <1>3, <3>1 DEF Queued, ToSet
    <3>5. Queued' \subseteq Queued
      BY <3>2, <3>4
    <3>6. QED
      BY <3>3, <3>5 DEF QueuedOnce
  <2>3. QED
    BY <2>1, <2>2
<1>5. StartsFresh'
  <2>1. ASSUME NEW t \in TaskIds, Ordered(t)', t \in Queued',
               task'[t].run = "PendingStart"
        PROVE  pc'[Scheduler] \in {"mark", "marked"} /\ tid'[Scheduler] = t
    <3>1. pc[Scheduler] \in {"mark", "marked"} /\ tid[Scheduler] = t
      BY <1>1, <1>4, <2>1 DEF StartInv, StartsFresh, NoneOrdered, NoneReopened
    <3>2. QED
      BY <2>1, <3>1
  <2>2. QED
    BY <1>1, <2>1 DEF StartsFresh, NoneOrdered, StartInv
<1>6. QED
  BY <1>1, <1>2, <1>4, <1>5 DEF StartInv, NoneOrdered

LEMMA CreateStarts ==
  ASSUME Inv, StartInv, Create(Scheduler)
  PROVE  StartInv'
<1> USE ConstantsAssumption
    DEF memory, database, pass, peers, counters, Goto, Return, Threads,
        Creators
<1>1. TypeOK
  BY DEF Inv
<1>2. CASE CreateRefused(Scheduler) \/ CreateAllowed(Scheduler) \/ CreateBounded(Scheduler)
  <2>1. /\ wire' = wire /\ received' = received /\ lastId' = lastId
        /\ queue' = queue /\ task' = task
        /\ \A u \in Users : pc'[u] = pc[u]
        /\ pc[Scheduler] \in {"exists", "save"}
        /\ pc'[Scheduler] \in {"create", "save"}
    BY <1>1, <1>2
    DEF CreateRefused, CreateAllowed, CreateBounded, AfterRefusal, TypeOK
  <2>2. QED
    BY <2>1, SchedulerStarts DEF NoneReopened
<1>3. CASE CreateSaves(Scheduler)
  <2>1. /\ wire' = wire /\ received' = received /\ lastId' = lastId + 1
        /\ queue' = queue /\ lastId \in Nat
        /\ task' = [task EXCEPT ![lastId + 1] =
             [set |-> tset[Scheduler], run |-> "PendingStart", status |-> "Ok"]]
        /\ pc' = [pc EXCEPT ![Scheduler] = "add"]
        /\ tid' = [tid EXCEPT ![Scheduler] = lastId + 1]
        /\ pc[Scheduler] = "save"
    BY <1>1, <1>3 DEF CreateSaves, TypeOK
  <2>2. NoneOrdered
    BY <2>1, WireSame DEF StartInv
  <2>3. UsersQuiet'
    BY <1>1, <2>1 DEF StartInv, UsersQuiet, TypeOK
  <2>4. QueuedOnce'
    <3>1. Queued \subseteq 1..lastId
      BY <1>1 DEF TypeOK, Queued, ToSet
    <3>2. QED
      BY <1>1, <2>1, <3>1 DEF StartInv, QueuedOnce, Queued, TypeOK
  <2>5. StartsFresh'
    <3>1. ASSUME NEW t \in TaskIds, Ordered(t)'
          PROVE  t \in 1..lastId /\ task'[t] = task[t] /\ t # lastId + 1
      BY <1>1, <2>1, <2>2, <3>1 DEF StartInv, StartsFresh, NoneOrdered, TypeOK
    <3>2. ASSUME NEW t \in TaskIds, Ordered(t)', t \in Queued'
          PROVE  task'[t].run # "PendingStart"
      BY <2>1, <2>2, <3>1, <3>2
      DEF StartInv, StartsFresh, NoneOrdered, Queued
    <3>3. tid'[Scheduler] = lastId + 1 /\ lastId + 1 \in TaskIds
      BY <1>1, <1>3, <2>1 DEF TypeOK, CreateSaves, TaskIds
    <3>4. QED
      BY <2>1, <3>1, <3>2, <3>3 DEF StartsFresh
  <2>6. QED
    BY <2>2, <2>3, <2>4, <2>5 DEF StartInv, NoneOrdered
<1>4. CASE CreateAdds(Scheduler)
  <2> DEFINE t == tid[Scheduler]
  <2>1. /\ wire' = wire /\ received' = received /\ lastId' = lastId
        /\ task' = task /\ queue' = Append(queue, t)
        /\ pc' = [pc EXCEPT ![Scheduler] = "create"]
        /\ pc[Scheduler] = "add"
    BY <1>1, <1>4 DEF CreateAdds, CreateTaskReturns, Enqueue, TypeOK
  <2>2. t \in 1..lastId /\ t \in TaskIds /\ t \notin Queued /\ ~Ordered(t)
    BY <1>1, <2>1, TaskOf DEF AtRest, StartInv, QueuedOnce, StartsFresh
  <2>3. queue \in Seq(1..lastId)
    BY <1>1 DEF TypeOK
  <2> HIDE DEF t
  <2>4. /\ Len(queue') = Len(queue) + 1 /\ Len(queue) \in Nat
        /\ \A i \in 1..Len(queue) : queue'[i] = queue[i]
        /\ queue'[Len(queue) + 1] = t
        /\ queue' \in Seq(1..lastId)
    BY <2>1, <2>2, <2>3
  <2>5. /\ Queued = {queue[i] : i \in 1..Len(queue)}
        /\ Queued' = {queue'[i] : i \in 1..Len(queue')}
    BY <2>3, <2>4 DEF Queued, ToSet
  <2>6. Queued' = Queued \cup {t}
    BY <2>4, <2>5
  <2>7. QueuedOnce'
    <3>1. ASSUME NEW i \in 1..Len(queue'), NEW j \in 1..Len(queue'),
                 queue'[i] = queue'[j]
          PROVE  i = j
      <4>1. \A k \in 1..Len(queue) : queue[k] # t
        BY <2>2, <2>5
      <4>2. CASE i \in 1..Len(queue) /\ j \in 1..Len(queue)
        BY <2>4, <3>1, <4>2 DEF StartInv, QueuedOnce
      <4>3. CASE i = Len(queue) + 1 \/ j = Len(queue) + 1
        BY <2>4, <3>1, <4>1, <4>3
      <4>4. QED
        BY <2>4, <4>2, <4>3
    <3>2. pc'[Scheduler] # "add"
      BY <1>1, <2>1 DEF TypeOK
    <3>3. QED
      BY <3>1, <3>2 DEF QueuedOnce
  <2>8. NoneOrdered
    BY <2>1, WireSame DEF StartInv
  <2>9. StartsFresh'
    BY <1>1, <2>1, <2>2, <2>6, <2>8
    DEF StartInv, StartsFresh, NoneOrdered, TypeOK
  <2>10. UsersQuiet'
    BY <1>1, <2>1 DEF StartInv, UsersQuiet, TypeOK
  <2>11. QED
    BY <2>7, <2>8, <2>9, <2>10 DEF StartInv, NoneOrdered
<1>5. QED
  BY <1>2, <1>3, <1>4 DEF Create

\* The steps of the scheduler's StartTask.
LEMMA StartTaskStarts ==
  ASSUME Inv, StartInv, StartTask(Scheduler)
  PROVE  StartInv'
<1> USE ConstantsAssumption
    DEF memory, database, pass, peers, counters, Goto, Return, Threads,
        Creators
<1>1. TypeOK
  BY DEF Inv
<1> DEFINE t == tid[Scheduler]
           Quietly == /\ wire' = wire /\ received' = received /\ lastId' = lastId
                      /\ queue' = queue /\ \A u \in Users : pc'[u] = pc[u]
<1>2. CASE StartUnreachable(Scheduler) \/ StartOverQuota(Scheduler)
  <2>1. Quietly /\ pc[Scheduler] = "start" /\ pc'[Scheduler] = "scan"
    <3>1. /\ pc[Scheduler] = "start" /\ pc' = [pc EXCEPT ![Scheduler] = "scan"]
          /\ UNCHANGED <<wire, received, lastId, queue>>
      BY <1>2 DEF StartUnreachable, StartOverQuota
    <3>2. QED
      BY <1>1, <3>1 DEF TypeOK
  <2>2. \/ task' = task
        \/ task' = [task EXCEPT ![t].status = "Warning"]
        \/ task' = [task EXCEPT ![t].status = "Error", ![t].run = "Error"]
    BY <1>2 DEF StartUnreachable, StartOverQuota
  <2>3. \A x \in TaskIds : task'[x].run = task[x].run \/ task'[x].run = "Error"
    <3> TAKE x \in TaskIds
    <3>1. task[x] \in TaskObjects /\ task \in [TaskIds -> TaskObjects]
      BY <1>1 DEF TypeOK
    <3> HIDE DEF t
    <3>2. CASE task' = task
      BY <3>2
    <3>3. CASE task' = [task EXCEPT ![t].status = "Warning"]
      BY <3>1, <3>3 DEF TaskObjects
    <3>4. CASE task' = [task EXCEPT ![t].status = "Error", ![t].run = "Error"]
      BY <3>1, <3>4 DEF TaskObjects
    <3>5. QED
      BY <2>2, <3>2, <3>3, <3>4
  <2>4. QED
    BY <2>1, <2>3, SchedulerStarts DEF NoneReopened
<1>3. CASE StartNotSent(Scheduler)
  <2>1. /\ Quietly /\ task' = task
        /\ pc[Scheduler] = "start" /\ pc'[Scheduler] = "marked"
    BY <1>1, <1>3 DEF StartNotSent, StartTaskReturns, TypeOK
  <2>2. QED
    BY <2>1, SchedulerStarts DEF NoneReopened
<1>4. CASE StartSends(Scheduler)
  <2>1. /\ received' = received /\ lastId' = lastId /\ queue' = queue
        /\ task' = task /\ tid' = tid
        /\ pc[Scheduler] = "start" /\ pc' = [pc EXCEPT ![Scheduler] = "mark"]
        /\ Send(Node(t), "STARTTASK", t)
    BY <1>4 DEF StartSends
  <2>2. t \in 1..lastId /\ t \in TaskIds /\ ~Ordered(t)
    BY <1>1, <2>1, TaskOf DEF AtRest, StartInv, StartsFresh
  <2>3. /\ OrderedOnce'
        /\ \A x \in TaskIds : Ordered(x)' => Ordered(x) \/ x = t
    BY <1>1, <2>1, <2>2, WireSent DEF Orders, StartInv
  <2>4. UsersQuiet' /\ QueuedOnce'
    BY <1>1, <2>1 DEF StartInv, UsersQuiet, QueuedOnce, Queued, TypeOK
  <2>5. StartsFresh'
    BY <1>1, <2>1, <2>2, <2>3 DEF StartInv, StartsFresh, Queued, TypeOK
  <2>6. QED
    BY <2>3, <2>4, <2>5 DEF StartInv
<1>5. CASE StartMarks(Scheduler)
  <2>1. /\ Quietly /\ tid' = tid
        /\ pc[Scheduler] = "mark" /\ pc'[Scheduler] = "marked"
        /\ SetRun(t, "Started")
    BY <1>1, <1>5 DEF StartMarks, MarkStarted, StartTaskReturns, TypeOK
  <2>2. NoneReopened
    BY <1>1, <2>1, RunUpdateKeeps DEF RunStatuses
  <2>3. QED
    BY <2>1, <2>2, SchedulerStarts
<1>6. QED
  BY <1>2, <1>3, <1>4, <1>5 DEF StartTask

\* A closed task, and the one removed with it, leave the queue.
LEMMA TakeOutKeeps ==
  ASSUME TypeOK, NEW i \in 1..Len(queue), TakeOut(i)
  PROVE  /\ queue' = RemoveAt(queue, i)
         /\ queue[i] \in TaskIds
         /\ NoneReopened /\ NoneRevived /\ SetKept
         /\ \A x \in TaskIds : x # queue[i] => task'[x] = task[x]
<1>1. queue[i] \in TaskIds /\ queue' = RemoveAt(queue, i)
  <2>1. queue \in Seq(1..lastId) /\ lastId \in 0..MaxTasks
    BY DEF TypeOK
  <2>2. queue[i] \in 1..lastId
    BY <2>1
  <2>3. QED
    BY <2>1, <2>2, ConstantsAssumption DEF TakeOut, TaskIds
<1>2. ASSUME NEW x \in TaskIds
      PROVE  /\ task'[x].set = task[x].set
             /\ task'[x].run = task[x].run \/ task'[x].run = "Done"
             /\ x # queue[i] => task'[x] = task[x]
  BY DEF TypeOK, TakeOut, TaskObjects
<1>3. QED
  BY <1>1, <1>2 DEF NoneReopened, NoneRevived, SetKept, LiveRuns

LEMMA ScheduleStarts ==
  ASSUME Inv, StartInv, Schedule
  PROVE  StartInv'
<1> USE ConstantsAssumption
    DEF memory, database, pass, peers, counters, threads, Goto, Return,
        Threads, Creators
<1>1. TypeOK /\ PassKeepsItsPlace
  BY DEF Inv
<1> DEFINE Quietly == /\ wire' = wire /\ received' = received /\ lastId' = lastId
                      /\ \A u \in Users : pc'[u] = pc[u]
<1>2. CASE \/ Recover \/ Poll \/ NoneDue \/ (\E b \in BackupSets : NextDue(b))
           \/ ScanEnds \/ ScanSkips \/ ScanFindsEnded \/ Complete
  <2>1. /\ Quietly /\ queue' = queue /\ task' = task
        /\ pc[Scheduler] \notin {"mark", "marked"}
        /\ pc'[Scheduler] \notin {"add", "start"}
    BY <1>1, <1>2
    DEF Recover, Poll, NoneDue, NextDue, ScanEnds, ScanSkips, ScanFindsEnded,
        Complete, TypeOK
  <2>2. QED
    BY <2>1, SchedulerStarts DEF NoneReopened
<1>3. CASE ScanFindsPending
  <2> DEFINE t == queue[idx]
  <2>1. /\ Quietly /\ queue' = queue /\ pc[Scheduler] = "scan"
        /\ pc' = [pc EXCEPT ![Scheduler] = "start"]
        /\ tid' = [tid EXCEPT ![Scheduler] = t]
        /\ task' = [task EXCEPT ![t].status = "Ok"]
        /\ task[t].run = "PendingStart"
    BY <1>1, <1>3 DEF ScanFindsPending, IsToStart, TypeOK
  <2>2. t \in Queued /\ t \in TaskIds
    <3>1. queue \in Seq(1..lastId) /\ lastId \in 0..MaxTasks /\ idx \in 1..Len(queue)
      BY <1>1, <1>3 DEF ScanFindsPending, PassKeepsItsPlace, TypeOK
    <3>2. t \in 1..lastId /\ t \in Queued
      BY <3>1 DEF Queued, ToSet
    <3>3. QED
      BY <3>1, <3>2 DEF TaskIds
  <2>3. ~Ordered(t)
    BY <2>1, <2>2 DEF StartInv, StartsFresh
  <2>4. NoneOrdered /\ UsersQuiet' /\ QueuedOnce'
    BY <1>1, <2>1, WireSame
    DEF StartInv, UsersQuiet, QueuedOnce, Queued, TypeOK
  <2>5. \A x \in TaskIds : task'[x].run = task[x].run
    BY <1>1, <2>1 DEF TypeOK, TaskObjects
  <2> HIDE DEF t
  <2>6. StartsFresh'
    BY <1>1, <2>1, <2>2, <2>3, <2>4, <2>5
    DEF StartInv, StartsFresh, NoneOrdered, Queued, TypeOK
  <2>7. QED
    BY <2>4, <2>6 DEF StartInv, NoneOrdered
<1>4. CASE ScanMarks
  <2>1. /\ Quietly /\ queue' = queue
        /\ pc[Scheduler] = "marked" /\ pc'[Scheduler] = "scan"
        /\ SetRun(tid[Scheduler], "Started")
    BY <1>1, <1>4 DEF ScanMarks, MarkStarted, TypeOK
  <2>2. NoneReopened /\ task'[tid[Scheduler]].run # "PendingStart"
    <3>1. tid[Scheduler] \in TaskIds
      BY <1>1, <2>1, TaskOf DEF AtRest
    <3>2. NoneReopened
      BY <1>1, <2>1, RunUpdateKeeps DEF RunStatuses
    <3>3. task'[tid[Scheduler]].run = "Started"
      BY <1>1, <2>1, <3>1 DEF SetRun, TypeOK, TaskObjects
    <3>4. QED
      BY <3>2, <3>3
  <2>3. QED
    BY <2>1, <2>2, SchedulerStarts
<1>5. CASE Removes
  <2>1. /\ Quietly /\ TakeOut(idx) /\ idx \in 1..Len(queue)
        /\ pc[Scheduler] = "remove" /\ pc'[Scheduler] = "scan"
    BY <1>1, <1>5 DEF Removes, TypeOK, PassKeepsItsPlace
  <2>2. NoneReopened /\ queue' = RemoveAt(queue, idx)
    BY <1>1, <2>1, TakeOutKeeps
  <2>3. QED
    BY <2>1, <2>2, SchedulerStarts
<1>6. CASE TaskEventFails
  BY <1>6, DiesStarts DEF TaskEventFails
<1>7. QED
  BY <1>2, <1>3, <1>4, <1>5, <1>6, CreateStarts, StartTaskStarts DEF Schedule

LEMMA NextStarts ==
  ASSUME Inv, StartInv, [Next]_vars, "Start" \notin UserRequests
  PROVE  StartInv'
<1>1. CASE UNCHANGED vars
  <2>1. NoneOrdered
    BY <1>1, WireSame DEF StartInv, vars, peers
  <2>2. Aside /\ NoneReopened /\ UsersQuiet'
    BY <1>1
    DEF Aside, NoneReopened, StartInv, UsersQuiet, vars, memory, database,
        threads
  <2>3. QED
    BY <2>1, <2>2, AsideStarts DEF Inv
<1>2. CASE Schedule
  BY <1>2, ScheduleStarts
<1>3. CASE \/ \E u \in Users : User(u)
           \/ \E n \in Nodes : Handle(n) \/ Connection(n)
  <2>1. Beside
    BY <1>3, UserBeside, NodeBeside
  <2>2. QED
    BY <2>1, AsideStarts DEF Beside, Inv
<1>4. CASE HubCrash
  BY <1>4, DiesStarts DEF HubCrash
<1>5. CASE HubRestart
  <2>1. /\ wire' = wire /\ received' = received /\ lastId' = lastId
        /\ queue' = queue /\ task' = task
        /\ \A u \in Users : pc'[u] = pc[u]
        /\ pc[Scheduler] = "down" /\ pc'[Scheduler] = "recover"
    BY <1>5, ConstantsAssumption
    DEF HubRestart, Goto, Inv, TypeOK, Threads, Creators, memory, database,
        peers
  <2>2. QED
    BY <2>1, SchedulerStarts DEF NoneReopened
<1>6. QED
  BY <1>1, <1>2, <1>3, <1>4, <1>5 DEF Next

LEMMA StartsCorrect ==
  ASSUME "Start" \notin UserRequests
  PROVE  Spec => []StartInv
<1>1. Init => StartInv
  BY ConstantsAssumption
  DEF Init, StartInv, UsersQuiet, QuietLabels, OrderedOnce, QueuedOnce,
      StartsFresh, Ordered, Threads, Creators, Queued, ToSet
<1>2. Inv /\ StartInv /\ [Next]_vars => StartInv'
  BY NextStarts
<1>3. QED
  BY InvCorrect, <1>1, <1>2, PTL DEF Spec

\* As long as users start no task, no task is ordered to start twice, however
\* many nodes, sets and users there are, whatever connections do and whenever
\* the hub stops: the order is sent once and read once.
THEOREM NoTaskStartsTwice ==
  ASSUME "Start" \notin UserRequests
  PROVE  Spec => []StartSentOnce
<1>1. Inv /\ StartInv => StartSentOnce
  <2>1. SUFFICES ASSUME Inv, StartInv, NEW t \in TaskIds, NEW n \in Nodes
                 PROVE  /\ Cardinality(StartOrders(n, t)) <= 1
                        /\ t \in received => StartOrders(n, t) = {}
    BY DEF StartSentOnce
  <2>2. wire[n] \in Seq(Messages)
    BY <2>1 DEF Inv, TypeOK
  <2>3. \A i \in StartOrders(n, t) :
          i \in 1..Len(wire[n]) /\ IsStart(wire[n][i]) /\ wire[n][i].id = t
    BY <2>2 DEF StartOrders, IsStart
  <2>4. \A i, j \in StartOrders(n, t) : i = j
    BY <2>1, <2>3 DEF StartInv, OrderedOnce
  <2>5. t \in received => StartOrders(n, t) = {}
    BY <2>1, <2>3 DEF StartInv, OrderedOnce
  <2>6. CASE StartOrders(n, t) = {}
    <3>1. Cardinality({}) = 0
      BY FS_EmptySet
    <3>2. QED
      BY <2>6, <3>1
  <2>7. ASSUME NEW i \in StartOrders(n, t)
        PROVE  Cardinality(StartOrders(n, t)) <= 1
    <3>1. StartOrders(n, t) = {i}
      BY <2>4
    <3>2. Cardinality({i}) = 1
      BY FS_Singleton
    <3>3. QED
      BY <3>1, <3>2
  <2>8. QED
    BY <2>5, <2>6, <2>7
<1>2. QED
  BY InvCorrect, StartsCorrect, <1>1, PTL

-----------------------------------------------------------------------------
(* Alarms.                                                                 *)

\* What is taken out of the queue is not in it any more.
LEMMA TakenOut ==
  ASSUME Inv, StartInv, NEW i \in 1..Len(queue), queue' = RemoveAt(queue, i)
  PROVE  queue[i] \notin ToSet(queue')
<1>1. queue \in Seq(1..lastId)
  BY DEF Inv, TypeOK
<1>2. /\ queue' \in Seq(1..lastId) /\ Len(queue') = Len(queue) - 1
      /\ \A j \in 1..Len(queue) - 1 :
           queue'[j] = IF j < i THEN queue[j] ELSE queue[j + 1]
  BY <1>1, RemoveAtLemma
<1>3. \A j \in 1..Len(queue') : \E k \in 1..Len(queue) :
        queue'[j] = queue[k] /\ k = IF j < i THEN j ELSE j + 1
  BY <1>1, <1>2
<1>4. \A j \in 1..Len(queue') : queue'[j] # queue[i]
  <2> TAKE j \in 1..Len(queue')
  <2>1. PICK k \in 1..Len(queue) :
          queue'[j] = queue[k] /\ k = IF j < i THEN j ELSE j + 1
    BY <1>3
  <2>2. k # i
    BY <2>1
  <2>3. QED
    BY <2>1, <2>2 DEF StartInv, QueuedOnce
<1>5. QED
  BY <1>2, <1>4 DEF ToSet

\* The scheduler resets the status of a task only before it is ordered to
\* start.
LEMMA ScheduleKeepsAlarms ==
  ASSUME Inv, StartInv, Schedule, NEW t \in received \cap Queued,
         task[t].status # "Ok", t \in ToSet(queue')
  PROVE  task'[t].status # "Ok"
<1> USE ConstantsAssumption
    DEF memory, database, pass, peers, counters, threads, Goto, Return,
        Threads, Creators
<1>1. TypeOK /\ PassKeepsItsPlace
  BY DEF Inv
<1>2. t \in TaskIds /\ Ordered(t) /\ t \in 1..lastId
  BY <1>1 DEF TypeOK, Ordered, StartInv, StartsFresh
<1>3. task \in [TaskIds -> TaskObjects] /\ task[t] \in TaskObjects
  BY <1>1, <1>2 DEF TypeOK
<1>4. CASE task' = task
  BY <1>4
<1>5. ASSUME NEW x, NEW r, task' = [task EXCEPT ![x].run = r]
      PROVE  task'[t].status # "Ok"
  BY <1>2, <1>3, <1>5 DEF TaskObjects
<1>6. CASE ScanFindsPending
  <2>1. /\ task' = [task EXCEPT ![queue[idx]].status = "Ok"]
        /\ task[queue[idx]].run = "PendingStart" /\ pc[Scheduler] = "scan"
    BY <1>6 DEF ScanFindsPending, IsToStart
  <2>2. t # queue[idx]
    BY <1>2, <2>1 DEF StartInv, StartsFresh
  <2>3. QED
    BY <1>2, <1>3, <2>1, <2>2
<1>7. CASE CreateSaves(Scheduler)
  <2>1. /\ t # lastId + 1
        /\ task' = [task EXCEPT ![lastId + 1] =
             [set |-> tset[Scheduler], run |-> "PendingStart", status |-> "Ok"]]
    BY <1>1, <1>2, <1>7 DEF CreateSaves, TypeOK
  <2>2. QED
    BY <1>2, <1>3, <2>1
<1>8. CASE Removes
  <2>1. TakeOut(idx) /\ idx \in 1..Len(queue)
    BY <1>1, <1>8 DEF Removes, TypeOK, PassKeepsItsPlace
  <2>2. t # queue[idx] /\ (t # queue[idx] => task'[t] = task[t])
    BY <1>1, <1>2, <2>1, TakeOutKeeps, TakenOut
  <2>3. QED
    BY <2>2
<1>9. CASE StartUnreachable(Scheduler) \/ StartOverQuota(Scheduler)
  <2> DEFINE x == tid[Scheduler]
  <2>1. \/ task' = [task EXCEPT ![x].status = "Warning"]
        \/ task' = [task EXCEPT ![x].status = "Error", ![x].run = "Error"]
    BY <1>9 DEF StartUnreachable, StartOverQuota
  <2> HIDE DEF x
  <2>2. QED
    BY <1>2, <1>3, <2>1 DEF TaskObjects
<1>10. CASE TaskEventFails
  BY <1>10 DEF TaskEventFails, Dies, ToSet
<1>11. CASE StartMarks(Scheduler) \/ ScanMarks
  BY <1>5, <1>11 DEF StartMarks, ScanMarks, MarkStarted, SetRun
<1>12. CASE \/ Recover \/ Poll \/ NoneDue \/ (\E b \in BackupSets : NextDue(b))
            \/ ScanEnds \/ ScanSkips \/ ScanFindsEnded \/ Complete
            \/ CreateRefused(Scheduler) \/ CreateAllowed(Scheduler)
            \/ CreateBounded(Scheduler) \/ CreateAdds(Scheduler)
            \/ StartNotSent(Scheduler) \/ StartSends(Scheduler)
  BY <1>4, <1>12
  DEF Recover, Poll, NoneDue, NextDue, ScanEnds, ScanSkips, ScanFindsEnded,
      Complete, CreateRefused, CreateAllowed, CreateBounded, CreateAdds,
      StartNotSent, StartSends
<1>13. QED
  BY <1>6, <1>7, <1>8, <1>9, <1>10, <1>11, <1>12
  DEF Schedule, Create, StartTask

\* As long as users start no task, what a node has reported of a task it runs
\* is never wiped out, by no thread of the hub.
THEOREM AlarmsStay ==
  ASSUME "Start" \notin UserRequests
  PROVE  Spec => NoAlarmCleared
<1>1. Inv /\ StartInv /\ [Next]_vars =>
        [\A t \in received \cap Queued :
           task[t].status # "Ok" /\ t \in ToSet(queue') =>
             task'[t].status # "Ok"]_vars
  <2>1. SUFFICES ASSUME Inv, StartInv, Next, NEW t \in received \cap Queued,
                        task[t].status # "Ok", t \in ToSet(queue')
                 PROVE  task'[t].status # "Ok"
    OBVIOUS
  <2>2. t \in TaskIds
    BY <2>1 DEF Inv, TypeOK
  <2>3. CASE Schedule
    BY <2>1, <2>3, ScheduleKeepsAlarms
  <2>4. CASE \/ \E u \in Users : User(u)
             \/ \E n \in Nodes : Handle(n) \/ Connection(n)
    BY <2>1, <2>2, <2>4, UserBeside, NodeBeside DEF Beside, AlarmKept
  <2>5. CASE HubCrash
    BY <2>1, <2>5 DEF HubCrash, Dies, ToSet
  <2>6. CASE HubRestart
    BY <2>1, <2>6 DEF HubRestart, memory
  <2>7. QED
    BY <2>1, <2>3, <2>4, <2>5, <2>6 DEF Next
<1>2. QED
  BY InvCorrect, StartsCorrect, <1>1, PTL DEF Spec, NoAlarmCleared

-----------------------------------------------------------------------------
(* The tasks of one backup set.                                            *)

\* A task that may run, or that the scheduler is about to mark as started,
\* even if a user has cancelled it meanwhile.
Alive(t) ==
  /\ t \in Queued
  /\ \/ task[t].run \in LiveRuns
     \/ pc[Scheduler] \in {"start", "mark", "marked"} /\ tid[Scheduler] = t

OneAlive ==
  \A t1, t2 \in TaskIds :
    Alive(t1) /\ Alive(t2) /\ task[t1].set = task[t2].set => t1 = t2

\* What TasksQueueExists has found still holds when the task is queued.
SetIsFree ==
  \A t \in TaskIds : Alive(t) =>
    /\ pc[Scheduler] = "save" => task[t].set # tset[Scheduler]
    /\ pc[Scheduler] = "add" => task[t].set # task[tid[Scheduler]].set

LiveInv == OneAlive /\ SetIsFree

\* A step that brings no task to life.
LEMMA NoneBorn ==
  ASSUME TypeOK, LiveInv, SetKept,
         \A t \in TaskIds : Alive(t)' => Alive(t),
         \/ pc'[Scheduler] \notin {"save", "add"}
         \/ /\ pc'[Scheduler] = pc[Scheduler]
            /\ tid'[Scheduler] = tid[Scheduler]
            /\ tset'[Scheduler] = tset[Scheduler]
  PROVE  LiveInv'
<1>1. OneAlive'
  BY DEF LiveInv, OneAlive, SetKept
<1>2. CASE pc'[Scheduler] \notin {"save", "add"}
  BY <1>1, <1>2 DEF LiveInv, SetIsFree
<1>3. CASE /\ pc'[Scheduler] = pc[Scheduler]
           /\ tid'[Scheduler] = tid[Scheduler]
           /\ tset'[Scheduler] = tset[Scheduler]
  <2>1. ASSUME NEW t \in TaskIds, Alive(t)', pc'[Scheduler] = "save"
        PROVE  task'[t].set # tset'[Scheduler]
    BY <1>3, <2>1 DEF LiveInv, SetIsFree, SetKept
  <2>2. ASSUME NEW t \in TaskIds, Alive(t)', pc'[Scheduler] = "add"
        PROVE  task'[t].set # task'[tid'[Scheduler]].set
    <3>1. tid[Scheduler] \in TaskIds
      BY <1>3, <2>2, TaskOf DEF AtRest, Threads, Creators
    <3>2. QED
      BY <1>3, <2>2, <3>1 DEF LiveInv, SetIsFree, SetKept
  <2>3. QED
    BY <1>1, <2>1, <2>2 DEF LiveInv, SetIsFree
<1>4. QED
  BY <1>2, <1>3

\* A step of another thread.
LEMMA BesideLive ==
  ASSUME TypeOK, LiveInv, Aside, SetKept, NoneRevived
  PROVE  LiveInv'
<1>1. \A t \in TaskIds : Alive(t)' => Alive(t)
  BY DEF Alive, Aside, NoneRevived, Queued
<1>2. QED
  BY <1>1, NoneBorn DEF Aside

\* The scheduler creates a task for a backup set that has none alive.
LEMMA CreateLive ==
  ASSUME Inv, StartInv, LiveInv, Create(Scheduler)
  PROVE  LiveInv'
<1> USE ConstantsAssumption
    DEF memory, database, pass, peers, counters, Goto, Return, Threads,
        Creators
<1>1. TypeOK
  BY DEF Inv
<1>2. CASE CreateRefused(Scheduler) \/ CreateBounded(Scheduler)
  <2>1. /\ queue' = queue /\ task' = task
        /\ pc'[Scheduler] = "create"
    BY <1>1, <1>2 DEF CreateRefused, CreateBounded, AfterRefusal, TypeOK
  <2>2. SetKept /\ \A t \in TaskIds : Alive(t)' => Alive(t)
    BY <2>1 DEF SetKept, Alive, Queued
  <2>3. QED
    BY <1>1, <2>1, <2>2, NoneBorn
<1>3. CASE CreateAllowed(Scheduler)
  <2>1. /\ queue' = queue /\ task' = task /\ tset' = tset
        /\ pc[Scheduler] = "exists" /\ pc'[Scheduler] = "save"
    BY <1>1, <1>3 DEF CreateAllowed, TypeOK
  <2>2. \A t \in Queued : task[t].set = tset[Scheduler] =>
                            task[t].run \in Replaceable
    BY <1>3 DEF CreateAllowed, TasksQueueExists
  <2>3. \A t \in TaskIds : Alive(t)' => Alive(t)
    BY <2>1 DEF Alive, Queued
  <2>4. OneAlive'
    BY <2>1, <2>3 DEF LiveInv, OneAlive
  <2>5. SetIsFree'
    BY <2>1, <2>2, <2>3 DEF SetIsFree, Alive, LiveRuns, Replaceable
  <2>6. QED
    BY <2>4, <2>5 DEF LiveInv
<1>4. CASE CreateSaves(Scheduler)
  <2> DEFINE t0 == lastId + 1
  <2>1. /\ queue' = queue /\ lastId \in Nat /\ t0 \in TaskIds
        /\ task' = [task EXCEPT ![t0] =
             [set |-> tset[Scheduler], run |-> "PendingStart", status |-> "Ok"]]
        /\ pc[Scheduler] = "save" /\ pc'[Scheduler] = "add"
        /\ tid'[Scheduler] = t0
    BY <1>1, <1>4 DEF CreateSaves, TypeOK, TaskIds
  <2>2. t0 \notin Queued
    BY <1>1, <2>1 DEF TypeOK, Queued, ToSet
  <2> HIDE DEF t0
  <2>3. /\ task'[t0].set = tset[Scheduler]
        /\ \A t \in TaskIds : t # t0 => task'[t] = task[t]
    BY <1>1, <2>1 DEF TypeOK
  <2>4. \A t \in TaskIds : Alive(t)' => Alive(t) /\ task'[t] = task[t]
    BY <2>1, <2>2, <2>3 DEF Alive, Queued
  <2>5. OneAlive'
    BY <2>4 DEF LiveInv, OneAlive
  <2>6. SetIsFree'
    BY <2>1, <2>3, <2>4 DEF LiveInv, SetIsFree
  <2>7. QED
    BY <2>5, <2>6 DEF LiveInv
<1>5. CASE CreateAdds(Scheduler)
  <2> DEFINE t0 == tid[Scheduler]
  <2>1. /\ task' = task /\ queue' = Append(queue, t0)
        /\ pc[Scheduler] = "add" /\ pc'[Scheduler] = "create"
    BY <1>1, <1>5 DEF CreateAdds, CreateTaskReturns, Enqueue, TypeOK
  <2>2. t0 \in 1..lastId /\ t0 \in TaskIds /\ queue \in Seq(1..lastId)
    BY <1>1, <2>1, TaskOf DEF AtRest, TypeOK
  <2> HIDE DEF t0
  <2>3. \A t \in Queued' : t \in Queued \/ t = t0
    BY <2>1, <2>2 DEF Queued, ToSet
  <2>4. \A t \in TaskIds : Alive(t)' => Alive(t) \/ t = t0
    BY <2>1, <2>3 DEF Alive
  <2>5. \A t \in TaskIds : Alive(t) => task[t].set # task[t0].set
    BY <2>1 DEF LiveInv, SetIsFree, t0
  <2>6. OneAlive'
    BY <2>1, <2>2, <2>4, <2>5 DEF LiveInv, OneAlive
  <2>7. QED
    BY <2>1, <2>6 DEF LiveInv, SetIsFree
<1>6. QED
  BY <1>2, <1>3, <1>4, <1>5 DEF Create

\* The scheduler's StartTask and its mark touch the task of the pass only.
LEMMA StartTaskLive ==
  ASSUME Inv, LiveInv, StartTask(Scheduler) \/ ScanMarks
  PROVE  LiveInv'
<1> USE ConstantsAssumption
    DEF memory, database, pass, peers, counters, Goto, Return, Threads,
        Creators
<1>1. TypeOK
  BY DEF Inv
<1> DEFINE t0 == tid[Scheduler]
<1>2. /\ queue' = queue /\ pc[Scheduler] \in {"start", "mark", "marked"}
      /\ pc'[Scheduler] \in {"scan", "mark", "marked"}
      /\ pc'[Scheduler] # "scan" => tid'[Scheduler] = t0
  BY <1>1
  DEF StartTask, StartUnreachable, StartOverQuota, StartNotSent, StartSends,
      StartMarks, StartTaskReturns, ScanMarks, TypeOK
<1>3. /\ \/ task' = task
         \/ task' = [task EXCEPT ![t0].status = "Warning"]
         \/ task' = [task EXCEPT ![t0].status = "Error", ![t0].run = "Error"]
         \/ task' = [task EXCEPT ![t0].run = "Started"]
  BY DEF StartTask, StartUnreachable, StartOverQuota, StartNotSent,
         StartSends, StartMarks, ScanMarks, MarkStarted, SetRun
<1>4. Alive(t0) \/ t0 \notin Queued
  BY <1>2 DEF Alive
<1> HIDE DEF t0
<1>5. ASSUME NEW t \in TaskIds
      PROVE  task'[t].set = task[t].set /\ (t # t0 => task'[t] = task[t])
  <2>1. task[t] \in TaskObjects /\ task \in [TaskIds -> TaskObjects]
    BY <1>1 DEF TypeOK
  <2>2. QED
    BY <1>3, <2>1 DEF TaskObjects
<1>6. \A t \in TaskIds : Alive(t)' => Alive(t)
  BY <1>2, <1>4, <1>5 DEF Alive, Queued
<1>7. QED
  BY <1>1, <1>2, <1>5, <1>6, NoneBorn DEF SetKept

\* The hub stops: no task is in memory.
LEMMA DiesLive ==
  ASSUME TypeOK, Dies
  PROVE  LiveInv'
<1>1. queue' = <<>>
  BY DEF Dies
<1>2. \A t \in TaskIds : ~Alive(t)'
  BY <1>1 DEF Alive, Queued, ToSet
<1>3. QED
  BY <1>2 DEF LiveInv, OneAlive, SetIsFree

LEMMA ScheduleLive ==
  ASSUME Inv, StartInv, LiveInv, Schedule
  PROVE  LiveInv'
<1> USE ConstantsAssumption
    DEF memory, database, pass, peers, counters, threads, Goto, Return,
        Threads, Creators
<1>1. TypeOK /\ PassKeepsItsPlace
  BY DEF Inv
<1>2. CASE \/ Recover \/ Poll \/ NoneDue \/ (\E b \in BackupSets : NextDue(b))
           \/ ScanEnds \/ ScanSkips \/ ScanFindsEnded \/ Complete
  <2>1. /\ queue' = queue /\ task' = task
        /\ pc'[Scheduler] \notin {"save", "add", "start", "mark", "marked"}
    BY <1>1, <1>2
    DEF Recover, Poll, NoneDue, NextDue, ScanEnds, ScanSkips, ScanFindsEnded,
        Complete, TypeOK
  <2>2. SetKept /\ \A t \in TaskIds : Alive(t)' => Alive(t)
    BY <2>1 DEF SetKept, Alive, Queued
  <2>3. QED
    BY <1>1, <2>1, <2>2, NoneBorn
<1>3. CASE ScanFindsPending
  <2> DEFINE t0 == queue[idx]
  <2>1. /\ queue' = queue /\ pc'[Scheduler] = "start"
        /\ tid'[Scheduler] = t0 /\ task[t0].run = "PendingStart"
        /\ task' = [task EXCEPT ![t0].status = "Ok"]
    BY <1>1, <1>3 DEF ScanFindsPending, IsToStart, TypeOK
  <2> HIDE DEF t0
  <2>2. \A x \in TaskIds : /\ task'[x].set = task[x].set
                           /\ task'[x].run = task[x].run
    BY <1>1, <2>1 DEF TypeOK, TaskObjects
  <2>3. \A t \in TaskIds : Alive(t)' => Alive(t)
    BY <2>1, <2>2 DEF Alive, Queued, LiveRuns
  <2>4. QED
    BY <1>1, <2>1, <2>2, <2>3, NoneBorn DEF SetKept
<1>4. CASE Removes
  <2>1. /\ TakeOut(idx) /\ idx \in 1..Len(queue) /\ lastId' = lastId
        /\ wire' = wire /\ received' = received
        /\ \A u \in Users : pc'[u] = pc[u]
        /\ pc[Scheduler] = "remove" /\ pc'[Scheduler] = "scan"
    BY <1>1, <1>4 DEF Removes, TypeOK, PassKeepsItsPlace
  <2>2. NoneReopened /\ NoneRevived /\ SetKept /\ queue' = RemoveAt(queue, idx)
    BY <1>1, <2>1, TakeOutKeeps
  <2>3. Queued' \subseteq Queued
    BY <2>1, <2>2, SchedulerStarts
  <2>4. \A t \in TaskIds : Alive(t)' => Alive(t)
    BY <2>1, <2>2, <2>3 DEF Alive, NoneRevived
  <2>5. QED
    BY <1>1, <2>1, <2>2, <2>4, NoneBorn
<1>5. CASE TaskEventFails
  BY <1>5, DiesLive DEF Inv, TaskEventFails
<1>6. QED
  BY <1>2, <1>3, <1>4, <1>5, CreateLive, StartTaskLive DEF Schedule

LEMMA LiveCorrect ==
  ASSUME UserRequests \subseteq {"Cancel"}
  PROVE  Spec => []LiveInv
<1>1. "Start" \notin UserRequests /\ "Pause" \notin UserRequests
  OBVIOUS
<1>2. Init => LiveInv
  BY DEF Init, LiveInv, OneAlive, SetIsFree, Alive, Queued, ToSet
<1>3. Inv /\ StartInv /\ LiveInv /\ [Next]_vars => LiveInv'
  <2>1. SUFFICES ASSUME Inv, StartInv, LiveInv, [Next]_vars PROVE LiveInv'
    OBVIOUS
  <2>2. CASE UNCHANGED vars
    BY <2>1, <2>2, BesideLive
    DEF Inv, vars, memory, database, threads, Aside, SetKept, NoneRevived
  <2>3. CASE Schedule
    BY <2>1, <2>3, ScheduleLive
  <2>4. CASE \/ \E u \in Users : User(u)
             \/ \E n \in Nodes : Handle(n) \/ Connection(n)
    <3>1. Beside
      BY <1>1, <2>1, <2>4, UserBeside, NodeBeside
    <3>2. QED
      BY <1>1, <2>1, <3>1, BesideLive DEF Beside, Inv
  <2>5. CASE HubCrash
    BY <2>1, <2>5, DiesLive DEF Inv, HubCrash
  <2>6. CASE HubRestart
    <3>1. /\ queue' = queue /\ task' = task /\ pc'[Scheduler] = "recover"
      BY <2>1, <2>6, ConstantsAssumption
      DEF HubRestart, Goto, Inv, TypeOK, Threads, Creators, memory
    <3>2. SetKept /\ \A t \in TaskIds : Alive(t)' => Alive(t)
      BY <3>1 DEF SetKept, Alive, Queued
    <3>3. QED
      BY <2>1, <3>1, <3>2, NoneBorn DEF Inv
  <2>7. QED
    BY <2>1, <2>2, <2>3, <2>4, <2>5, <2>6 DEF Next
<1>4. QED
  BY InvCorrect, StartsCorrect, <1>1, <1>2, <1>3, PTL DEF Spec

\* As long as users do nothing but cancel, a backup set never has two live
\* tasks: TasksQueueExists, the task's record and its queue entry are three
\* steps, and no other thread revives or adds a task between them.
THEOREM OneTaskPerSet ==
  ASSUME UserRequests \subseteq {"Cancel"}
  PROVE  Spec => []OneLiveTaskPerSet
<1>1. LiveInv => OneLiveTaskPerSet
  BY DEF LiveInv, OneAlive, Alive, OneLiveTaskPerSet, Live, LiveRuns
<1>2. QED
  BY LiveCorrect, <1>1, PTL

-----------------------------------------------------------------------------
(* TaskScheduler implements TaskLedger, as long as users do nothing but      *)
(* cancel.                                                                   *)

\* A record is open, closed or not there: nothing else is ever saved.
RowsOK == row \in [TaskIds -> Ledger!Outcomes \cup {NoRow, OpenRow}]

\* The record of a queued task is open, except for the one that has just been
\* closed and is about to be removed.
QueuedOpen ==
  \A t \in Queued : \/ Ledger!Open(t)
                    \/ pc[Scheduler] = "remove" /\ tid[Scheduler] = t

\* So is that of the task about to be queued; a task being closed has ended,
\* and a hub that has yet to recover has no task in memory.
PassOpen ==
  /\ pc[Scheduler] = "add" => Ledger!Open(tid[Scheduler])
  /\ pc[Scheduler] = "complete" => task[tid[Scheduler]].run \notin LiveRuns
  /\ pc[Scheduler] \in {"down", "recover"} => queue = <<>>

LedgerInv == RowsOK /\ QueuedOpen /\ PassOpen

LedgerKept == UNCHANGED <<row, lastId>>

\* A step of another thread.
LEMMA BesideLedger ==
  ASSUME TypeOK, LedgerInv, Aside, NoneRevived, row' = row
  PROVE  LedgerInv' /\ LedgerKept
<1>1. RowsOK' /\ LedgerKept
  BY DEF LedgerInv, RowsOK, LedgerKept, Aside
<1>2. QueuedOpen'
  BY DEF LedgerInv, QueuedOpen, Aside, Queued, Ledger!Open
<1>3. PassOpen'
  <2>1. ASSUME pc'[Scheduler] = "complete"
        PROVE  task'[tid'[Scheduler]].run \notin LiveRuns
    <3>1. pc[Scheduler] = "complete" /\ tid'[Scheduler] = tid[Scheduler]
      BY <2>1 DEF Aside
    <3>2. tid[Scheduler] \in TaskIds
      BY <3>1, TaskOf DEF AtRest, Threads, Creators
    <3>3. QED
      BY <3>1, <3>2 DEF LedgerInv, PassOpen, NoneRevived
  <2>2. QED
    BY <2>1 DEF LedgerInv, PassOpen, Aside, Ledger!Open
<1>4. QED
  BY <1>1, <1>2, <1>3 DEF LedgerInv

\* Neither the users' threads nor the nodes' write to the task table.
LEMMA OthersWriteNothing ==
  ASSUME StartInv, "Start" \notin UserRequests,
         \/ \E u \in Users : User(u)
         \/ \E n \in Nodes : Handle(n) \/ Connection(n)
  PROVE  row' = row
<1> USE DEF database, memory
<1>1. ASSUME NEW u \in Users, User(u) PROVE row' = row
  <2>1. ~Create(u) /\ ~StartTask(u)
    BY <1>1 DEF StartInv, UsersQuiet, QuietLabels, Create, CreateRefused,
       CreateAllowed, CreateSaves, CreateBounded, CreateAdds, StartTask,
       StartUnreachable, StartOverQuota, StartNotSent, StartSends, StartMarks
  <2>2. QED
    BY <1>1, <2>1 DEF User, Serve, RequestStart, RequestCancel, RequestPause,
       CancelPending, CancelSends, CancelSets, PauseSets
<1>2. ASSUME NEW n \in Nodes, Handle(n) \/ Connection(n) PROVE row' = row
  BY <1>2 DEF Handle, HandleTask, HandleTaskDone, HandleNoStorage, Settle,
     Connection, NodeReads, PutNodeOnline, ClearNode, HandleOfflineNode,
     ApproveNode
<1>3. QED
  BY <1>1, <1>2

\* A step of the scheduler that writes nothing and queues nothing.
LEMMA UnwrittenLedger ==
  ASSUME LedgerInv, row' = row, lastId' = lastId, Queued' \subseteq Queued,
         pc[Scheduler] = "remove" => tid[Scheduler] \notin Queued',
         pc'[Scheduler] \notin {"down", "recover", "add", "complete"}
  PROVE  LedgerInv' /\ LedgerKept
BY DEF LedgerInv, RowsOK, QueuedOpen, PassOpen, LedgerKept, Ledger!Open

LEMMA DiesLedger ==
  ASSUME LedgerInv, Dies, ConstantsAssumption
  PROVE  LedgerInv' /\ LedgerKept
<1>1. queue' = <<>> /\ row' = row /\ lastId' = lastId
      /\ pc'[Scheduler] = "down"
  BY DEF Dies, database, Threads, Creators
<1>2. Queued' = {}
  BY <1>1 DEF Queued, ToSet
<1>3. QED
  BY <1>1, <1>2 DEF LedgerInv, RowsOK, QueuedOpen, PassOpen, LedgerKept

\* TaskDAO.Complete: the record of the task of the pass, which is open.
LEMMA CompleteLedger ==
  ASSUME Inv, LedgerInv, Complete
  PROVE  LedgerInv' /\ Ledger!Close
<1> USE ConstantsAssumption DEF Threads, Creators
<1> DEFINE t == tid[Scheduler]
<1>1. /\ TypeOK /\ PassKeepsItsPlace /\ pc[Scheduler] = "complete"
      /\ row' = [row EXCEPT ![t] = [run |-> task[t].run,
                                    status |-> task[t].status]]
      /\ pc' = [pc EXCEPT ![Scheduler] = "remove"] /\ tid' = tid
      /\ queue' = queue /\ lastId' = lastId
  BY DEF Inv, Complete, Goto, memory
<1>2. t \in TaskIds
  BY <1>1, TaskOf DEF AtRest
<1>3. t \in Queued
  BY <1>1 DEF PassKeepsItsPlace, Queued, ToSet, TypeOK
<1>4. Ledger!Open(t)
  BY <1>1, <1>3 DEF LedgerInv, QueuedOpen
<1> DEFINE r == [run |-> task[t].run, status |-> task[t].status]
<1>5. r \in Ledger!Outcomes
  <2>1. task[t] \in TaskObjects /\ task[t].run \notin LiveRuns
    BY <1>1, <1>2 DEF TypeOK, LedgerInv, PassOpen
  <2>2. QED
    BY <2>1 DEF TaskObjects, LiveRuns, Ledger!Outcomes
<1>6. row' = [row EXCEPT ![t] = r] /\ tid'[Scheduler] = t
      /\ pc'[Scheduler] = "remove"
  BY <1>1 DEF TypeOK
<1> HIDE DEF t, r
<1>7. RowsOK' /\ (\A x \in TaskIds : x # t => row'[x] = row[x]) /\ row'[t] = r
  BY <1>2, <1>5, <1>6 DEF LedgerInv, RowsOK
<1>8. QueuedOpen' /\ PassOpen'
  <2>1. Queued \subseteq TaskIds
    BY <1>1 DEF TypeOK, Queued, ToSet, TaskIds
  <2>2. QED
    BY <1>1, <1>6, <1>7, <2>1
    DEF LedgerInv, QueuedOpen, PassOpen, Queued, Ledger!Open
<1>9. Ledger!Close
  BY <1>1, <1>4, <1>5, <1>7 DEF Ledger!Close, RowsOK, TaskIds, Ledger!NoRow,
     Ledger!OpenRow, NoRow, OpenRow
<1>10. QED
  BY <1>7, <1>8, <1>9 DEF LedgerInv

\* UpdateInterrupted: all open records, while no task is in memory.
LEMMA RecoverLedger ==
  ASSUME Inv, LedgerInv, Recover
  PROVE  LedgerInv' /\ Ledger!Close
<1> DEFINE closed == [run |-> "Cancelled", status |-> "Error"]
<1>1. /\ pc[Scheduler] = "recover" /\ pc'[Scheduler] = "poll"
      /\ row' = [t \in TaskIds |-> IF row[t].run \in Interrupted
                                   THEN closed ELSE row[t]]
      /\ queue' = queue /\ lastId' = lastId
  BY ConstantsAssumption
  DEF Recover, Goto, memory, Inv, TypeOK, Threads, Creators
<1>2. closed \in Ledger!Outcomes
  BY DEF Ledger!Outcomes, RunStatuses, Statuses
<1>3. \A t \in TaskIds : row[t].run \in Interrupted => Ledger!Open(t)
  BY DEF LedgerInv, RowsOK, Ledger!Outcomes, Ledger!Open, NoRow, OpenRow,
         Interrupted
<1> HIDE DEF closed
<1>4. RowsOK'
  BY <1>1, <1>2 DEF LedgerInv, RowsOK
<1>5. Queued' = {}
  BY <1>1 DEF LedgerInv, PassOpen, Queued, ToSet
<1>6. Ledger!Close
  BY <1>1, <1>2, <1>3, <1>4
  DEF Ledger!Close, RowsOK, TaskIds, Ledger!NoRow, Ledger!OpenRow, NoRow,
      OpenRow
<1>7. QED
  BY <1>1, <1>4, <1>5, <1>6 DEF LedgerInv, QueuedOpen, PassOpen

\* TaskDAO.Save, and the task it records enters the queue.
LEMMA CreateLedger ==
  ASSUME Inv, LedgerInv, Create(Scheduler)
  PROVE  LedgerInv' /\ (Ledger!Create \/ LedgerKept)
<1> USE ConstantsAssumption
    DEF memory, database, pass, peers, counters, Goto, Return, Threads,
        Creators
<1>1. TypeOK
  BY DEF Inv
<1>2. CASE \/ CreateRefused(Scheduler) \/ CreateAllowed(Scheduler)
           \/ CreateBounded(Scheduler)
  <2>1. /\ row' = row /\ lastId' = lastId /\ queue' = queue
        /\ pc[Scheduler] \in {"exists", "save"}
        /\ pc'[Scheduler] \in {"create", "save"}
    BY <1>1, <1>2
    DEF CreateRefused, CreateAllowed, CreateBounded, AfterRefusal, TypeOK
  <2>2. QED
    BY <2>1, UnwrittenLedger DEF Queued
<1>3. CASE CreateSaves(Scheduler)
  <2> DEFINE t == lastId + 1
  <2>1. /\ pc[Scheduler] = "save" /\ pc'[Scheduler] = "add"
        /\ tid'[Scheduler] = t /\ queue' = queue
        /\ row' = [row EXCEPT ![t] = OpenRow]
        /\ lastId < MaxTasks /\ lastId' = lastId + 1
    BY <1>1, <1>3 DEF CreateSaves, TypeOK
  <2>2. t \in TaskIds /\ t \notin Queued /\ Queued \subseteq TaskIds
    <3>1. lastId \in Nat /\ MaxTasks \in Nat /\ 1..lastId \subseteq TaskIds
      BY <1>1 DEF TypeOK, TaskIds
    <3>2. Queued \subseteq 1..lastId
      BY <1>1 DEF TypeOK, Queued, ToSet
    <3>3. QED
      BY <2>1, <3>1, <3>2 DEF TaskIds
  <2>3. Ledger!Create
    BY <2>1 DEF Ledger!Create, Ledger!OpenRow, OpenRow
  <2> HIDE DEF t
  <2>4. /\ RowsOK' /\ row'[t] = OpenRow
        /\ \A x \in TaskIds : x # t => row'[x] = row[x]
    BY <2>1, <2>2 DEF LedgerInv, RowsOK
  <2>5. QueuedOpen' /\ PassOpen'
    BY <2>1, <2>2, <2>4
    DEF LedgerInv, QueuedOpen, PassOpen, Queued, Ledger!Open, OpenRow
  <2>6. QED
    BY <2>3, <2>4, <2>5 DEF LedgerInv
<1>4. CASE CreateAdds(Scheduler)
  <2> DEFINE t == tid[Scheduler]
  <2>1. /\ pc[Scheduler] = "add" /\ pc'[Scheduler] = "create"
        /\ queue' = Append(queue, t) /\ row' = row /\ lastId' = lastId
    BY <1>1, <1>4 DEF CreateAdds, CreateTaskReturns, Enqueue, TypeOK
  <2>2. t \in 1..lastId /\ queue \in Seq(1..lastId)
    BY <1>1, <2>1, TaskOf DEF AtRest, TypeOK
  <2>3. Ledger!Open(t)
    BY <2>1 DEF LedgerInv, PassOpen
  <2> HIDE DEF t
  <2>4. \A x \in Queued' : x \in Queued \/ x = t
    BY <2>1, <2>2 DEF Queued, ToSet
  <2>5. QED
    BY <2>1, <2>3, <2>4
    DEF LedgerInv, RowsOK, QueuedOpen, PassOpen, LedgerKept, Ledger!Open
<1>5. QED
  BY <1>2, <1>3, <1>4 DEF Create

LEMMA ScheduleLedger ==
  ASSUME Inv, StartInv, LedgerInv, Schedule
  PROVE  LedgerInv' /\ (Ledger!Next \/ LedgerKept)
<1> USE ConstantsAssumption
    DEF memory, database, pass, peers, counters, threads, Goto, Return,
        Threads, Creators
<1>1. TypeOK /\ PassKeepsItsPlace
  BY DEF Inv
<1>2. CASE \/ Poll \/ NoneDue \/ (\E b \in BackupSets : NextDue(b))
           \/ ScanEnds \/ ScanSkips \/ ScanFindsPending \/ ScanMarks
           \/ StartTask(Scheduler)
  <2>1. /\ row' = row /\ lastId' = lastId /\ queue' = queue
        /\ pc[Scheduler] # "remove"
        /\ pc'[Scheduler] \notin {"down", "recover", "add", "complete"}
    BY <1>1, <1>2
    DEF Poll, NoneDue, NextDue, ScanEnds, ScanSkips, ScanFindsPending,
        ScanMarks, StartTask, StartUnreachable, StartOverQuota, StartNotSent,
        StartSends, StartMarks, StartTaskReturns, TypeOK
  <2>2. QED
    BY <2>1, UnwrittenLedger DEF Queued
<1>3. CASE ScanFindsEnded
  <2>1. /\ row' = row /\ lastId' = lastId /\ queue' = queue /\ task' = task
        /\ pc[Scheduler] = "scan" /\ pc'[Scheduler] = "complete"
        /\ tid'[Scheduler] = queue[idx] /\ task[queue[idx]].run \in Ended
    BY <1>1, <1>3 DEF ScanFindsEnded, TypeOK
  <2>2. QED
    BY <2>1
    DEF LedgerInv, RowsOK, QueuedOpen, PassOpen, LedgerKept, Ledger!Open,
        Queued, Ended, LiveRuns
<1>4. CASE Removes
  <2>1. /\ TakeOut(idx) /\ idx \in 1..Len(queue) /\ lastId' = lastId
        /\ wire' = wire /\ received' = received /\ row' = row
        /\ \A u \in Users : pc'[u] = pc[u]
        /\ pc[Scheduler] = "remove" /\ pc'[Scheduler] = "scan"
        /\ tid[Scheduler] = queue[idx]
    BY <1>1, <1>4 DEF Removes, TypeOK, PassKeepsItsPlace
  <2>2. NoneReopened /\ queue' = RemoveAt(queue, idx)
    BY <1>1, <2>1, TakeOutKeeps
  <2>3. Queued' \subseteq Queued
    BY <2>1, <2>2, SchedulerStarts
  <2>4. queue[idx] \notin Queued'
    BY <2>1, <2>2, TakenOut DEF Queued
  <2>5. QED
    BY <2>1, <2>3, <2>4, UnwrittenLedger
<1>5. CASE TaskEventFails
  BY <1>5, DiesLedger DEF TaskEventFails
<1>6. QED
  BY <1>2, <1>3, <1>4, <1>5, CreateLedger, CompleteLedger, RecoverLedger
  DEF Schedule, Ledger!Next

\* As long as users do nothing but cancel, the task table keeps the promises of
\* TaskLedger: each record is entered open under the next id and closed once,
\* by the scheduler's pass or by the recovery after a crash, never by both.
THEOREM TableIsLedger ==
  ASSUME UserRequests \subseteq {"Cancel"}
  PROVE  Spec => ImplementsTaskLedger
<1>1. "Start" \notin UserRequests /\ "Pause" \notin UserRequests
  OBVIOUS
<1>2. Init => Ledger!Init
  BY DEF Init, Ledger!Init, TaskIds, NoRow, Ledger!NoRow
<1>3. Init => LedgerInv
  BY ConstantsAssumption
  DEF Init, LedgerInv, RowsOK, QueuedOpen, PassOpen, Queued, ToSet, Threads,
      Creators, TaskIds
<1>4. Inv /\ StartInv /\ LedgerInv /\ [Next]_vars =>
        LedgerInv' /\ [Ledger!Next]_(Ledger!ledger)
  <2>1. SUFFICES ASSUME Inv, StartInv, LedgerInv, [Next]_vars
                 PROVE  LedgerInv' /\ (Ledger!Next \/ LedgerKept)
    BY DEF LedgerKept, Ledger!ledger
  <2>2. CASE UNCHANGED vars
    BY <2>1, <2>2, BesideLedger
    DEF Inv, vars, memory, database, threads, Aside, NoneRevived
  <2>3. CASE Schedule
    BY <2>1, <2>3, ScheduleLedger
  <2>4. CASE \/ \E u \in Users : User(u)
             \/ \E n \in Nodes : Handle(n) \/ Connection(n)
    <3>1. Beside
      BY <1>1, <2>1, <2>4, UserBeside, NodeBeside
    <3>2. row' = row
      BY <1>1, <2>1, <2>4, OthersWriteNothing
    <3>3. QED
      BY <1>1, <2>1, <3>1, <3>2, BesideLedger DEF Beside, Inv
  <2>5. CASE HubCrash
    BY <2>1, <2>5, DiesLedger, ConstantsAssumption DEF HubCrash
  <2>6. CASE HubRestart
    <3>1. /\ row' = row /\ lastId' = lastId /\ queue' = queue
          /\ pc[Scheduler] = "down" /\ pc'[Scheduler] = "recover"
      BY <2>1, <2>6, ConstantsAssumption
      DEF HubRestart, Goto, Inv, TypeOK, Threads, Creators, memory, database
    <3>2. QED
      BY <2>1, <3>1
      DEF LedgerInv, RowsOK, QueuedOpen, PassOpen, LedgerKept, Ledger!Open,
          Queued
  <2>7. QED
    BY <2>1, <2>2, <2>3, <2>4, <2>5, <2>6 DEF Next
<1>5. QED
  BY InvCorrect, StartsCorrect, <1>1, <1>2, <1>3, <1>4, PTL
  DEF Spec, Ledger!Spec, ImplementsTaskLedger
=============================================================================
