------------------------ MODULE TaskScheduler_proofs ------------------------
(* What holds of TaskScheduler for every value of its constants. *)
EXTENDS TaskScheduler, SequenceTheorems, TLAPS

LEMMA RemoveAtLemma ==
  ASSUME NEW S, NEW s \in Seq(S), NEW i \in 1..Len(s)
  PROVE  /\ RemoveAt(s, i) \in Seq(S)
         /\ Len(RemoveAt(s, i)) = Len(s) - 1
         /\ \A j \in 1..Len(s) : j # i => s[j] \in ToSet(RemoveAt(s, i))
         /\ \A j \in 1..Len(s) - 1 :
              RemoveAt(s, i)[j] = IF j < i THEN s[j] ELSE s[j + 1]
<1> DEFINE r == RemoveAt(s, i)
<1>1. r = SubSeq(s, 1, i - 1) \o SubSeq(s, i + 1, Len(s))
  BY DEF RemoveAt
<1> DEFINE front == SubSeq(s, 1, i - 1)
           back == SubSeq(s, i + 1, Len(s))
<1>2. /\ front \in Seq(S)
      /\ Len(front) = i - 1
      /\ \A j \in 1..i - 1 : front[j] = s[j]
  OBVIOUS
<1>3. /\ back \in Seq(S)
      /\ Len(back) = Len(s) - i
      /\ \A j \in 1..Len(s) - i : back[j] = s[i + j]
  OBVIOUS
<1>4. /\ r \in Seq(S)
      /\ Len(r) = Len(s) - 1
      /\ \A j \in 1..Len(s) - 1 : r[j] = IF j < i THEN s[j] ELSE s[j + 1]
  <2>1. r = front \o back
    BY <1>1
  <2> HIDE DEF r, front, back
  <2>2. /\ r \in Seq(S)
        /\ Len(r) = Len(s) - 1
        /\ \A j \in 1..Len(s) - 1 :
             r[j] = IF j <= i - 1 THEN front[j] ELSE back[j - (i - 1)]
    <3>1. /\ r \in Seq(S)
          /\ Len(r) = Len(front) + Len(back)
          /\ \A j \in 1..Len(front) + Len(back) :
               r[j] = IF j <= Len(front) THEN front[j] ELSE back[j - Len(front)]
      BY <2>1, <1>2, <1>3, ConcatProperties, Zenon
    <3>2. Len(front) + Len(back) = Len(s) - 1
      BY <1>2, <1>3
    <3>3. QED
      BY <3>1, <3>2, <1>2
  <2>3. \A j \in 1..Len(s) - 1 : ~(j < i) => back[j - (i - 1)] = s[j + 1]
    <3> TAKE j \in 1..Len(s) - 1
    <3> HAVE ~(j < i)
    <3>1. j - (i - 1) \in 1..Len(s) - i /\ i + (j - (i - 1)) = j + 1
      OBVIOUS
    <3>2. QED
      BY <3>1, <1>3
  <2>4. \A j \in 1..Len(s) - 1 : j < i => front[j] = s[j]
    BY <1>2
  <2>5. QED
    BY <2>2, <2>3, <2>4
<1>5. ASSUME NEW j \in 1..Len(s), j # i
      PROVE  s[j] \in ToSet(r)
  <2> DEFINE k == IF j < i THEN j ELSE j - 1
  <2>1. k \in 1..Len(r) /\ r[k] = s[j]
    BY <1>4, <1>5
  <2>2. QED
    BY <2>1, <1>4 DEF ToSet
<1>6. QED
  BY <1>4, <1>5

-----------------------------------------------------------------------------
(* Types, and the scheduler's place in its pass.                           *)

Inv == TypeOK /\ PassKeepsItsPlace

\* TypeOK, in three parts.
MemoryOK ==
  /\ lastId \in 0..MaxTasks
  /\ queue \in Seq(1..lastId)
  /\ task \in [TaskIds -> TaskObjects]
  /\ late \in [TaskIds -> 0..MaxRetries]
  /\ row \in [TaskIds -> Records]
  /\ idx \in 0..Len(queue) + 1
ThreadsOK ==
  /\ pc \in [Threads -> Labels]
  /\ tid \in [Threads -> 0..lastId]
  /\ \A w \in Threads :
       pc[w] \in LabelsOf(w) /\ (pc[w] \notin AtRest => tid[w] # 0)
RestOK ==
  /\ tset \in [Creators -> BackupSets \cup {NoSet}]
  /\ verdict \in [Nodes -> Ended]
  /\ due \subseteq BackupSets
  /\ presence \in [Nodes -> {"Absent", "Idle", "Online"}]
  /\ verified \in [Nodes -> BOOLEAN]
  /\ wire \in [Nodes -> Seq(Messages)]
  /\ received \subseteq TaskIds
  /\ requests \in 0..MaxRequests
  /\ crashes \in 0..MaxCrashes

\* A thread's step to a label of its own keeps the threads' types, if it
\* leaves its task alone or drops it where none is needed.
LEMMA GotoThreads ==
  ASSUME TypeOK, NEW w \in Threads, NEW l \in LabelsOf(w), Goto(w, l),
         \/ tid' = tid /\ (l \in AtRest \/ pc[w] \notin AtRest)
         \/ tid' = [tid EXCEPT ![w] = 0] /\ l \in AtRest,
         lastId' = lastId
  PROVE  ThreadsOK'
<1>1. l \in Labels
  BY DEF LabelsOf, Labels
<1>2. pc' \in [Threads -> Labels]
  BY <1>1 DEF TypeOK, Goto
<1>3. tid' \in [Threads -> 0..lastId']
  <2>1. lastId \in Nat
    BY ConstantsAssumption DEF TypeOK
  <2>2. CASE tid' = tid
    BY <2>2 DEF TypeOK
  <2>3. CASE tid' = [tid EXCEPT ![w] = 0]
    BY <2>1, <2>3 DEF TypeOK
  <2>4. QED
    BY <2>2, <2>3
<1>4. ASSUME NEW v \in Threads
      PROVE  pc'[v] \in LabelsOf(v) /\ (pc'[v] \notin AtRest => tid'[v] # 0)
  <2>1. CASE v = w
    BY <2>1 DEF TypeOK, Goto
  <2>2. CASE v # w
    BY <2>2 DEF TypeOK, Goto
  <2>3. QED
    BY <2>1, <2>2
<1>5. QED
  BY <1>2, <1>3, <1>4 DEF ThreadsOK, LabelsOf

\* The same for a thread that takes up task t.
LEMMA GotoThreadsWith ==
  ASSUME TypeOK, NEW w \in Threads, NEW l \in LabelsOf(w), Goto(w, l),
         lastId' \in Nat, lastId <= lastId', NEW t \in 1..lastId',
         tid' = [tid EXCEPT ![w] = t]
  PROVE  ThreadsOK'
<1>1. l \in Labels
  BY DEF LabelsOf, Labels
<1>2. lastId \in Nat /\ 0..lastId \subseteq 0..lastId'
  BY ConstantsAssumption DEF TypeOK
<1>3. pc' \in [Threads -> Labels] /\ tid' \in [Threads -> 0..lastId']
  BY <1>1, <1>2 DEF TypeOK, Goto
<1>4. ASSUME NEW v \in Threads
      PROVE  pc'[v] \in LabelsOf(v) /\ (pc'[v] \notin AtRest => tid'[v] # 0)
  <2>1. CASE v = w
    BY <2>1 DEF TypeOK, Goto
  <2>2. CASE v # w
    BY <2>2 DEF TypeOK, Goto
  <2>3. QED
    BY <2>1, <2>2
<1>5. QED
  BY <1>3, <1>4 DEF ThreadsOK, LabelsOf

\* What the code sets a task's statuses to keeps the tasks' type.
LEMMA TaskUpdates ==
  ASSUME NEW f \in [TaskIds -> TaskObjects], NEW t,
         NEW r \in RunStatuses, NEW st \in Statuses
  PROVE  /\ [f EXCEPT ![t].run = r] \in [TaskIds -> TaskObjects]
         /\ [f EXCEPT ![t].status = st] \in [TaskIds -> TaskObjects]
         /\ [f EXCEPT ![t].status = st, ![t].run = r]
              \in [TaskIds -> TaskObjects]
  BY DEF TaskObjects

LEMMA RunUpdate ==
  ASSUME TypeOK, NEW t, NEW r \in RunStatuses, SetRunIfQueued(t, r)
  PROVE  task' \in [TaskIds -> TaskObjects]
<1>1. task \in [TaskIds -> TaskObjects]
  BY DEF TypeOK
<1>2. CASE t \in Queued
  <2>1. "Ok" \in Statuses
    BY DEF Statuses
  <2>2. [task EXCEPT ![t].run = r] \in [TaskIds -> TaskObjects]
    BY <1>1, <2>1, TaskUpdates
  <2>3. QED
    BY <1>2, <2>2 DEF SetRunIfQueued, SetRun
<1>3. CASE t \notin Queued
  BY <1>1, <1>3 DEF SetRunIfQueued
<1>4. QED
  BY <1>2, <1>3

LEMMA SendTypes ==
  ASSUME TypeOK, NEW n, NEW order \in Orders, NEW t \in TaskIds,
         Send(n, order, t)
  PROVE  /\ wire' \in [Nodes -> Seq(Messages)]
         /\ verified' \in [Nodes -> BOOLEAN]
<1> DEFINE m == [order |-> order, id |-> t]
<1>1. m \in Messages
  BY DEF Messages
<1>2. CASE wire' = [wire EXCEPT ![n] = Append(@, m)] /\ UNCHANGED verified
  <2> HIDE DEF m
  <2>1. \A x \in Nodes : Append(wire[x], m) \in Seq(Messages)
    BY <1>1 DEF TypeOK
  <2>2. QED
    BY <1>2, <2>1 DEF TypeOK
<1>3. CASE verified' = [verified EXCEPT ![n] = FALSE] /\ UNCHANGED wire
  BY <1>3 DEF TypeOK
<1>4. QED
  BY <1>2, <1>3 DEF Send

LEMMA InitInv == Init => Inv
<1> SUFFICES ASSUME Init PROVE Inv
  OBVIOUS
<1> USE ConstantsAssumption DEF Init, Threads, Creators, TaskIds
<1>1. MemoryOK
  BY DEF MemoryOK, NoTask, NoRow, TaskObjects, Records, RunStatuses,
         Statuses
<1>2. ThreadsOK
  <2>1. ASSUME NEW w \in Threads
        PROVE  pc[w] \in LabelsOf(w) /\ pc[w] \in Labels /\ pc[w] \in AtRest
    BY DEF AtRest, LabelsOf, Labels, SchedulerLabels, UserLabels, NodeLabels
  <2>2. pc \in [Threads -> Labels] /\ tid \in [Threads -> 0..lastId]
    <3>1. pc \in [Threads -> Labels]
      <4> HIDE DEF Threads
      <4>1. QED
        BY <2>1
    <3>2. tid \in [Threads -> 0..lastId]
      OBVIOUS
    <3>3. QED
      BY <3>1, <3>2
  <2>3. QED
    BY <2>1, <2>2 DEF ThreadsOK
<1>3. RestOK
  BY DEF RestOK, Ended
<1>4. PassKeepsItsPlace
  BY DEF PassKeepsItsPlace
<1>5. QED
  BY <1>1, <1>2, <1>3, <1>4 DEF Inv, TypeOK, MemoryOK, ThreadsOK, RestOK

\* The steps of a creation keep Inv, whichever thread takes them.

\* The steps of a creation keep Inv, whichever thread takes them.
LEMMA CreateInv ==
  ASSUME Inv, NEW w \in Creators, Create(w)
  PROVE  Inv'
<1> USE ConstantsAssumption
    DEF Inv, Threads, Creators, TaskIds, memory, database, pass, peers,
        counters, threads, Goto, Return
<1>1. CASE CreateRefused(w)
  <2>1. MemoryOK'
    BY <1>1 DEF TypeOK, CreateRefused, AfterRefusal, MemoryOK
  <2>2. ThreadsOK'
    BY <1>1, GotoThreads
    DEF CreateRefused, AfterRefusal, AtRest, LabelsOf, SchedulerLabels, UserLabels
  <2>3. RestOK'
    BY <1>1 DEF TypeOK, CreateRefused, AfterRefusal, RestOK
  <2>4. PassKeepsItsPlace'
    BY <1>1 DEF TypeOK, CreateRefused, AfterRefusal, PassKeepsItsPlace
  <2>5. QED
    BY <2>1, <2>2, <2>3, <2>4 DEF TypeOK, MemoryOK, ThreadsOK, RestOK
<1>2. CASE CreateAllowed(w)
  <2>1. MemoryOK'
    BY <1>2 DEF TypeOK, CreateAllowed, MemoryOK
  <2>2. ThreadsOK'
    BY <1>2, GotoThreads
    DEF CreateAllowed, AtRest, LabelsOf, SchedulerLabels, UserLabels
  <2>3. RestOK'
    BY <1>2 DEF TypeOK, CreateAllowed, RestOK
  <2>4. PassKeepsItsPlace'
    BY <1>2 DEF TypeOK, CreateAllowed, PassKeepsItsPlace
  <2>5. QED
    BY <2>1, <2>2, <2>3, <2>4 DEF TypeOK, MemoryOK, ThreadsOK, RestOK
<1>3. CASE CreateSaves(w)
  <2>1. MemoryOK'
    BY <1>3 DEF TypeOK, CreateSaves, OpenRow, TaskObjects, Records, RunStatuses, Statuses, MemoryOK
  <2>2. ThreadsOK'
    <3>1. lastId' \in Nat /\ lastId <= lastId' /\ lastId + 1 \in 1..lastId'
      BY <1>3 DEF TypeOK, CreateSaves
    <3>2. QED
      BY <1>3, <3>1, GotoThreadsWith
      DEF CreateSaves, LabelsOf, SchedulerLabels, UserLabels
  <2>3. RestOK'
    BY <1>3 DEF TypeOK, CreateSaves, OpenRow, TaskObjects, Records, RunStatuses, Statuses, RestOK
  <2>4. PassKeepsItsPlace'
    BY <1>3 DEF TypeOK, CreateSaves, OpenRow, TaskObjects, Records, RunStatuses, Statuses, PassKeepsItsPlace
  <2>5. QED
    BY <2>1, <2>2, <2>3, <2>4 DEF TypeOK, MemoryOK, ThreadsOK, RestOK
<1>4. CASE CreateBounded(w)
  <2>1. MemoryOK'
    BY <1>4 DEF TypeOK, CreateBounded, AfterRefusal, MemoryOK
  <2>2. ThreadsOK'
    BY <1>4, GotoThreads
    DEF CreateBounded, AfterRefusal, AtRest, LabelsOf, SchedulerLabels, UserLabels
  <2>3. RestOK'
    BY <1>4 DEF TypeOK, CreateBounded, AfterRefusal, RestOK
  <2>4. PassKeepsItsPlace'
    BY <1>4 DEF TypeOK, CreateBounded, AfterRefusal, PassKeepsItsPlace
  <2>5. QED
    BY <2>1, <2>2, <2>3, <2>4 DEF TypeOK, MemoryOK, ThreadsOK, RestOK
<1>5. CASE CreateAdds(w)
  <2>0. tid[w] \in 1..lastId
    <3>1. pc[w] \notin AtRest
      BY <1>5 DEF CreateAdds, AtRest
    <3>2. QED
      BY <3>1 DEF TypeOK
  <2>1. MemoryOK'
    BY <1>5, <2>0 DEF TypeOK, CreateAdds, Enqueue, CreateTaskReturns, MemoryOK
  <2>2. ThreadsOK'
    BY <1>5, GotoThreads
    DEF CreateAdds, Enqueue, CreateTaskReturns, AtRest, LabelsOf, SchedulerLabels, UserLabels
  <2>3. RestOK'
    BY <1>5 DEF TypeOK, CreateAdds, Enqueue, CreateTaskReturns, RestOK
  <2>4. PassKeepsItsPlace'
    BY <1>5, <2>0 DEF TypeOK, CreateAdds, Enqueue, CreateTaskReturns, PassKeepsItsPlace
  <2>5. QED
    BY <2>1, <2>2, <2>3, <2>4 DEF TypeOK, MemoryOK, ThreadsOK, RestOK
<1>6. QED
  BY <1>1, <1>2, <1>3, <1>4, <1>5 DEF Create

\* So do the steps of StartTask.
LEMMA StartTaskInv ==
  ASSUME Inv, NEW w \in Creators, StartTask(w)
  PROVE  Inv'
<1> USE ConstantsAssumption
    DEF Inv, Threads, Creators, TaskIds, memory, database, pass, peers,
        counters, threads, Goto, Return
<1>1. CASE StartUnreachable(w)
  <2>1. MemoryOK'
    <3>1. task' \in [TaskIds -> TaskObjects]
      <4>1. {"Started", "Error", "Cancelled", "Done"} \subseteq RunStatuses /\ Statuses = {"Ok", "Warning", "Error"}
        BY DEF RunStatuses, Statuses
      <4>2. /\ [task EXCEPT ![tid[w]].status = "Warning"]
                  \in [TaskIds -> TaskObjects]
            /\ [task EXCEPT ![tid[w]].status = "Error",
                              ![tid[w]].run = "Error"]
                  \in [TaskIds -> TaskObjects]
        BY <4>1, TaskUpdates DEF TypeOK
      <4>3. QED
        BY <1>1, <4>2 DEF TypeOK, StartUnreachable
    <3>2. late' \in [TaskIds -> 0..MaxRetries]
      <4>1. CASE late' = late
        BY <4>1 DEF TypeOK
      <4>2. CASE /\ late[tid[w]] < MaxRetries
                 /\ late' = [late EXCEPT ![tid[w]] = late[tid[w]] + 1]
        <5>1. CASE tid[w] \in TaskIds
          BY <4>2, <5>1 DEF TypeOK
        <5>2. CASE tid[w] \notin TaskIds
          BY <4>2, <5>2 DEF TypeOK
        <5>3. QED
          BY <5>1, <5>2
      <4>3. QED
        BY <1>1, <4>1, <4>2 DEF StartUnreachable, Lateness
    <3>3. idx' \in 0..Len(queue') + 1
      <4>1. CASE w = Scheduler
        <5>1. idx \in 1..Len(queue)
          BY <1>1, <4>1 DEF PassKeepsItsPlace, StartUnreachable
        <5>2. idx' = idx - 1 /\ queue' = queue
          BY <1>1, <4>1 DEF StartUnreachable
        <5>3. QED
          BY <5>1, <5>2
      <4>2. CASE w # Scheduler
        <5>1. idx' = idx /\ queue' = queue
          BY <1>1, <4>2 DEF StartUnreachable
        <5>2. QED
          BY <5>1 DEF TypeOK
      <4>3. QED
        BY <4>1, <4>2
    <3>4. QED
      BY <1>1, <3>1, <3>2, <3>3 DEF TypeOK, StartUnreachable, MemoryOK
  <2>2. ThreadsOK'
    BY <1>1, GotoThreads
    DEF StartUnreachable, Lateness, AtRest, LabelsOf, SchedulerLabels, UserLabels
  <2>3. RestOK'
    BY <1>1 DEF TypeOK, StartUnreachable, Lateness, RestOK
  <2>4. PassKeepsItsPlace'
    <3>1. CASE w = Scheduler
      BY <1>1, <3>1 DEF TypeOK, StartUnreachable, PassKeepsItsPlace
    <3>2. CASE w # Scheduler
      BY <1>1, <3>2 DEF TypeOK, StartUnreachable, PassKeepsItsPlace
    <3>3. QED
      BY <3>1, <3>2
  <2>5. QED
    BY <2>1, <2>2, <2>3, <2>4 DEF TypeOK, MemoryOK, ThreadsOK, RestOK
<1>2. CASE StartOverQuota(w)
  <2>1. MemoryOK'
    <3>1. task' \in [TaskIds -> TaskObjects]
      <4>1. {"Started", "Error", "Cancelled", "Done"} \subseteq RunStatuses /\ Statuses = {"Ok", "Warning", "Error"}
        BY DEF RunStatuses, Statuses
      <4>2. [task EXCEPT ![tid[w]].status = "Error", ![tid[w]].run = "Error"]
              \in [TaskIds -> TaskObjects]
        BY <4>1, TaskUpdates DEF TypeOK
      <4>3. QED
        BY <1>2, <4>2 DEF TypeOK, StartOverQuota
    <3>2. idx' \in 0..Len(queue') + 1
      <4>1. queue' = queue /\ idx \in 0..Len(queue) + 1 /\ Len(queue) \in Nat
        BY <1>2 DEF TypeOK, StartOverQuota
      <4>2. CASE w = Scheduler
        <5>1. idx' = idx - 1 /\ idx \in 1..Len(queue)
          BY <1>2, <4>2 DEF PassKeepsItsPlace, StartOverQuota
        <5>2. QED
          BY <4>1, <5>1
      <4>3. CASE w # Scheduler
        BY <1>2, <4>1, <4>3 DEF StartOverQuota
      <4>4. QED
        BY <4>2, <4>3
    <3>3. QED
      BY <1>2, <3>1, <3>2 DEF TypeOK, StartOverQuota, MemoryOK
  <2>2. ThreadsOK'
    BY <1>2, GotoThreads
    DEF StartOverQuota, AtRest, LabelsOf, SchedulerLabels, UserLabels
  <2>3. RestOK'
    BY <1>2 DEF TypeOK, StartOverQuota, RestOK
  <2>4. PassKeepsItsPlace'
    <3>1. CASE w = Scheduler
      BY <1>2, <3>1 DEF TypeOK, StartOverQuota, PassKeepsItsPlace
    <3>2. CASE w # Scheduler
      BY <1>2, <3>2 DEF TypeOK, StartOverQuota, PassKeepsItsPlace
    <3>3. QED
      BY <3>1, <3>2
  <2>5. QED
    BY <2>1, <2>2, <2>3, <2>4 DEF TypeOK, MemoryOK, ThreadsOK, RestOK
<1>3. CASE StartNotSent(w)
  <2>1. MemoryOK'
    BY <1>3 DEF TypeOK, StartNotSent, StartTaskReturns, MemoryOK
  <2>2. ThreadsOK'
    BY <1>3, GotoThreads
    DEF StartNotSent, StartTaskReturns, AtRest, LabelsOf, SchedulerLabels, UserLabels
  <2>3. RestOK'
    BY <1>3 DEF TypeOK, StartNotSent, StartTaskReturns, RestOK
  <2>4. PassKeepsItsPlace'
    BY <1>3 DEF TypeOK, StartNotSent, StartTaskReturns, PassKeepsItsPlace
  <2>5. QED
    BY <2>1, <2>2, <2>3, <2>4 DEF TypeOK, MemoryOK, ThreadsOK, RestOK
<1>4. CASE StartSends(w)
  <2>1. MemoryOK'
    BY <1>4 DEF TypeOK, StartSends, Send, MemoryOK
  <2>2. ThreadsOK'
    BY <1>4, GotoThreads
    DEF StartSends, Send, AtRest, LabelsOf, SchedulerLabels, UserLabels
  <2>3. RestOK'
    <3>1. tid[w] \in TaskIds
      <4>1. pc[w] \notin AtRest
        BY <1>4 DEF StartSends, AtRest
      <4>2. QED
        BY <4>1 DEF TypeOK
    <3>2. "STARTTASK" \in Orders
      BY DEF Orders
    <3>3. /\ wire' \in [Nodes -> Seq(Messages)]
          /\ verified' \in [Nodes -> BOOLEAN]
      BY <1>4, <3>1, <3>2, SendTypes DEF TypeOK, StartSends
    <3>4. QED
      BY <1>4, <3>3 DEF TypeOK, StartSends, RestOK
  <2>4. PassKeepsItsPlace'
    BY <1>4 DEF TypeOK, StartSends, Send, PassKeepsItsPlace
  <2>5. QED
    BY <2>1, <2>2, <2>3, <2>4 DEF TypeOK, MemoryOK, ThreadsOK, RestOK
<1>5. CASE StartMarks(w)
  <2>1. MemoryOK'
    <3>1. task' \in [TaskIds -> TaskObjects]
      <4>1. {"Started", "Error", "Cancelled", "Done"} \subseteq RunStatuses /\ Statuses = {"Ok", "Warning", "Error"}
        BY DEF RunStatuses, Statuses
      <4>2. QED
        BY <1>5, <4>1, TaskUpdates DEF TypeOK, StartMarks, MarkStarted, SetRun
    <3>2. QED
      BY <1>5, <3>1 DEF TypeOK, StartMarks, StartTaskReturns, MemoryOK
  <2>2. ThreadsOK'
    BY <1>5, GotoThreads
    DEF StartMarks, StartTaskReturns, AtRest, LabelsOf, SchedulerLabels, UserLabels
  <2>3. RestOK'
    BY <1>5 DEF TypeOK, StartMarks, StartTaskReturns, RestOK
  <2>4. PassKeepsItsPlace'
    BY <1>5 DEF TypeOK, StartMarks, StartTaskReturns, PassKeepsItsPlace
  <2>5. QED
    BY <2>1, <2>2, <2>3, <2>4 DEF TypeOK, MemoryOK, ThreadsOK, RestOK
<1>6. QED
  BY <1>1, <1>2, <1>3, <1>4, <1>5 DEF StartTask

\* The process's end, whatever causes it, leaves a state that satisfies Inv.
LEMMA DiesInv ==
  ASSUME Inv, Dies, crashes' \in 0..MaxCrashes
  PROVE  Inv'
<1> USE ConstantsAssumption
    DEF Inv, Threads, Creators, TaskIds, memory, database, pass, peers,
        counters, threads, Dies
<1>1. MemoryOK'
  BY DEF TypeOK, MemoryOK, NoTask, TaskObjects, RunStatuses, Statuses
<1>2. ThreadsOK'
  <2>1. ASSUME NEW w \in Threads
        PROVE  /\ pc'[w] \in LabelsOf(w) /\ pc'[w] \in Labels
               /\ pc'[w] \in AtRest
    BY DEF AtRest, LabelsOf, Labels, SchedulerLabels, UserLabels, NodeLabels
  <2>2. pc' \in [Threads -> Labels]
    <3> HIDE DEF Threads
    <3>1. QED
      BY <2>1
  <2>3. tid' \in [Threads -> 0..lastId']
    BY DEF TypeOK
  <2>4. QED
    BY <2>1, <2>2, <2>3 DEF ThreadsOK
<1>3. RestOK'
  <2>1. wire' \in [Nodes -> Seq(Messages)]
    <3>1. [n \in Nodes |-> <<>>] \in [Nodes -> Seq(Messages)]
      OBVIOUS
    <3>2. QED
      BY <3>1 DEF TypeOK
  <2>2. verdict' \in [Nodes -> Ended]
    BY DEF Ended
  <2>3. QED
    BY <2>1, <2>2 DEF TypeOK, RestOK
<1>4. PassKeepsItsPlace'
  BY DEF PassKeepsItsPlace
<1>5. QED
  BY <1>1, <1>2, <1>3, <1>4 DEF TypeOK, MemoryOK, ThreadsOK, RestOK

\* So do the scheduler's own steps.
LEMMA ScheduleInv ==
  ASSUME Inv, Schedule
  PROVE  Inv'
<1> USE ConstantsAssumption
    DEF Inv, Threads, Creators, TaskIds, memory, database, pass, peers,
        counters, threads, Goto, Return
<1>1. CASE Recover
  <2>1. MemoryOK'
    BY <1>1 DEF TypeOK, Recover, Interrupted, Records, RunStatuses, Statuses, MemoryOK
  <2>2. ThreadsOK'
    BY <1>1, GotoThreads
    DEF Recover, Interrupted, Records, RunStatuses, Statuses, AtRest, LabelsOf, SchedulerLabels
  <2>3. RestOK'
    BY <1>1 DEF TypeOK, Recover, Interrupted, Records, RunStatuses, Statuses, RestOK
  <2>4. PassKeepsItsPlace'
    BY <1>1 DEF TypeOK, Recover, Interrupted, Records, RunStatuses, Statuses, PassKeepsItsPlace
  <2>5. QED
    BY <2>1, <2>2, <2>3, <2>4 DEF TypeOK, MemoryOK, ThreadsOK, RestOK
<1>2. CASE Poll
  <2>1. MemoryOK'
    BY <1>2 DEF TypeOK, Poll, MemoryOK
  <2>2. ThreadsOK'
    BY <1>2, GotoThreads
    DEF Poll, AtRest, LabelsOf, SchedulerLabels
  <2>3. RestOK'
    BY <1>2 DEF TypeOK, Poll, RestOK
  <2>4. PassKeepsItsPlace'
    BY <1>2 DEF TypeOK, Poll, PassKeepsItsPlace
  <2>5. QED
    BY <2>1, <2>2, <2>3, <2>4 DEF TypeOK, MemoryOK, ThreadsOK, RestOK
<1>3. CASE NoneDue
  <2>1. MemoryOK'
    BY <1>3 DEF TypeOK, NoneDue, MemoryOK
  <2>2. ThreadsOK'
    BY <1>3, GotoThreads
    DEF NoneDue, AtRest, LabelsOf, SchedulerLabels
  <2>3. RestOK'
    BY <1>3 DEF TypeOK, NoneDue, RestOK
  <2>4. PassKeepsItsPlace'
    BY <1>3 DEF TypeOK, NoneDue, PassKeepsItsPlace
  <2>5. QED
    BY <2>1, <2>2, <2>3, <2>4 DEF TypeOK, MemoryOK, ThreadsOK, RestOK
<1>4. CASE ScanEnds
  <2>1. MemoryOK'
    BY <1>4 DEF TypeOK, ScanEnds, MemoryOK
  <2>2. ThreadsOK'
    BY <1>4, GotoThreads
    DEF ScanEnds, AtRest, LabelsOf, SchedulerLabels
  <2>3. RestOK'
    BY <1>4 DEF TypeOK, ScanEnds, RestOK
  <2>4. PassKeepsItsPlace'
    BY <1>4 DEF TypeOK, ScanEnds, PassKeepsItsPlace
  <2>5. QED
    BY <2>1, <2>2, <2>3, <2>4 DEF TypeOK, MemoryOK, ThreadsOK, RestOK
<1>5. CASE ScanSkips
  <2>1. MemoryOK'
    <3>1. UNCHANGED <<lastId, queue, task, late, row>> /\ idx' = idx - 1 /\ idx > 0
      BY <1>5 DEF ScanSkips
    <3>2. idx \in 0..Len(queue) + 1 /\ Len(queue) \in Nat
      BY DEF TypeOK
    <3>3. idx' \in 0..Len(queue) + 1
      BY <3>1, <3>2
    <3>4. QED
      BY <3>1, <3>3 DEF TypeOK, MemoryOK
  <2>2. ThreadsOK'
    BY <1>5 DEF TypeOK, ScanSkips, ThreadsOK
  <2>3. RestOK'
    BY <1>5 DEF TypeOK, ScanSkips, RestOK
  <2>4. PassKeepsItsPlace'
    BY <1>5 DEF TypeOK, ScanSkips, PassKeepsItsPlace
  <2>5. QED
    BY <2>1, <2>2, <2>3, <2>4 DEF TypeOK, MemoryOK, ThreadsOK, RestOK
<1>6. CASE ScanFindsEnded
  <2>1. MemoryOK'
    BY <1>6 DEF TypeOK, ScanFindsEnded, MemoryOK
  <2>2. ThreadsOK'
    <3>1. /\ queue[idx] \in 1..lastId'
          /\ lastId' \in Nat /\ lastId <= lastId'
      BY <1>6 DEF TypeOK, PassKeepsItsPlace, ScanFindsEnded
    <3>2. QED
      BY <1>6, <3>1, GotoThreadsWith
      DEF ScanFindsEnded, LabelsOf, SchedulerLabels
  <2>3. RestOK'
    BY <1>6 DEF TypeOK, ScanFindsEnded, RestOK
  <2>4. PassKeepsItsPlace'
    BY <1>6 DEF TypeOK, ScanFindsEnded, PassKeepsItsPlace
  <2>5. QED
    BY <2>1, <2>2, <2>3, <2>4 DEF TypeOK, MemoryOK, ThreadsOK, RestOK
<1>7. CASE ScanFindsPending
  <2>1. MemoryOK'
    <3>1. task' \in [TaskIds -> TaskObjects]
      <4>1. {"Started", "Error", "Cancelled", "Done"} \subseteq RunStatuses /\ Statuses = {"Ok", "Warning", "Error"}
        BY DEF RunStatuses, Statuses
      <4>2. QED
        BY <1>7, <4>1, TaskUpdates DEF TypeOK, ScanFindsPending
    <3>2. QED
      BY <1>7, <3>1 DEF TypeOK, ScanFindsPending, MemoryOK
  <2>2. ThreadsOK'
    <3>1. /\ queue[idx] \in 1..lastId'
          /\ lastId' \in Nat /\ lastId <= lastId'
      <4>1. idx \in 1..Len(queue) /\ queue \in Seq(1..lastId) /\ lastId \in Nat /\ lastId' = lastId
        BY <1>7 DEF TypeOK, PassKeepsItsPlace, ScanFindsPending
      <4>2. QED
        BY <4>1
    <3>2. QED
      BY <1>7, <3>1, GotoThreadsWith
      DEF ScanFindsPending, LabelsOf, SchedulerLabels
  <2>3. RestOK'
    BY <1>7 DEF TypeOK, ScanFindsPending, RestOK
  <2>4. PassKeepsItsPlace'
    BY <1>7 DEF TypeOK, ScanFindsPending, PassKeepsItsPlace
  <2>5. QED
    BY <2>1, <2>2, <2>3, <2>4 DEF TypeOK, MemoryOK, ThreadsOK, RestOK
<1>8. CASE Complete
  <2>1. MemoryOK'
    BY <1>8 DEF TypeOK, Complete, TaskObjects, Records, MemoryOK
  <2>2. ThreadsOK'
    BY <1>8, GotoThreads
    DEF Complete, TaskObjects, Records, AtRest, LabelsOf, SchedulerLabels
  <2>3. RestOK'
    BY <1>8 DEF TypeOK, Complete, TaskObjects, Records, RestOK
  <2>4. PassKeepsItsPlace'
    BY <1>8 DEF TypeOK, Complete, TaskObjects, Records, PassKeepsItsPlace
  <2>5. QED
    BY <2>1, <2>2, <2>3, <2>4 DEF TypeOK, MemoryOK, ThreadsOK, RestOK
<1>9. CASE Removes
  <2>0. /\ idx \in 1..Len(queue)
        /\ RemoveAt(queue, idx) \in Seq(1..lastId)
        /\ Len(RemoveAt(queue, idx)) = Len(queue) - 1
    <3>1. idx \in 1..Len(queue)
      BY <1>9 DEF TypeOK, PassKeepsItsPlace, Removes
    <3>2. QED
      BY <3>1, RemoveAtLemma DEF TypeOK
  <2>1. MemoryOK'
    <3>1. task' \in [TaskIds -> TaskObjects]
      <4>1. {"Started", "Error", "Cancelled", "Done"} \subseteq RunStatuses /\ Statuses = {"Ok", "Warning", "Error"}
        BY DEF RunStatuses, Statuses
      <4>2. QED
        BY <1>9, <4>1, TaskUpdates DEF TypeOK, Removes, TakeOut
    <3>2. /\ queue' \in Seq(1..lastId)
          /\ Len(queue') = Len(queue) - 1
          /\ idx' = idx - 1
      BY <1>9, <2>0 DEF Removes, TakeOut
    <3>3. idx' \in 0..Len(queue') + 1
      <4>1. Len(queue) \in Nat
        BY DEF TypeOK
      <4>2. QED
        BY <2>0, <3>2, <4>1
    <3>4. late' \in [TaskIds -> 0..MaxRetries]
      <4>1. 0 \in 0..MaxRetries /\ late \in [TaskIds -> 0..MaxRetries]
        BY DEF TypeOK
      <4>2. late' = [late EXCEPT ![queue[idx]] = 0]
        BY <1>9 DEF Removes, TakeOut
      <4>3. QED
        BY <4>1, <4>2
    <3>5. QED
      BY <1>9, <3>1, <3>2, <3>3, <3>4 DEF TypeOK, Removes, MemoryOK
  <2>2. ThreadsOK'
    BY <1>9, GotoThreads
    DEF Removes, TakeOut, AtRest, LabelsOf, SchedulerLabels
  <2>3. RestOK'
    BY <1>9 DEF TypeOK, Removes, TakeOut, RestOK
  <2>4. PassKeepsItsPlace'
    <3>1. Len(queue') = Len(queue) - 1
      BY <1>9, <2>0 DEF Removes, TakeOut
    <3>2. pc'[Scheduler] = "scan" /\ idx' = idx - 1
      <4>1. idx' = idx - 1 /\ pc' = [pc EXCEPT ![Scheduler] = "scan"]
        BY <1>9 DEF Removes
      <4>2. QED
        BY <4>1 DEF TypeOK
    <3>3. QED
      BY <2>0, <3>1, <3>2 DEF PassKeepsItsPlace
  <2>5. QED
    BY <2>1, <2>2, <2>3, <2>4 DEF TypeOK, MemoryOK, ThreadsOK, RestOK
<1>11. CASE ScanMarks
  <2>1. MemoryOK'
    <3>1. task' \in [TaskIds -> TaskObjects]
      <4>1. {"Started", "Error", "Cancelled", "Done"} \subseteq RunStatuses /\ Statuses = {"Ok", "Warning", "Error"}
        BY DEF RunStatuses, Statuses
      <4>2. QED
        BY <1>11, <4>1, TaskUpdates DEF TypeOK, ScanMarks, MarkStarted, SetRun
    <3>2. idx' \in 0..Len(queue') + 1
      BY <1>11 DEF TypeOK, PassKeepsItsPlace, ScanMarks
    <3>3. QED
      BY <1>11, <3>1, <3>2 DEF TypeOK, ScanMarks, MemoryOK
  <2>2. ThreadsOK'
    BY <1>11, GotoThreads
    DEF ScanMarks, AtRest, LabelsOf, SchedulerLabels
  <2>3. RestOK'
    BY <1>11 DEF TypeOK, ScanMarks, RestOK
  <2>4. PassKeepsItsPlace'
    BY <1>11 DEF TypeOK, ScanMarks, PassKeepsItsPlace
  <2>5. QED
    BY <2>1, <2>2, <2>3, <2>4 DEF TypeOK, MemoryOK, ThreadsOK, RestOK
<1>12. ASSUME NEW b \in BackupSets, NextDue(b)
      PROVE  Inv'
  <2>1. MemoryOK'
    BY <1>12 DEF TypeOK, NextDue, MemoryOK
  <2>2. ThreadsOK'
    BY <1>12, GotoThreads
    DEF NextDue, AtRest, LabelsOf, SchedulerLabels
  <2>3. RestOK'
    BY <1>12 DEF TypeOK, NextDue, RestOK
  <2>4. PassKeepsItsPlace'
    BY <1>12 DEF TypeOK, NextDue, PassKeepsItsPlace
  <2>5. QED
    BY <2>1, <2>2, <2>3, <2>4 DEF TypeOK, MemoryOK, ThreadsOK, RestOK
<1>13. CASE TaskEventFails
  BY <1>13, DiesInv DEF TaskEventFails, TypeOK
<1>14. CASE Create(Scheduler)
  BY <1>14, CreateInv
<1>15. CASE StartTask(Scheduler)
  BY <1>15, StartTaskInv
<1>16. QED
  BY <1>1, <1>2, <1>3, <1>4, <1>5, <1>6, <1>7, <1>8, <1>9, <1>11, <1>12, <1>13, <1>14, <1>15 DEF Schedule

\* So do the users' requests.
LEMMA UserInv ==
  ASSUME Inv, NEW u \in Users, User(u)
  PROVE  Inv'
<1> USE ConstantsAssumption
    DEF Inv, Threads, Creators, TaskIds, memory, database, pass, peers,
        counters, threads, Goto, Return
<1>1. CASE CancelPending(u)
  <2>1. MemoryOK'
    <3>1. task' \in [TaskIds -> TaskObjects]
      BY <1>1, RunUpdate DEF CancelPending, RunStatuses
    <3>2. QED
      BY <1>1, <3>1 DEF TypeOK, CancelPending, MemoryOK
  <2>2. ThreadsOK'
    BY <1>1, GotoThreads
    DEF CancelPending, AtRest, LabelsOf, UserLabels
  <2>3. RestOK'
    BY <1>1 DEF TypeOK, CancelPending, RestOK
  <2>4. PassKeepsItsPlace'
    BY <1>1 DEF TypeOK, CancelPending, PassKeepsItsPlace
  <2>5. QED
    BY <2>1, <2>2, <2>3, <2>4 DEF TypeOK, MemoryOK, ThreadsOK, RestOK
<1>2. CASE CancelSends(u)
  <2>1. MemoryOK'
    BY <1>2 DEF TypeOK, CancelSends, Send, MemoryOK
  <2>2. ThreadsOK'
    BY <1>2, GotoThreads
    DEF CancelSends, Send, AtRest, LabelsOf, UserLabels
  <2>3. RestOK'
    <3>1. presence' \in [Nodes -> {"Absent", "Idle", "Online"}]
      BY <1>2 DEF TypeOK, CancelSends
    <3>2. wire' \in [Nodes -> Seq(Messages)] /\ verified' \in [Nodes -> BOOLEAN]
      <4>1. tid[u] \in TaskIds
        <5>1. pc[u] \notin AtRest
          BY <1>2 DEF CancelSends, AtRest
        <5>2. QED
          BY <5>1 DEF TypeOK
      <4>2. "CANCELTASK" \in Orders
        BY DEF Orders
      <4>3. CASE UNCHANGED peers
        BY <4>3 DEF TypeOK
      <4>4. CASE \E n \in {Node(tid[u])} : Send(n, "CANCELTASK", tid[u])
        BY <4>1, <4>2, <4>4, SendTypes
      <4>5. QED
        BY <1>2, <4>3, <4>4 DEF CancelSends
    <3>3. QED
      BY <1>2, <3>1, <3>2 DEF TypeOK, CancelSends, RestOK
  <2>4. PassKeepsItsPlace'
    BY <1>2 DEF TypeOK, CancelSends, Send, PassKeepsItsPlace
  <2>5. QED
    BY <2>1, <2>2, <2>3, <2>4 DEF TypeOK, MemoryOK, ThreadsOK, RestOK
<1>3. CASE CancelSets(u)
  <2>1. MemoryOK'
    <3>1. task' \in [TaskIds -> TaskObjects]
      BY <1>3, RunUpdate DEF CancelSets, RunStatuses
    <3>2. QED
      BY <1>3, <3>1 DEF TypeOK, CancelSets, MemoryOK
  <2>2. ThreadsOK'
    BY <1>3, GotoThreads
    DEF CancelSets, AtRest, LabelsOf, UserLabels
  <2>3. RestOK'
    BY <1>3 DEF TypeOK, CancelSets, RestOK
  <2>4. PassKeepsItsPlace'
    BY <1>3 DEF TypeOK, CancelSets, PassKeepsItsPlace
  <2>5. QED
    BY <2>1, <2>2, <2>3, <2>4 DEF TypeOK, MemoryOK, ThreadsOK, RestOK
<1>4. CASE PauseSets(u)
  <2>1. MemoryOK'
    <3>1. task' \in [TaskIds -> TaskObjects]
      BY <1>4, RunUpdate DEF PauseSets, RunStatuses
    <3>2. QED
      BY <1>4, <3>1 DEF TypeOK, PauseSets, MemoryOK
  <2>2. ThreadsOK'
    BY <1>4, GotoThreads
    DEF PauseSets, AtRest, LabelsOf, UserLabels
  <2>3. RestOK'
    BY <1>4 DEF TypeOK, PauseSets, RestOK
  <2>4. PassKeepsItsPlace'
    BY <1>4 DEF TypeOK, PauseSets, PassKeepsItsPlace
  <2>5. QED
    BY <2>1, <2>2, <2>3, <2>4 DEF TypeOK, MemoryOK, ThreadsOK, RestOK
<1>5. ASSUME NEW b \in BackupSets, RequestStart(u, b)
      PROVE  Inv'
  <2>1. MemoryOK'
    BY <1>5 DEF TypeOK, RequestStart, Requests, MemoryOK
  <2>2. ThreadsOK'
    BY <1>5, GotoThreads
    DEF RequestStart, Requests, AtRest, LabelsOf, UserLabels
  <2>3. RestOK'
    <3>1. requests' \in 0..MaxRequests
      BY <1>5 DEF TypeOK, RequestStart, Requests
    <3>2. QED
      BY <1>5, <3>1 DEF TypeOK, RequestStart, RestOK
  <2>4. PassKeepsItsPlace'
    BY <1>5 DEF TypeOK, RequestStart, Requests, PassKeepsItsPlace
  <2>5. QED
    BY <2>1, <2>2, <2>3, <2>4 DEF TypeOK, MemoryOK, ThreadsOK, RestOK
<1>6. ASSUME NEW t \in TaskIds, RequestCancel(u, t)
      PROVE  Inv'
  <2>1. MemoryOK'
    BY <1>6 DEF TypeOK, RequestCancel, Requests, MemoryOK
  <2>2. ThreadsOK'
    <3>1. /\ t \in 1..lastId'
          /\ lastId' \in Nat /\ lastId <= lastId'
      BY <1>6 DEF TypeOK, RequestCancel, Queued, ToSet
    <3>2. QED
      BY <1>6, <3>1, GotoThreadsWith
      DEF RequestCancel, Requests, LabelsOf, UserLabels
  <2>3. RestOK'
    <3>1. requests' \in 0..MaxRequests
      BY <1>6 DEF TypeOK, RequestCancel, Requests
    <3>2. QED
      BY <1>6, <3>1 DEF TypeOK, RequestCancel, RestOK
  <2>4. PassKeepsItsPlace'
    BY <1>6 DEF TypeOK, RequestCancel, Requests, PassKeepsItsPlace
  <2>5. QED
    BY <2>1, <2>2, <2>3, <2>4 DEF TypeOK, MemoryOK, ThreadsOK, RestOK
<1>7. ASSUME NEW t \in TaskIds, RequestPause(u, t)
      PROVE  Inv'
  <2>1. MemoryOK'
    BY <1>7 DEF TypeOK, RequestPause, Requests, Send, MemoryOK
  <2>2. ThreadsOK'
    <3>1. /\ t \in 1..lastId'
          /\ lastId' \in Nat /\ lastId <= lastId'
      BY <1>7 DEF TypeOK, RequestPause, Queued, ToSet
    <3>2. QED
      BY <1>7, <3>1, GotoThreadsWith
      DEF RequestPause, Requests, LabelsOf, UserLabels
  <2>3. RestOK'
    <3>1. requests' \in 0..MaxRequests
      BY <1>7 DEF TypeOK, RequestPause, Requests
    <3>2. "PAUSETASK" \in Orders
      BY DEF Orders
    <3>3. /\ wire' \in [Nodes -> Seq(Messages)]
          /\ verified' \in [Nodes -> BOOLEAN]
      BY <1>7, <3>2, SendTypes DEF RequestPause
    <3>4. QED
      BY <1>7, <3>1, <3>3 DEF TypeOK, RequestPause, RestOK
  <2>4. PassKeepsItsPlace'
    BY <1>7 DEF TypeOK, RequestPause, Requests, Send, PassKeepsItsPlace
  <2>5. QED
    BY <2>1, <2>2, <2>3, <2>4 DEF TypeOK, MemoryOK, ThreadsOK, RestOK
<1>8. CASE Create(u)
  BY <1>8, CreateInv
<1>9. CASE StartTask(u)
  BY <1>9, StartTaskInv
<1>10. QED
  BY <1>1, <1>2, <1>3, <1>4, <1>5, <1>6, <1>7, <1>8, <1>9 DEF User, Serve

\* So do the handlers of the nodes' messages.
LEMMA HandleInv ==
  ASSUME Inv, NEW n \in Nodes, Handle(n)
  PROVE  Inv'
<1> USE ConstantsAssumption
    DEF Inv, Threads, Creators, TaskIds, memory, database, pass, peers,
        counters, threads, Goto, Return
<1>1. CASE Settle(n)
  <2>1. MemoryOK'
    <3>1. task' \in [TaskIds -> TaskObjects]
      <4>1. Ended \subseteq RunStatuses /\ verdict[n] \in Ended
        BY DEF Ended, RunStatuses, TypeOK
      <4>2. QED
        BY <1>1, <4>1, RunUpdate DEF Settle
    <3>2. QED
      BY <1>1, <3>1 DEF TypeOK, Settle, Ended, MemoryOK
  <2>2. ThreadsOK'
    BY <1>1, GotoThreads
    DEF Settle, Ended, AtRest, LabelsOf, NodeLabels
  <2>3. RestOK'
    BY <1>1 DEF TypeOK, Settle, Ended, RestOK
  <2>4. PassKeepsItsPlace'
    BY <1>1 DEF TypeOK, Settle, Ended, PassKeepsItsPlace
  <2>5. QED
    BY <2>1, <2>2, <2>3, <2>4 DEF TypeOK, MemoryOK, ThreadsOK, RestOK
<1>2. ASSUME NEW t \in TaskIds, NEW st \in {"Warning", "Error"},
             HandleTask(n, t, st)
      PROVE  Inv'
  <2>1. MemoryOK'
    <3>1. task' \in [TaskIds -> TaskObjects]
      <4>1. {"Started", "Error", "Cancelled", "Done"} \subseteq RunStatuses /\ Statuses = {"Ok", "Warning", "Error"}
        BY DEF RunStatuses, Statuses
      <4>2. QED
        BY <1>2, <4>1, TaskUpdates DEF TypeOK, HandleTask
    <3>2. QED
      BY <1>2, <3>1 DEF TypeOK, HandleTask, MemoryOK
  <2>2. ThreadsOK'
    BY <1>2 DEF TypeOK, HandleTask, ThreadsOK
  <2>3. RestOK'
    BY <1>2 DEF TypeOK, HandleTask, RestOK
  <2>4. PassKeepsItsPlace'
    BY <1>2 DEF TypeOK, HandleTask, PassKeepsItsPlace
  <2>5. QED
    BY <2>1, <2>2, <2>3, <2>4 DEF TypeOK, MemoryOK, ThreadsOK, RestOK
<1>3. ASSUME NEW t \in TaskIds, HandleTaskDone(n, t)
      PROVE  Inv'
  <2>1. MemoryOK'
    BY <1>3 DEF TypeOK, HandleTaskDone, Handles, Ended, MemoryOK
  <2>2. ThreadsOK'
    <3>1. /\ t \in 1..lastId'
          /\ lastId' \in Nat /\ lastId <= lastId'
      BY <1>3 DEF TypeOK, HandleTaskDone, Handles, Queued, ToSet
    <3>2. QED
      BY <1>3, <3>1, GotoThreadsWith
      DEF HandleTaskDone, Handles, LabelsOf, NodeLabels
  <2>3. RestOK'
    BY <1>3 DEF TypeOK, HandleTaskDone, Handles, Ended, RestOK
  <2>4. PassKeepsItsPlace'
    BY <1>3 DEF TypeOK, HandleTaskDone, Handles, Ended, PassKeepsItsPlace
  <2>5. QED
    BY <2>1, <2>2, <2>3, <2>4 DEF TypeOK, MemoryOK, ThreadsOK, RestOK
<1>4. ASSUME NEW t \in TaskIds, HandleNoStorage(n, t)
      PROVE  Inv'
  <2>1. MemoryOK'
    <3>1. task' \in [TaskIds -> TaskObjects]
      <4>1. {"Started", "Error", "Cancelled", "Done"} \subseteq RunStatuses /\ Statuses = {"Ok", "Warning", "Error"}
        BY DEF RunStatuses, Statuses
      <4>2. QED
        BY <1>4, <4>1, TaskUpdates DEF TypeOK, HandleNoStorage
    <3>2. QED
      BY <1>4, <3>1 DEF TypeOK, HandleNoStorage, Send, MemoryOK
  <2>2. ThreadsOK'
    BY <1>4 DEF TypeOK, HandleNoStorage, ThreadsOK
  <2>3. RestOK'
    <3>1. t \in TaskIds
      OBVIOUS
    <3>2. "CANCELTASK" \in Orders
      BY DEF Orders
    <3>3. /\ wire' \in [Nodes -> Seq(Messages)]
          /\ verified' \in [Nodes -> BOOLEAN]
      BY <1>4, <3>1, <3>2, SendTypes DEF TypeOK, HandleNoStorage
    <3>4. QED
      BY <1>4, <3>3 DEF TypeOK, HandleNoStorage, RestOK
  <2>4. PassKeepsItsPlace'
    BY <1>4 DEF TypeOK, HandleNoStorage, Send, PassKeepsItsPlace
  <2>5. QED
    BY <2>1, <2>2, <2>3, <2>4 DEF TypeOK, MemoryOK, ThreadsOK, RestOK
<1>5. QED
  BY <1>1, <1>2, <1>3, <1>4 DEF Handle

\* So do the nodes' connections.
LEMMA ConnectionInv ==
  ASSUME Inv, NEW n \in Nodes, Connection(n)
  PROVE  Inv'
<1> USE ConstantsAssumption
    DEF Inv, Threads, Creators, TaskIds, memory, database, pass, peers,
        counters, threads, Goto, Return
<1>1. CASE NodeReads(n)
  <2>1. MemoryOK'
    BY <1>1 DEF TypeOK, NodeReads, MemoryOK
  <2>2. ThreadsOK'
    BY <1>1 DEF TypeOK, NodeReads, ThreadsOK
  <2>3. RestOK'
    <3>1. /\ Tail(wire[n]) \in Seq(Messages)
          /\ Head(wire[n]) \in Messages
      BY <1>1 DEF TypeOK, NodeReads
    <3>2. wire' \in [Nodes -> Seq(Messages)]
      BY <1>1, <3>1 DEF TypeOK, NodeReads
    <3>3. received' \subseteq TaskIds
      BY <1>1, <3>1 DEF TypeOK, NodeReads, Messages
    <3>4. QED
      BY <1>1, <3>2, <3>3 DEF TypeOK, NodeReads, RestOK
  <2>4. PassKeepsItsPlace'
    BY <1>1 DEF TypeOK, NodeReads, PassKeepsItsPlace
  <2>5. QED
    BY <2>1, <2>2, <2>3, <2>4 DEF TypeOK, MemoryOK, ThreadsOK, RestOK
<1>2. CASE PutNodeOnline(n)
  <2>1. MemoryOK'
    BY <1>2 DEF TypeOK, PutNodeOnline, MemoryOK
  <2>2. ThreadsOK'
    BY <1>2 DEF TypeOK, PutNodeOnline, ThreadsOK
  <2>3. RestOK'
    <3>1. verified' \in [Nodes -> BOOLEAN]
      <4>1. PICK v \in BOOLEAN : verified' = [verified EXCEPT ![n] = v]
        BY <1>2 DEF PutNodeOnline
      <4>2. QED
        BY <4>1 DEF TypeOK
    <3>2. wire' \in [Nodes -> Seq(Messages)]
      BY <1>2 DEF TypeOK, PutNodeOnline
    <3>3. presence' \in [Nodes -> {"Absent", "Idle", "Online"}]
      BY <1>2 DEF TypeOK, PutNodeOnline
    <3>4. QED
      BY <1>2, <3>1, <3>2, <3>3 DEF TypeOK, PutNodeOnline, RestOK
  <2>4. PassKeepsItsPlace'
    BY <1>2 DEF TypeOK, PutNodeOnline, PassKeepsItsPlace
  <2>5. QED
    BY <2>1, <2>2, <2>3, <2>4 DEF TypeOK, MemoryOK, ThreadsOK, RestOK
<1>3. CASE ClearNode(n)
  <2>1. MemoryOK'
    BY <1>3 DEF TypeOK, ClearNode, MemoryOK
  <2>2. ThreadsOK'
    BY <1>3 DEF TypeOK, ClearNode, ThreadsOK
  <2>3. RestOK'
    <3>1. verified' \in [Nodes -> BOOLEAN]
      BY <1>3 DEF TypeOK, ClearNode
    <3>2. wire' \in [Nodes -> Seq(Messages)]
      BY <1>3 DEF TypeOK, ClearNode
    <3>3. presence' \in [Nodes -> {"Absent", "Idle", "Online"}]
      BY <1>3 DEF TypeOK, ClearNode
    <3>4. QED
      BY <1>3, <3>1, <3>2, <3>3 DEF TypeOK, ClearNode, RestOK
  <2>4. PassKeepsItsPlace'
    BY <1>3 DEF TypeOK, ClearNode, PassKeepsItsPlace
  <2>5. QED
    BY <2>1, <2>2, <2>3, <2>4 DEF TypeOK, MemoryOK, ThreadsOK, RestOK
<1>4. CASE HandleOfflineNode(n)
  <2>1. MemoryOK'
    BY <1>4 DEF TypeOK, HandleOfflineNode, MemoryOK
  <2>2. ThreadsOK'
    BY <1>4 DEF TypeOK, HandleOfflineNode, ThreadsOK
  <2>3. RestOK'
    <3>1. verified' \in [Nodes -> BOOLEAN]
      BY <1>4 DEF TypeOK, HandleOfflineNode
    <3>2. wire' \in [Nodes -> Seq(Messages)]
      BY <1>4 DEF TypeOK, HandleOfflineNode
    <3>3. presence' \in [Nodes -> {"Absent", "Idle", "Online"}]
      BY <1>4 DEF TypeOK, HandleOfflineNode
    <3>4. QED
      BY <1>4, <3>1, <3>2, <3>3 DEF TypeOK, HandleOfflineNode, RestOK
  <2>4. PassKeepsItsPlace'
    BY <1>4 DEF TypeOK, HandleOfflineNode, PassKeepsItsPlace
  <2>5. QED
    BY <2>1, <2>2, <2>3, <2>4 DEF TypeOK, MemoryOK, ThreadsOK, RestOK
<1>5. CASE ApproveNode(n)
  <2>1. MemoryOK'
    BY <1>5 DEF TypeOK, ApproveNode, MemoryOK
  <2>2. ThreadsOK'
    BY <1>5 DEF TypeOK, ApproveNode, ThreadsOK
  <2>3. RestOK'
    <3>1. verified' \in [Nodes -> BOOLEAN]
      <4>1. PICK v \in BOOLEAN : verified' = [verified EXCEPT ![n] = v]
        BY <1>5 DEF ApproveNode
      <4>2. QED
        BY <4>1 DEF TypeOK
    <3>2. wire' \in [Nodes -> Seq(Messages)]
      BY <1>5 DEF TypeOK, ApproveNode
    <3>3. presence' \in [Nodes -> {"Absent", "Idle", "Online"}]
      BY <1>5 DEF TypeOK, ApproveNode
    <3>4. QED
      BY <1>5, <3>1, <3>2, <3>3 DEF TypeOK, ApproveNode, RestOK
  <2>4. PassKeepsItsPlace'
    BY <1>5 DEF TypeOK, ApproveNode, PassKeepsItsPlace
  <2>5. QED
    BY <2>1, <2>2, <2>3, <2>4 DEF TypeOK, MemoryOK, ThreadsOK, RestOK
<1>6. QED
  BY <1>1, <1>2, <1>3, <1>4, <1>5 DEF Connection

LEMMA NextInv ==
  ASSUME Inv, [Next]_vars
  PROVE  Inv'
<1>1. CASE UNCHANGED vars
  BY <1>1
  DEF Inv, TypeOK, PassKeepsItsPlace, vars, memory, database, threads, pass,
      peers, counters
<1>2. CASE Schedule
  BY <1>2, ScheduleInv
<1>3. ASSUME NEW u \in Users, User(u)
      PROVE  Inv'
  BY <1>3, UserInv
<1>4. ASSUME NEW n \in Nodes, Handle(n) \/ Connection(n)
      PROVE  Inv'
  BY <1>4, HandleInv, ConnectionInv
<1>5. CASE HubCrash
  <2>1. crashes' \in 0..MaxCrashes
    BY <1>5, ConstantsAssumption DEF HubCrash, Inv, TypeOK
  <2>2. QED
    BY <1>5, <2>1, DiesInv DEF HubCrash
<1>6. CASE HubRestart
  <2> USE ConstantsAssumption
      DEF Inv, Threads, Creators, memory, database, pass, peers, counters,
          Goto
  <2>1. MemoryOK'
    BY <1>6 DEF TypeOK, HubRestart, MemoryOK
  <2>2. ThreadsOK'
    BY <1>6, GotoThreads DEF HubRestart, AtRest, LabelsOf, SchedulerLabels
  <2>3. RestOK'
    BY <1>6 DEF TypeOK, HubRestart, RestOK
  <2>4. PassKeepsItsPlace'
    BY <1>6 DEF TypeOK, HubRestart, PassKeepsItsPlace
  <2>5. QED
    BY <2>1, <2>2, <2>3, <2>4 DEF TypeOK, MemoryOK, ThreadsOK, RestOK
<1>7. QED
  BY <1>1, <1>2, <1>3, <1>4, <1>5, <1>6 DEF Next

LEMMA InvCorrect == Spec => []Inv
<1>1. Inv /\ [Next]_vars => Inv'
  BY NextInv
<1>2. QED
  BY InitInv, <1>1, PTL DEF Spec

\* Every variable of the task queue keeps its type, whatever users and nodes
\* do and whenever the hub stops.
THEOREM TypeCorrect == Spec => []TypeOK
  BY InvCorrect, PTL DEF Inv

\* The scheduler closes, starts and removes the task it looked at.
THEOREM PassInPlace == Spec => []PassKeepsItsPlace
  BY InvCorrect, PTL DEF Inv

-----------------------------------------------------------------------------
(* No task is forgotten.                                                   *)

\* The task the scheduler closes is no longer pending.
Closing ==
  /\ pc[Scheduler] = "complete" => task[tid[Scheduler]].run # "PendingStart"
  /\ pc[Scheduler] = "remove" => row[tid[Scheduler]].run # "PendingStart"

KeepInv == NoTaskForgotten /\ Closing

\* What most steps leave alone.
QueueKept ==
  /\ row' = row /\ queue' = queue
  /\ \A w \in Creators :
       pc[w] = "add" => pc'[w] = "add" /\ tid'[w] = tid[w]
SchedulerKept == pc'[Scheduler] = pc[Scheduler]
                   /\ tid'[Scheduler] = tid[Scheduler]
NoneReopened ==
  \A t \in TaskIds : task'[t].run = "PendingStart"
                       => task[t].run = "PendingStart"

LEMMA KeptForgets ==
  ASSUME NoTaskForgotten, QueueKept,
         pc[Scheduler] \in {"down", "recover"}
           => pc'[Scheduler] \in {"down", "recover"}
  PROVE  NoTaskForgotten'
BY DEF NoTaskForgotten, QueueKept, Queued

LEMMA KeptCloses ==
  ASSUME Inv, Closing, row' = row, SchedulerKept, NoneReopened
  PROVE  Closing'
<1>1. pc[Scheduler] = "complete" => tid[Scheduler] \in TaskIds
  <2>1. tid[Scheduler] \in 0..lastId /\ lastId \in 0..MaxTasks
    BY DEF Inv, TypeOK, Threads, Creators
  <2>2. pc[Scheduler] = "complete" => tid[Scheduler] # 0
    BY DEF Inv, TypeOK, AtRest, Threads, Creators
  <2>3. QED
    BY <2>1, <2>2, ConstantsAssumption DEF TaskIds
<1>2. QED
  BY <1>1 DEF Closing, SchedulerKept, NoneReopened

LEMMA RunUpdateCloses ==
  ASSUME Inv, NEW t, NEW r \in RunStatuses \ {"PendingStart"},
         SetRunIfQueued(t, r) \/ SetRun(t, r)
  PROVE  NoneReopened
BY DEF SetRunIfQueued, SetRun, NoneReopened, Inv, TypeOK, TaskObjects

\* The steps of threads other than the scheduler, but for a task's creation.
LEMMA OthersKeep ==
  ASSUME Inv, KeepInv,
         \/ \E u \in Users : User(u) /\ ~Create(u)
         \/ \E n \in Nodes : Handle(n) \/ Connection(n)
  PROVE  KeepInv'
<1> USE ConstantsAssumption
    DEF memory, database, pass, peers, counters, threads, Goto, Return,
        Threads, Creators
<1>1. TypeOK
  BY DEF Inv
<1> DEFINE Kept == QueueKept /\ SchedulerKept /\ NoneReopened
<1>2. ASSUME NEW u \in Users, User(u), ~Create(u)
      PROVE  Kept
  <2> USE DEF TypeOK, QueueKept, SchedulerKept
  <2>1. ASSUME NEW b \in BackupSets, RequestStart(u, b) PROVE Kept
    BY <1>1, <2>1 DEF RequestStart, Requests, NoneReopened
  <2>2. ASSUME NEW t \in TaskIds, RequestCancel(u, t) PROVE Kept
    BY <1>1, <2>2 DEF RequestCancel, Requests, NoneReopened
  <2>3. ASSUME NEW t \in TaskIds, RequestPause(u, t) PROVE Kept
    BY <1>1, <2>3 DEF RequestPause, Requests, NoneReopened
  <2>4. CASE CancelPending(u)
    <3>1. NoneReopened
      BY <2>4, RunUpdateCloses DEF CancelPending, RunStatuses
    <3>2. QED
      BY <1>1, <2>4, <3>1 DEF CancelPending
  <2>5. CASE CancelSends(u)
    BY <1>1, <2>5 DEF CancelSends, NoneReopened
  <2>6. CASE CancelSets(u)
    <3>1. NoneReopened
      BY <2>6, RunUpdateCloses DEF CancelSets, RunStatuses
    <3>2. QED
      BY <1>1, <2>6, <3>1 DEF CancelSets
  <2>7. CASE PauseSets(u)
    <3>1. NoneReopened
      BY <2>7, RunUpdateCloses DEF PauseSets, RunStatuses
    <3>2. QED
      BY <1>1, <2>7, <3>1 DEF PauseSets
  <2>8. CASE StartTask(u)
    <3>1. CASE StartUnreachable(u)
      <4>1. u # Scheduler
        BY <1>1
      <4>2. UNCHANGED <<task, row, queue>>
        BY <3>1, <4>1 DEF StartUnreachable
      <4>3. QED
        BY <1>1, <2>8, <3>1, <4>1, <4>2 DEF StartUnreachable, NoneReopened
    <3>2. CASE StartOverQuota(u)
      BY <1>1, <2>8, <3>2 DEF StartOverQuota, NoneReopened
    <3>3. CASE StartNotSent(u)
      BY <1>1, <2>8, <3>3 DEF StartNotSent, StartTaskReturns, NoneReopened
    <3>4. CASE StartSends(u)
      BY <1>1, <2>8, <3>4 DEF StartSends, NoneReopened
    <3>5. CASE StartMarks(u)
      <4>1. NoneReopened
        BY <3>5, RunUpdateCloses DEF StartMarks, MarkStarted, RunStatuses
      <4>2. QED
        BY <1>1, <3>5, <4>1 DEF StartMarks, StartTaskReturns
    <3>6. QED
      BY <2>8, <3>1, <3>2, <3>3, <3>4, <3>5 DEF StartTask
  <2>9. QED
    BY <1>2, <2>1, <2>2, <2>3, <2>4, <2>5, <2>6, <2>7, <2>8
    DEF User, Serve
<1>3. ASSUME NEW n \in Nodes, Handle(n)
      PROVE  Kept
  <2> USE DEF TypeOK, QueueKept, SchedulerKept
  <2>1. ASSUME NEW t \in TaskIds, NEW st \in {"Warning", "Error"},
               HandleTask(n, t, st)
        PROVE  Kept
    <3>1. NoneReopened
      BY <1>1, <2>1 DEF HandleTask, NoneReopened, TaskObjects
    <3>2. QED
      BY <1>1, <2>1, <3>1 DEF HandleTask
  <2>2. ASSUME NEW t \in TaskIds, HandleTaskDone(n, t) PROVE Kept
    BY <1>1, <2>2 DEF HandleTaskDone, Handles, NoneReopened
  <2>3. ASSUME NEW t \in TaskIds, HandleNoStorage(n, t) PROVE Kept
    <3>1. NoneReopened
      BY <1>1, <2>3 DEF HandleNoStorage, NoneReopened, TaskObjects
    <3>2. QED
      BY <1>1, <2>3, <3>1 DEF HandleNoStorage
  <2>4. CASE Settle(n)
    <3>1. verdict[n] \in RunStatuses \ {"PendingStart"}
      BY <1>1 DEF Ended, RunStatuses
    <3>2. NoneReopened
      BY <2>4, <3>1, RunUpdateCloses DEF Settle
    <3>3. QED
      BY <1>1, <2>4, <3>2 DEF Settle
  <2>5. QED
    BY <1>3, <2>1, <2>2, <2>3, <2>4 DEF Handle
<1>4. ASSUME NEW n \in Nodes, Connection(n)
      PROVE  Kept
  BY <1>4 DEF Connection, NodeReads, PutNodeOnline, ClearNode,
              HandleOfflineNode, ApproveNode, QueueKept, SchedulerKept,
              NoneReopened
<1>5. Kept
  BY <1>2, <1>3, <1>4
<1>6. NoTaskForgotten'
  BY <1>5, KeptForgets DEF KeepInv, SchedulerKept
<1>7. Closing'
  BY <1>5, KeptCloses DEF KeepInv, QueueKept
<1>8. QED
  BY <1>6, <1>7 DEF KeepInv

\* A creation: the new record's task is on its way into the queue, then in it.
LEMMA CreateKeeps ==
  ASSUME Inv, KeepInv, NEW w \in Creators, Create(w)
  PROVE  KeepInv'
<1> USE ConstantsAssumption
    DEF memory, database, pass, peers, counters, Goto, Return, Threads,
        Creators
<1>1. TypeOK /\ NoTaskForgotten /\ Closing
  BY DEF Inv, KeepInv
<1>2. CASE CreateRefused(w) \/ CreateAllowed(w) \/ CreateBounded(w)
  <2>1. QueueKept
    BY <1>1, <1>2
    DEF CreateRefused, CreateAllowed, CreateBounded, QueueKept, TypeOK
  <2>2. /\ pc'[Scheduler] \notin {"complete", "remove"}
           \/ SchedulerKept
        /\ NoneReopened
        /\ pc[Scheduler] \in {"down", "recover"}
             => pc'[Scheduler] \in {"down", "recover"}
    BY <1>1, <1>2
    DEF CreateRefused, CreateAllowed, CreateBounded, SchedulerKept, TypeOK,
        AfterRefusal, NoneReopened
  <2>3. Closing'
    BY <2>1, <2>2, <1>1, KeptCloses DEF QueueKept, Closing
  <2>4. QED
    BY <1>1, <2>1, <2>2, <2>3, KeptForgets DEF KeepInv
<1>3. CASE CreateSaves(w)
  <2>1. /\ row' = [row EXCEPT ![lastId + 1] = OpenRow]
        /\ queue' = queue
        /\ pc' = [pc EXCEPT ![w] = "add"]
        /\ tid' = [tid EXCEPT ![w] = lastId + 1]
        /\ pc[w] = "save"
    BY <1>3 DEF CreateSaves
  <2>2. NoTaskForgotten'
    <3>1. SUFFICES ASSUME pc'[Scheduler] \notin {"down", "recover"},
                          NEW t \in TaskIds, row'[t].run = "PendingStart"
                   PROVE  \/ t \in Queued'
                          \/ \E v \in Creators : pc'[v] = "add" /\ tid'[v] = t
      BY DEF NoTaskForgotten
    <3>2. CASE t = lastId + 1
      BY <1>1, <2>1, <3>2 DEF TypeOK
    <3>3. CASE t # lastId + 1
      <4>1. row[t].run = "PendingStart"
        BY <1>1, <2>1, <3>1, <3>3 DEF TypeOK
      <4>2. pc[Scheduler] \notin {"down", "recover"}
        BY <1>1, <2>1, <3>1 DEF TypeOK
      <4>3. \/ t \in Queued
            \/ \E v \in Creators : pc[v] = "add" /\ tid[v] = t
        BY <1>1, <4>1, <4>2 DEF NoTaskForgotten
      <4>4. QED
        BY <1>1, <2>1, <4>3 DEF Queued, TypeOK
    <3>4. QED
      BY <3>2, <3>3
  <2>3. Closing'
    <3>1. CASE w = Scheduler
      BY <1>1, <2>1, <3>1 DEF Closing, TypeOK
    <3>2. CASE w # Scheduler
      <4>1. pc'[Scheduler] = pc[Scheduler] /\ tid'[Scheduler] = tid[Scheduler]
        BY <2>1, <3>2
      <4>2. tid[Scheduler] # lastId + 1
        BY <1>1 DEF TypeOK
      <4>3. /\ task'[tid[Scheduler]] = task[tid[Scheduler]]
            /\ row'[tid[Scheduler]] = row[tid[Scheduler]]
        BY <1>1, <1>3, <2>1, <4>2 DEF CreateSaves, TypeOK
      <4>4. QED
        BY <1>1, <4>1, <4>3 DEF Closing
    <3>3. QED
      BY <3>1, <3>2
  <2>4. QED
    BY <2>2, <2>3 DEF KeepInv
<1>4. CASE CreateAdds(w)
  <2>1. /\ row' = row /\ task' = task
        /\ queue' = Append(queue, tid[w])
    BY <1>4 DEF CreateAdds, Enqueue
  <2>2. /\ pc[w] = "add"
        /\ \A v \in Creators \ {w} : pc'[v] = pc[v] /\ tid'[v] = tid[v]
        /\ pc'[w] \in {"create", "start"}
    BY <1>1, <1>4 DEF CreateAdds, CreateTaskReturns, TypeOK
  <2>3. Queued' = Queued \cup {tid[w]}
    <3>1. /\ Len(queue') = Len(queue) + 1
          /\ \A i \in 1..Len(queue) : queue'[i] = queue[i]
          /\ queue'[Len(queue) + 1] = tid[w]
      BY <1>1, <2>1 DEF TypeOK
    <3>2. queue \in Seq(1..lastId) /\ queue' \in Seq(1..lastId)
      <4>1. tid[w] \in 1..lastId
        <5>1. w \in Threads /\ pc[w] \notin AtRest
          BY <2>2 DEF AtRest
        <5>2. tid[w] \in 0..lastId /\ tid[w] # 0 /\ lastId \in Nat
          BY <1>1, <5>1 DEF TypeOK
        <5>3. QED
          BY <5>2
      <4>2. queue \in Seq(1..lastId)
        BY <1>1 DEF TypeOK
      <4>3. QED
        BY <2>1, <4>1, <4>2
    <3>3. /\ Queued = {queue[i] : i \in 1..Len(queue)}
          /\ Queued' = {queue'[i] : i \in 1..Len(queue')}
      BY <3>2 DEF Queued, ToSet
    <3>4. Len(queue) \in Nat
      BY <3>2
    <3>5. QED
      BY <3>1, <3>3, <3>4
  <2>4. NoTaskForgotten'
    <3>1. pc'[Scheduler] \notin {"down", "recover"}
            => pc[Scheduler] \notin {"down", "recover"}
      BY <2>2
    <3>2. QED
      BY <1>1, <2>1, <2>2, <2>3, <3>1 DEF NoTaskForgotten
  <2>5. Closing'
    BY <1>1, <2>1, <2>2 DEF Closing
  <2>6. QED
    BY <2>4, <2>5 DEF KeepInv
<1>5. QED
  BY <1>2, <1>3, <1>4 DEF Create

\* The scheduler's pass: what is removed is what was closed.
LEMMA ScheduleKeeps ==
  ASSUME Inv, KeepInv, Schedule
  PROVE  KeepInv'
<1> USE ConstantsAssumption
    DEF memory, database, pass, peers, counters, threads, Goto, Return,
        Threads, Creators
<1>1. TypeOK /\ PassKeepsItsPlace /\ NoTaskForgotten /\ Closing
  BY DEF Inv, KeepInv
<1>2. CASE Recover
  <2>1. \A t \in TaskIds : row'[t].run # "PendingStart"
    BY <1>1, <1>2 DEF Recover, Interrupted, TypeOK
  <2>2. pc'[Scheduler] = "poll"
    BY <1>1, <1>2 DEF Recover, TypeOK
  <2>3. QED
    BY <2>1, <2>2 DEF KeepInv, NoTaskForgotten, Closing
<1>3. CASE \/ Poll \/ NoneDue \/ (\E b \in BackupSets : NextDue(b))
           \/ ScanEnds \/ ScanSkips \/ ScanFindsPending \/ ScanMarks
  <2>1. /\ QueueKept
        /\ pc[Scheduler] \notin {"down", "recover"}
        /\ pc'[Scheduler] \in {"create", "exists", "scan", "poll", "start"}
    BY <1>1, <1>3
    DEF Poll, NoneDue, NextDue, ScanEnds, ScanSkips, ScanFindsPending,
        ScanMarks, MarkStarted, SetRun, QueueKept, TypeOK
  <2>2. QED
    BY <1>1, <2>1, KeptForgets DEF KeepInv, Closing
<1>4. CASE ScanFindsEnded
  <2>1. QueueKept
    BY <1>1, <1>4 DEF ScanFindsEnded, QueueKept, TypeOK
  <2>2. pc'[Scheduler] = "complete" /\ pc[Scheduler] = "scan"
    BY <1>1, <1>4 DEF ScanFindsEnded, TypeOK
  <2>3. task'[tid'[Scheduler]].run # "PendingStart"
    BY <1>1, <1>4 DEF ScanFindsEnded, TypeOK, Ended
  <2>4. QED
    BY <1>1, <2>1, <2>2, <2>3, KeptForgets DEF KeepInv, Closing
<1>5. CASE Complete
  <2> DEFINE t == tid[Scheduler]
  <2>1. /\ t \in TaskIds
        /\ task[t].run # "PendingStart"
        /\ row' = [row EXCEPT ![t] = [run |-> task[t].run,
                                      status |-> task[t].status]]
        /\ queue' = queue /\ tid' = tid /\ pc[Scheduler] = "complete"
        /\ pc' = [pc EXCEPT ![Scheduler] = "remove"]
    <3>1. t \in 1..lastId /\ lastId \in 0..MaxTasks
      BY <1>1, <1>5 DEF Complete, PassKeepsItsPlace, TypeOK
    <3>2. QED
      BY <1>1, <1>5, <3>1 DEF Complete, Closing, TaskIds
  <2>2. row'[t].run # "PendingStart"
    BY <1>1, <2>1 DEF TypeOK
  <2>3. NoTaskForgotten'
    <3>1. SUFFICES ASSUME NEW x \in TaskIds, row'[x].run = "PendingStart"
                   PROVE  \/ x \in Queued'
                          \/ \E v \in Creators : pc'[v] = "add" /\ tid'[v] = x
      BY DEF NoTaskForgotten
    <3>2. row[x].run = "PendingStart"
      BY <1>1, <2>1, <2>2, <3>1 DEF TypeOK
    <3>3. \/ x \in Queued
          \/ \E v \in Creators : pc[v] = "add" /\ tid[v] = x
      BY <1>1, <2>1, <3>2 DEF NoTaskForgotten
    <3>4. QED
      BY <1>1, <2>1, <3>3 DEF Queued, TypeOK
  <2>4. Closing'
    BY <1>1, <2>1, <2>2 DEF Closing, TypeOK
  <2>5. QED
    BY <2>3, <2>4 DEF KeepInv
<1>6. CASE Removes
  <2>1. /\ idx \in 1..Len(queue) /\ queue[idx] = tid[Scheduler]
        /\ row[queue[idx]].run # "PendingStart"
        /\ queue' = RemoveAt(queue, idx)
        /\ row' = row /\ pc[Scheduler] = "remove"
        /\ pc' = [pc EXCEPT ![Scheduler] = "scan"]
        /\ tid' = [tid EXCEPT ![Scheduler] = 0]
    BY <1>1, <1>6 DEF Removes, TakeOut, PassKeepsItsPlace, Closing
  <2>2. \A t \in Queued : row[t].run = "PendingStart" => t \in Queued'
    <3>0. queue \in Seq(1..lastId)
      BY <1>1 DEF TypeOK
    <3>1. SUFFICES ASSUME NEW j \in 1..Len(queue),
                          row[queue[j]].run = "PendingStart"
                   PROVE  queue[j] \in Queued'
      <4>1. Queued = {queue[i] : i \in 1..Len(queue)}
        BY <3>0 DEF Queued, ToSet
      <4>2. QED
        BY <4>1
    <3>2. j # idx
      BY <2>1, <3>1
    <3>3. QED
      BY <2>1, <3>0, <3>1, <3>2, RemoveAtLemma DEF Queued
  <2>3. pc'[Scheduler] = "scan" /\ pc[Scheduler] = "remove"
    BY <1>1, <2>1 DEF TypeOK
  <2>4. \A v \in Creators : pc[v] = "add" => pc'[v] = "add" /\ tid'[v] = tid[v]
    BY <1>1, <2>1 DEF TypeOK
  <2>5. NoTaskForgotten'
    BY <1>1, <2>1, <2>2, <2>3, <2>4 DEF NoTaskForgotten
  <2>6. QED
    BY <2>3, <2>5 DEF KeepInv, Closing
<1>8. CASE Create(Scheduler)
  BY <1>8, CreateKeeps
<1>9. CASE StartTask(Scheduler)
  <2>1. /\ QueueKept
        /\ pc[Scheduler] \notin {"down", "recover"}
        /\ pc'[Scheduler] \in {"scan", "marked", "mark"}
    <3> USE DEF QueueKept, TypeOK
    <3>1. CASE StartUnreachable(Scheduler)
      BY <1>1, <3>1 DEF StartUnreachable
    <3>2. CASE StartOverQuota(Scheduler)
      BY <1>1, <3>2 DEF StartOverQuota
    <3>3. CASE StartNotSent(Scheduler)
      BY <1>1, <3>3 DEF StartNotSent, StartTaskReturns
    <3>4. CASE StartSends(Scheduler)
      BY <1>1, <3>4 DEF StartSends
    <3>5. CASE StartMarks(Scheduler)
      BY <1>1, <3>5 DEF StartMarks, StartTaskReturns
    <3>6. QED
      BY <1>9, <3>1, <3>2, <3>3, <3>4, <3>5 DEF StartTask
  <2>2. QED
    BY <1>1, <2>1, KeptForgets DEF KeepInv, Closing
<1>10. CASE TaskEventFails
  <2>1. pc'[Scheduler] = "down"
    BY <1>10 DEF TaskEventFails, Dies
  <2>2. QED
    BY <2>1 DEF KeepInv, NoTaskForgotten, Closing
<1>11. QED
  BY <1>2, <1>3, <1>4, <1>5, <1>6, <1>8, <1>9, <1>10 DEF Schedule

LEMMA NextKeeps ==
  ASSUME Inv, KeepInv, [Next]_vars
  PROVE  KeepInv'
<1>1. CASE UNCHANGED vars
  BY <1>1 DEF KeepInv, NoTaskForgotten, Closing, Queued, vars, memory,
              database, threads
<1>2. CASE Schedule
  BY <1>2, ScheduleKeeps
<1>3. ASSUME NEW u \in Users, User(u)
      PROVE  KeepInv'
  <2>1. CASE Create(u)
    BY <2>1, CreateKeeps DEF Creators
  <2>2. CASE ~Create(u)
    BY <1>3, <2>2, OthersKeep
  <2>3. QED
    BY <2>1, <2>2
<1>4. ASSUME NEW n \in Nodes, Handle(n) \/ Connection(n)
      PROVE  KeepInv'
  BY <1>4, OthersKeep
<1>5. CASE HubCrash
  <2>1. pc'[Scheduler] = "down"
    BY <1>5 DEF HubCrash, Dies, Threads, Creators
  <2>2. QED
    BY <2>1 DEF KeepInv, NoTaskForgotten, Closing
<1>6. CASE HubRestart
  <2>1. pc'[Scheduler] = "recover"
    BY <1>6 DEF HubRestart, Goto, Inv, TypeOK, Threads, Creators
  <2>2. QED
    BY <2>1 DEF KeepInv, NoTaskForgotten, Closing
<1>7. QED
  BY <1>1, <1>2, <1>3, <1>4, <1>5, <1>6 DEF Next

LEMMA KeepInvCorrect == Spec => []KeepInv
<1>1. Init => KeepInv
  BY ConstantsAssumption
  DEF Init, KeepInv, NoTaskForgotten, Closing, Threads, Creators, NoRow
<1>2. Inv /\ KeepInv /\ [Next]_vars => KeepInv'
  BY NextKeeps
<1>3. QED
  BY InvCorrect, <1>1, <1>2, PTL DEF Spec

\* The hub forgets no task: after the recovery every record that is open belongs
\* to a task in the queue or about to enter it, for any number of sets, nodes and
\* users and through any crashes and restarts (Schedule, CreateTask, RemoveAt).
THEOREM NoTaskIsForgotten == Spec => []NoTaskForgotten
<1>1. KeepInv => NoTaskForgotten
  BY DEF KeepInv
<1>2. QED
  BY KeepInvCorrect, <1>1, PTL
=============================================================================
