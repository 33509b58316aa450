----------------------- MODULE StorageSessions_proofs -----------------------
(***************************************************************************)
(* What holds of StorageSessions for every value of its constants: any     *)
(* number of clients and storage nodes, a node being both if it likes, of  *)
(* any sizes and with any failures.                                        *)
(***************************************************************************)
EXTENDS StorageSessions, FiniteSetTheorems, SequenceTheorems, TLAPS

-----------------------------------------------------------------------------
(* Types.                                                                  *)

Labels == {"idle", "confirm", "release", "ring", "renew", "unlist", "remove", "lower",
           "choose", "create", "send", "wait", "reset", "tell", "reserve", "book",
           "enlist", "raise"}
Creatings == [id : Ids \cup {0}, store : Stores, budget : Nat,
              kind : {"grant", "index"}, renews : BOOLEAN]
Conns == [open : BOOLEAN, store : Stores, budget : Nat, handled : Nat,
          carries : {"nothing", "data", "after", "index"}]
Receivers == [open : BOOLEAN, awaited : BOOLEAN, budget : Nat, handled : Nat]

HubOK ==
  /\ session \in [Ids -> Sessions]
  /\ reserved \in [Stores -> Int]
  /\ used \in [Stores -> Nat]
  /\ load \in [Stores -> Int]
TasksOK ==
  /\ setup \in Setups
  /\ task \in [Clients -> {"Started", "Done", "Cancelled"}]
  /\ queued \subseteq Clients
  /\ storageNodes \in [Clients -> SUBSET Stores]
  /\ sweep \in [ids : SUBSET Ids, id : Ids \cup {0}, seen : Int]
LabelsOK == pc \in [Nodes -> Labels]
LocalsOK ==
  /\ asked \in [Nodes -> Messages]
  /\ creating \in [Clients -> Creatings]
  /\ targets \in [Clients -> Seq(Stores)]
  /\ share \in [Clients -> Nat]
  /\ seen \in [Nodes -> Int]
SyncOK ==
  /\ event \in [Stores -> BOOLEAN]
  /\ handlers \in [Stores -> Nat]
  /\ ringing \in [Stores -> Nat]
WiresOK ==
  /\ verified \subseteq Nodes
  /\ fromNode \in [Nodes -> Seq(Messages)]
  /\ toNode \in [Nodes -> Seq(OrdersOfHub)]
ClientsOK ==
  /\ conn \in [Clients -> [Ids -> Conns]]
  /\ left \in [Clients -> Nat]
  /\ feeds \in [Clients -> Nat]
  /\ phase \in [Clients -> {"sending", "emptied", "indexing", "done", "cancelled"}]
StoresOK ==
  /\ receiving \in [Stores -> [Clients \X Ids -> Receivers]]
  /\ stored \in [Stores -> Nat]
CountersOK == breaks \in Nat /\ faults \in Nat /\ reused \in BOOLEAN

\* The session a thread confirms, removes, creates or renews exists, and a node whose
\* answer calls handlers has one left to call.
WorkOK ==
  /\ \A n \in Nodes : pc[n] \in {"confirm", "release", "remove", "lower"} =>
                      asked[n].id \in Ids
  /\ \A n \in Clients :
       pc[n] \in {"send", "wait", "reset", "tell", "reserve", "book", "enlist", "raise"} =>
         creating[n].id \in Ids
  /\ \A s \in Stores : pc[s] = "ring" => ringing[s] > 0

TypeInv ==
  /\ HubOK /\ TasksOK /\ LabelsOK /\ LocalsOK /\ SyncOK /\ WiresOK
  /\ ClientsOK /\ StoresOK /\ CountersOK /\ WorkOK

LEMMA TypeInvTypes == TypeInv => TypeOK
BY DEF TypeInv, TypeOK, HubOK, TasksOK, LabelsOK, LocalsOK, SyncOK, WiresOK,
   ClientsOK, StoresOK, CountersOK, Labels, Creatings, Conns, Receivers

LEMMA Constants ==
  /\ IsFiniteSet(Clients) /\ IsFiniteSet(Stores) /\ IsFiniteSet(Ids)
  /\ AnyClient \in Clients /\ AnyStore \in Stores
  /\ \A s \in Stores : LoadOf(s) \in {0, 1}
<1> USE ConstantsAssumption
<1>1. IsFiniteSet(Clients) /\ IsFiniteSet(Stores)
  <2>1. Clients \in SUBSET Nodes /\ Stores \in SUBSET Nodes
    BY DEF Nodes
  <2>2. QED
    BY <2>1, FS_Subset
<1>2. IsFiniteSet(Ids)
  BY FS_Interval DEF Ids
<1>3. AnyClient \in Clients /\ AnyStore \in Stores
  BY DEF AnyClient, AnyStore
<1>4. \A s \in Stores : LoadOf(s) \in {0, 1}
  <2>1. ASSUME NEW s \in Stores PROVE LoadOf(s) \in {0, 1}
    <3>1. Priority[s] \in Nat /\ Priority[s] > 0
      OBVIOUS
    <3>2. \A k \in Nat : k > 0 => 1 \div k \in {0, 1}
      OBVIOUS
    <3>3. QED
      BY <3>1, <3>2 DEF LoadOf
  <2>2. QED
    BY <2>1
<1>5. QED
  BY <1>1, <1>2, <1>3, <1>4

LEMMA Recorded ==
  /\ \A k \in Requests \cup {"usage", "done", "ready"}, c \in Clients,
        i \in Ids \cup {0}, h \in Nat : Message(k, c, i, h) \in Messages
  /\ \A k \in {"STORE", "grant", "index", "cancel"}, c \in Clients, i \in Ids \cup {0},
        s \in Stores, b \in Nat, h \in Nat : Order(k, c, i, s, b, h) \in OrdersOfHub
  /\ NoSession \in Sessions /\ NoConn \in Conns /\ NoReceiver \in Receivers
<1>1. AnyClient \in Clients /\ AnyStore \in Stores
  BY Constants
<1>2. QED
  BY <1>1
  DEF Message, Messages, Order, OrdersOfHub, NoSession, Sessions, NoConn, Conns,
      NoReceiver, Receivers

\* What is sent is added, and what is read is taken away.
LEMMA HubReceives ==
  ASSUME TypeInv, NEW n \in Nodes, NEW m \in Messages, SendHub(n, m)
  PROVE  fromNode' \in [Nodes -> Seq(Messages)]
BY DEF TypeInv, WiresOK, SendHub

LEMMA NodeReceives ==
  ASSUME TypeInv, NEW n \in Nodes, NEW o \in OrdersOfHub, SendNode(n, o)
  PROVE  toNode' \in [Nodes -> Seq(OrdersOfHub)]
BY DEF TypeInv, WiresOK, SendNode

LEMMA ReadsType ==
  ASSUME TypeInv, NEW n \in Nodes, NEW kinds, Reads(n, kinds)
  PROVE  /\ fromNode' \in [Nodes -> Seq(Messages)] /\ pc[n] = "idle"
         /\ Head(fromNode[n]) \in Messages /\ Head(fromNode[n]).kind \in kinds
<1>1. fromNode[n] \in Seq(Messages) /\ fromNode[n] # <<>>
  BY DEF TypeInv, WiresOK, Reads
<1>2. Tail(fromNode[n]) \in Seq(Messages) /\ Head(fromNode[n]) \in Messages
  BY <1>1
<1>3. QED
  BY <1>2 DEF TypeInv, WiresOK, Reads, At

LEMMA ReceivesType ==
  ASSUME TypeInv, NEW n \in Nodes, NEW kinds, Receives(n, kinds)
  PROVE  /\ toNode' \in [Nodes -> Seq(OrdersOfHub)]
         /\ Head(toNode[n]) \in OrdersOfHub /\ Head(toNode[n]).kind \in kinds
<1>1. toNode[n] \in Seq(OrdersOfHub) /\ toNode[n] # <<>>
  BY DEF TypeInv, WiresOK, Receives
<1>2. Tail(toNode[n]) \in Seq(OrdersOfHub) /\ Head(toNode[n]) \in OrdersOfHub
  BY <1>1
<1>3. QED
  BY <1>2 DEF TypeInv, WiresOK, Receives

LEMMA TypeInit == Init => TypeInv
<1> SUFFICES ASSUME Init PROVE TypeInv
  OBVIOUS
<1> USE ConstantsAssumption, Constants, Recorded
<1>1. HubOK
  BY DEF Init, HubOK
<1>2. setup \in Setups /\ setup.needed \in Nat /\ setup.feeds \in Nat
  BY DEF Init
<1>3. TasksOK /\ LabelsOK
  BY <1>2 DEF Init, TasksOK, LabelsOK, Labels, Unswept
<1>4. LocalsOK
  <2>1. Message("done", AnyClient, 0, 0) \in Messages
    OBVIOUS
  <2>2. QED
    BY <2>1 DEF Init, LocalsOK, Creatings
<1>5. SyncOK /\ CountersOK
  BY DEF Init, SyncOK, CountersOK
<1>6. WiresOK
  <2>1. \A n \in Clients : Message("first", n, 0, 0) \in Messages
    BY DEF Requests
  <2>2. \A n \in Clients : <<Message("first", n, 0, 0)>> \in Seq(Messages)
    BY <2>1
  <2>3. <<>> \in Seq(Messages) /\ <<>> \in Seq(OrdersOfHub)
    OBVIOUS
  <2>4. QED
    BY <2>2, <2>3 DEF Init, WiresOK
<1>7. ClientsOK /\ StoresOK
  BY <1>2 DEF Init, ClientsOK, StoresOK
<1>8. WorkOK
  BY DEF Init, WorkOK, Nodes
<1>9. QED
  BY <1>1, <1>3, <1>4, <1>5, <1>6, <1>7, <1>8 DEF TypeInv

\* The hub reads messages.
LEMMA HandleSessionEventTypes ==
  ASSUME TypeInv, NEW n \in Nodes, HandleSessionEvent(n)
  PROVE  TypeInv'
<1> DEFINE m == Head(fromNode[n])
<1>1. /\ fromNode' \in [Nodes -> Seq(Messages)] /\ pc[n] = "idle"
      /\ m \in Messages /\ m.kind \in {"usage", "renewal", "alternate"}
  BY ReadsType DEF HandleSessionEvent
<1>2. TasksOK' /\ SyncOK' /\ ClientsOK' /\ StoresOK' /\ CountersOK'
  BY DEF HandleSessionEvent, TypeInv, TasksOK, SyncOK, ClientsOK, StoresOK, CountersOK,
     tasks, sync, clientState, storeState, counters
<1>3. WiresOK'
  BY <1>1 DEF HandleSessionEvent, TypeInv, WiresOK
<1>4. CASE ~Accepted(n, m)
  <2>1. UNCHANGED <<session, reserved, used, load, asked, pc, creating, targets, share,
                    seen, ringing>>
    BY <1>4 DEF HandleSessionEvent, sync
  <2>2. QED
    BY <1>2, <1>3, <2>1 DEF TypeInv, HubOK, LabelsOK, LocalsOK, WorkOK
<1>5. CASE Accepted(n, m)
  <2>1. /\ SetUsage(m) /\ asked' = [asked EXCEPT ![n] = m] /\ pc' = [pc EXCEPT ![n] = "confirm"]
        /\ m.id \in Ids
        /\ UNCHANGED <<reserved, used, load, creating, targets, share, seen, ringing>>
    BY <1>5 DEF HandleSessionEvent, Accepted, Known, Goto, sync
  <2>2. session' \in [Ids -> Sessions]
    <3>1. session[m.id] \in Sessions /\ m.handled \in Nat
      BY <1>1, <2>1 DEF TypeInv, HubOK, Messages
    <3>2. \/ session' = session
          \/ session' = [session EXCEPT ![m.id] =
               [session[m.id] EXCEPT !.byStore = TRUE, !.handled = m.handled]]
          \/ session' = [session EXCEPT ![m.id] =
               [session[m.id] EXCEPT !.byClient = TRUE, !.handled = m.handled]]
      BY <2>1 DEF SetUsage
    <3>3. /\ [session[m.id] EXCEPT !.byStore = TRUE, !.handled = m.handled] \in Sessions
          /\ [session[m.id] EXCEPT !.byClient = TRUE, !.handled = m.handled] \in Sessions
      BY <3>1 DEF Sessions
    <3>4. QED
      BY <3>2, <3>3 DEF TypeInv, HubOK
  <2>3. HubOK' /\ LabelsOK' /\ LocalsOK'
    BY <1>1, <2>1, <2>2 DEF TypeInv, HubOK, LabelsOK, LocalsOK, Labels
  <2>4. WorkOK'
    BY <2>1 DEF TypeInv, WorkOK, LabelsOK, LocalsOK, Nodes
  <2>5. QED
    BY <1>2, <1>3, <2>3, <2>4 DEF TypeInv
<1>6. QED
  BY <1>4, <1>5

LEMMA ConfirmsUsageTypes ==
  ASSUME TypeInv, NEW n \in Nodes, ConfirmsUsage(n)
  PROVE  TypeInv'
<1>1. asked[n].id \in Ids /\ pc[n] = "confirm"
  BY DEF ConfirmsUsage, At, TypeInv, WorkOK
<1>2. session[asked[n].id].store \in Stores
  BY <1>1 DEF TypeInv, HubOK, Sessions
<1>3. /\ HubOK' /\ TasksOK' /\ SyncOK' /\ WiresOK' /\ ClientsOK' /\ StoresOK'
      /\ CountersOK'
  BY DEF ConfirmsUsage, TypeInv, HubOK, TasksOK, SyncOK, WiresOK, ClientsOK, StoresOK,
     CountersOK, hubState, tasks, sync, wires, clientState, storeState, counters
<1>4. /\ \/ seen' = [seen EXCEPT ![n] = reserved[session[asked[n].id].store]]
         \/ UNCHANGED seen
      /\ UNCHANGED <<asked, creating, targets, share, ringing>>
      /\ \E label \in {"idle", "renew", "unlist", "choose", "release"} :
           pc' = [pc EXCEPT ![n] = label]
  BY DEF ConfirmsUsage, Goto, Answer, sync
<1>5. LocalsOK' /\ LabelsOK'
  BY <1>2, <1>4 DEF TypeInv, LocalsOK, LabelsOK, HubOK, Labels
<1>6. WorkOK'
  BY <1>1, <1>4 DEF TypeInv, WorkOK, LabelsOK, Nodes
<1>7. QED
  BY <1>3, <1>5, <1>6 DEF TypeInv

LEMMA ReleasesReservedTypes ==
  ASSUME TypeInv, NEW n \in Nodes, ReleasesReserved(n)
  PROVE  TypeInv'
<1>1. asked[n].id \in Ids /\ pc[n] = "release"
  BY DEF ReleasesReserved, At, TypeInv, WorkOK
<1>2. session[asked[n].id] \in Sessions
  BY <1>1 DEF TypeInv, HubOK
<1>3. HubOK'
  <2>1. seen[n] - session[asked[n].id].budget \in Int
    BY <1>2 DEF TypeInv, LocalsOK, Sessions
  <2>2. QED
    BY <1>2, <2>1 DEF ReleasesReserved, TypeInv, HubOK, Sessions
<1>4. /\ TasksOK' /\ LocalsOK' /\ SyncOK' /\ WiresOK' /\ ClientsOK' /\ StoresOK'
      /\ CountersOK'
  BY DEF ReleasesReserved, TypeInv, TasksOK, LocalsOK, SyncOK, WiresOK, ClientsOK,
     StoresOK, CountersOK, tasks, locals, sync, wires, clientState, storeState, counters
<1>5. pc' = [pc EXCEPT ![n] = AfterUsage(n)] /\ AfterUsage(n) \in {"idle", "renew", "unlist", "choose"}
  BY DEF ReleasesReserved, Goto, AfterUsage, Answer
<1>6. LabelsOK'
  BY <1>5 DEF TypeInv, LabelsOK, Labels
<1>7. WorkOK'
  BY <1>5 DEF ReleasesReserved, locals, sync, TypeInv, WorkOK, LabelsOK, Nodes
<1>8. QED
  BY <1>3, <1>4, <1>6, <1>7 DEF TypeInv

LEMMA AskStorageTypes ==
  ASSUME TypeInv, NEW n \in Nodes, AskStorage(n)
  PROVE  TypeInv'
<1>1. /\ fromNode' \in [Nodes -> Seq(Messages)] /\ pc[n] = "idle"
      /\ Head(fromNode[n]) \in Messages
  BY ReadsType DEF AskStorage
<1>2. HubOK' /\ TasksOK' /\ SyncOK' /\ ClientsOK' /\ StoresOK' /\ CountersOK'
  BY DEF AskStorage, TypeInv, HubOK, TasksOK, SyncOK, ClientsOK, StoresOK, CountersOK,
     hubState, tasks, sync, clientState, storeState, counters
<1>3. WiresOK'
  BY <1>1 DEF AskStorage, TypeInv, WiresOK
<1>4. /\ \/ UNCHANGED <<asked, pc>>
         \/ /\ asked' = [asked EXCEPT ![n] = Head(fromNode[n])]
            /\ pc' = [pc EXCEPT ![n] = "choose"]
      /\ UNCHANGED <<creating, targets, share, seen, ringing>>
  BY DEF AskStorage, Goto, sync
<1>5. LabelsOK' /\ LocalsOK'
  BY <1>1, <1>4 DEF TypeInv, LabelsOK, LocalsOK, Labels
<1>6. WorkOK'
  BY <1>1, <1>4 DEF TypeInv, WorkOK, LabelsOK, LocalsOK, Nodes
<1>7. QED
  BY <1>2, <1>3, <1>5, <1>6 DEF TypeInv

LEMMA TaskDoneTypes ==
  ASSUME TypeInv, NEW n \in Clients, TaskDone(n)
  PROVE  TypeInv'
<1>1. fromNode' \in [Nodes -> Seq(Messages)]
  BY ReadsType DEF TaskDone, Nodes
<1>2. /\ HubOK' /\ LabelsOK' /\ LocalsOK' /\ SyncOK' /\ ClientsOK' /\ StoresOK'
      /\ CountersOK' /\ WorkOK'
  BY DEF TaskDone, TypeInv, HubOK, LabelsOK, LocalsOK, SyncOK, ClientsOK, StoresOK,
     CountersOK, WorkOK, hubState, locals, sync, clientState, storeState, counters
<1>3. TasksOK' /\ WiresOK'
  BY <1>1 DEF TaskDone, TypeInv, TasksOK, WiresOK
<1>4. QED
  BY <1>2, <1>3 DEF TypeInv

LEMMA HandleReadyTypes ==
  ASSUME TypeInv, NEW s \in Stores, HandleReady(s)
  PROVE  TypeInv'
<1>1. fromNode' \in [Nodes -> Seq(Messages)] /\ pc[s] = "idle"
  BY ReadsType DEF HandleReady, Nodes
<1>2. /\ HubOK' /\ TasksOK' /\ LocalsOK' /\ ClientsOK' /\ StoresOK' /\ CountersOK'
  BY DEF HandleReady, TypeInv, HubOK, TasksOK, LocalsOK, ClientsOK, StoresOK,
     CountersOK, hubState, tasks, locals, clientState, storeState, counters
<1>3. /\ ringing' = [ringing EXCEPT ![s] = handlers[s]]
      /\ pc' = [pc EXCEPT ![s] = IF handlers[s] > 0 THEN "ring" ELSE "idle"]
      /\ UNCHANGED <<asked, creating>>
  BY DEF HandleReady, Goto, locals
<1>4. LabelsOK' /\ SyncOK' /\ WiresOK'
  BY <1>1, <1>3
  DEF HandleReady, TypeInv, LabelsOK, SyncOK, WiresOK, Labels, Nodes
<1>5. WorkOK'
  BY <1>3 DEF TypeInv, WorkOK, LabelsOK, SyncOK, Nodes
<1>6. QED
  BY <1>2, <1>4, <1>5 DEF TypeInv

LEMMA RingsTypes ==
  ASSUME TypeInv, NEW s \in Stores, Rings(s)
  PROVE  TypeInv'
<1>1. /\ HubOK' /\ TasksOK' /\ LocalsOK' /\ WiresOK' /\ ClientsOK' /\ StoresOK'
      /\ CountersOK'
  BY DEF Rings, TypeInv, HubOK, TasksOK, LocalsOK, WiresOK, ClientsOK, StoresOK,
     CountersOK, hubState, tasks, locals, wires, clientState, storeState, counters
<1>2. /\ ringing[s] \in Nat /\ ringing[s] > 0
      /\ ringing' = [ringing EXCEPT ![s] = ringing[s] - 1]
      /\ pc' = [pc EXCEPT ![s] = IF ringing[s] = 1 THEN "idle" ELSE "ring"]
      /\ UNCHANGED <<asked, creating>>
  BY DEF Rings, At, Goto, LastHandler, TypeInv, WorkOK, SyncOK, locals
<1>3. LabelsOK' /\ SyncOK'
  BY <1>2 DEF Rings, TypeInv, LabelsOK, SyncOK, Labels, Nodes
<1>4. WorkOK'
  BY <1>2 DEF TypeInv, WorkOK, LabelsOK, SyncOK, Nodes
<1>5. QED
  BY <1>1, <1>3, <1>4 DEF TypeInv

\* The hub chooses storage nodes.
LEMMA ElectedTypes ==
  ASSUME TypeInv, NEW p \in Nat \ {0}, NEW eligible \in SUBSET Stores, eligible # {},
         NEW d \in Elected(p, eligible)
  PROVE  d \in Seq(Stores) /\ Len(d) \in Nat /\ Len(d) > 0
<1>1. Cardinality(eligible) \in Nat /\ Cardinality(eligible) > 0
  <2>1. IsFiniteSet(eligible)
    BY Constants, FS_Subset
  <2>2. QED
    BY <2>1, FS_CardinalityType, FS_EmptySet
<1>2. PICK k \in Nat : k > 0 /\ d \in [1..k -> eligible]
  <2> DEFINE k == IF Cardinality(eligible) < p THEN Cardinality(eligible) ELSE p
  <2>1. k \in Nat /\ k > 0
    BY <1>1
  <2>2. d \in [1..k -> eligible]
    BY DEF Elected
  <2>3. QED
    BY <2>1, <2>2
<1>3. d \in [1..k -> Stores]
  BY <1>2
<1>4. QED
  BY <1>2, <1>3

LEMMA RemovesSessionTypes ==
  ASSUME TypeInv, NEW n \in Clients, RemovesSession(n)
  PROVE  TypeInv'
<1> DEFINE i == asked[n].id
<1>1. i \in Ids /\ n \in Nodes
  BY DEF RemovesSession, At, TypeInv, WorkOK, Nodes
<1>2. session[i] \in Sessions /\ session[i].store \in Stores
  BY <1>1 DEF TypeInv, HubOK, Sessions
<1>3. /\ TasksOK' /\ SyncOK' /\ WiresOK' /\ ClientsOK' /\ StoresOK' /\ CountersOK'
  BY DEF RemovesSession, TypeInv, TasksOK, SyncOK, WiresOK, ClientsOK, StoresOK,
     CountersOK, tasks, sync, wires, clientState, storeState, counters
<1>4. HubOK'
  <2>1. session' = [session EXCEPT ![i] = [session[i] EXCEPT !.listed = FALSE]]
        /\ UNCHANGED <<reserved, used, load>>
    BY DEF RemovesSession
  <2>2. [session[i] EXCEPT !.listed = FALSE] \in Sessions
    BY <1>2 DEF Sessions
  <2>3. QED
    BY <2>1, <2>2 DEF TypeInv, HubOK
<1>5. /\ seen' = [seen EXCEPT ![n] = load[session[i].store]]
      /\ UNCHANGED <<asked, creating, targets, share, ringing>>
      /\ pc' = [pc EXCEPT ![n] = "lower"]
  BY DEF RemovesSession, Goto, sync
<1>6. LocalsOK' /\ LabelsOK'
  BY <1>2, <1>5 DEF TypeInv, LocalsOK, LabelsOK, HubOK, Labels
<1>7. WorkOK'
  BY <1>1, <1>5 DEF TypeInv, WorkOK, LabelsOK, Nodes
<1>8. QED
  BY <1>3, <1>4, <1>6, <1>7 DEF TypeInv

\* A thread that writes a load.
LEMMA LoadTypes ==
  ASSUME TypeInv, NEW n \in Nodes, NEW s \in Stores,
         \/ load' = [load EXCEPT ![s] = seen[n] - LoadOf(s)]
         \/ load' = [load EXCEPT ![s] = seen[n] + LoadOf(s)]
  PROVE  load' \in [Stores -> Int]
<1>1. seen[n] - LoadOf(s) \in Int /\ seen[n] + LoadOf(s) \in Int
  <2>1. LoadOf(s) \in {0, 1}
    BY Constants
  <2>2. seen[n] \in Int
    BY DEF TypeInv, LocalsOK
  <2>3. QED
    BY <2>1, <2>2
<1>2. QED
  BY <1>1 DEF TypeInv, HubOK

LEMMA LowersLoadTypes ==
  ASSUME TypeInv, NEW n \in Clients, LowersLoad(n)
  PROVE  TypeInv'
<1> DEFINE s == session[asked[n].id].store
<1>1. asked[n].id \in Ids /\ n \in Nodes
  BY DEF LowersLoad, At, TypeInv, WorkOK, Nodes
<1>2. s \in Stores
  BY <1>1 DEF TypeInv, HubOK, Sessions
<1>3. /\ TasksOK' /\ LocalsOK' /\ SyncOK' /\ WiresOK' /\ ClientsOK' /\ StoresOK'
      /\ CountersOK'
  BY DEF LowersLoad, TypeInv, TasksOK, LocalsOK, SyncOK, WiresOK, ClientsOK, StoresOK,
     CountersOK, tasks, locals, sync, wires, clientState, storeState, counters
<1>4. HubOK'
  <2>1. load' = [load EXCEPT ![s] = seen[n] - LoadOf(s)]
    BY DEF LowersLoad
  <2>2. load' \in [Stores -> Int]
    BY <1>1, <1>2, <2>1, LoadTypes
  <2>3. QED
    BY <2>2 DEF LowersLoad, TypeInv, HubOK
<1>5. pc' = [pc EXCEPT ![n] = "choose"] /\ UNCHANGED <<asked, creating, ringing>>
  BY DEF LowersLoad, Goto, locals, sync
<1>6. LabelsOK'
  BY <1>5 DEF TypeInv, LabelsOK, Labels
<1>7. WorkOK'
  BY <1>5 DEF TypeInv, WorkOK, LabelsOK, Nodes
<1>8. QED
  BY <1>3, <1>4, <1>6, <1>7 DEF TypeInv

LEMMA ChooseStorageTypes ==
  ASSUME TypeInv, NEW n \in Clients, ChooseStorage(n)
  PROVE  TypeInv'
<1>1. /\ HubOK' /\ TasksOK' /\ SyncOK' /\ WiresOK' /\ ClientsOK' /\ StoresOK'
      /\ CountersOK'
  BY DEF ChooseStorage, TypeInv, HubOK, TasksOK, SyncOK, WiresOK, ClientsOK, StoresOK,
     CountersOK, hubState, tasks, sync, wires, clientState, storeState, counters
<1>3. /\ pc' = [pc EXCEPT ![n] = "create"]
      /\ UNCHANGED <<asked, creating, seen, ringing>>
  BY DEF ChooseStorage, Goto, sync
<1>4. ChosenBudget(n) \in Nat /\ ChosenParallelism(n) \in Nat \ {0}
  BY ConstantsAssumption DEF ChosenBudget, ChosenParallelism, TypeInv, TasksOK
<1>5. LocalsOK'
  <2>1. PICK d \in Elected(ChosenParallelism(n), EligibleFor(n)) :
          /\ targets' = [targets EXCEPT ![n] = d]
          /\ share' = [share EXCEPT ![n] = (ChosenBudget(n) \div Len(d)) + 1]
    BY DEF ChooseStorage
  <2>2. EligibleFor(n) \in SUBSET Stores /\ EligibleFor(n) # {}
    BY DEF ChooseStorage, EligibleFor, Eligible
  <2>3. d \in Seq(Stores) /\ Len(d) \in Nat /\ Len(d) > 0
    BY <1>4, <2>2, ElectedTypes
  <2>4. (ChosenBudget(n) \div Len(d)) + 1 \in Nat
    BY <1>4, <2>3
  <2>5. QED
    BY <1>3, <2>1, <2>3, <2>4 DEF TypeInv, LocalsOK
<1>6. LabelsOK'
  BY <1>3 DEF TypeInv, LabelsOK, Labels
<1>7. WorkOK'
  BY <1>3 DEF TypeInv, WorkOK, LabelsOK, Nodes
<1>8. QED
  BY <1>1, <1>5, <1>6, <1>7 DEF TypeInv

LEMMA NoStorageTypes ==
  ASSUME TypeInv, NEW n \in Clients, NoStorage(n)
  PROVE  TypeInv'
<1>1. HubOK' /\ LocalsOK' /\ SyncOK' /\ ClientsOK' /\ StoresOK' /\ CountersOK'
  BY DEF NoStorage, TypeInv, HubOK, LocalsOK, SyncOK, ClientsOK, StoresOK, CountersOK,
     hubState, locals, sync, clientState, storeState, counters
<1>3. /\ pc' = [pc EXCEPT ![n] = "idle"]
      /\ UNCHANGED <<asked, creating, ringing, verified, fromNode>>
  BY DEF NoStorage, Goto, sync, locals
<1>4. TasksOK'
  BY DEF NoStorage, TypeInv, TasksOK
<1>5. toNode' \in [Nodes -> Seq(OrdersOfHub)]
  <2>1. Order("cancel", n, 0, AnyStore, 0, 0) \in OrdersOfHub
    BY Constants, Recorded
  <2>2. n \in Nodes
    BY DEF Nodes
  <2>3. QED
    BY <2>1, <2>2, NodeReceives DEF NoStorage, TypeInv, WiresOK
<1>6. WiresOK' /\ LabelsOK'
  BY <1>3, <1>5 DEF TypeInv, WiresOK, LabelsOK, Labels
<1>7. WorkOK'
  BY <1>3 DEF TypeInv, WorkOK, LabelsOK, Nodes
<1>8. QED
  BY <1>1, <1>4, <1>6, <1>7 DEF TypeInv

\* Only the thread's label changes, to one that asks nothing of its locals or for
\* which they are right.
LEMMA MovesOnTypes ==
  ASSUME TypeInv, NEW n \in Clients, NEW label \in {"idle", "reset", "remove"},
         pc' = [pc EXCEPT ![n] = label],
         label = "reset" => pc[n] = "wait",
         label = "remove" => asked[n].id \in Ids,
         UNCHANGED <<setup, hubState, tasks, locals, sync, wires, clientState, storeState,
                     counters>>
  PROVE  TypeInv'
<1>1. /\ HubOK' /\ TasksOK' /\ LocalsOK' /\ SyncOK' /\ WiresOK' /\ ClientsOK' /\ StoresOK'
      /\ CountersOK'
  BY DEF TypeInv, HubOK, TasksOK, LocalsOK, SyncOK, WiresOK, ClientsOK, StoresOK,
     CountersOK, hubState, tasks, locals, sync, wires, clientState, storeState, counters
<1>2. LabelsOK'
  BY DEF TypeInv, LabelsOK, Labels
<1>3. WorkOK'
  BY DEF TypeInv, WorkOK, LabelsOK, Nodes, locals, sync
<1>4. QED
  BY <1>1, <1>2, <1>3 DEF TypeInv

LEMMA MovesTypes ==
  ASSUME TypeInv, NEW n \in Clients,
         FindsSession(n) \/ ChoiceFails(n) \/ CreatedAll(n) \/ Woken(n)
  PROVE  TypeInv'
<1>1. CASE ChoiceFails(n) \/ CreatedAll(n)
  BY <1>1, MovesOnTypes DEF ChoiceFails, CreatedAll, Goto
<1>2. CASE Woken(n)
  BY <1>2, MovesOnTypes DEF Woken, At, Goto
<1>3. CASE FindsSession(n)
  BY <1>3, MovesOnTypes DEF FindsSession, Goto, Known
<1>4. QED
  BY <1>1, <1>2, <1>3

\* The request is taken for one for an alternate.
LEMMA AlternateTypes ==
  ASSUME TypeInv, NEW n \in Clients,
         asked' = [asked EXCEPT ![n] = [asked[n] EXCEPT !.kind = "alternate"]],
         pc' = [pc EXCEPT ![n] = "unlist"],
         UNCHANGED <<creating, targets, share, seen, ringing>>,
         HubOK', TasksOK', SyncOK', WiresOK', ClientsOK', StoresOK', CountersOK'
  PROVE  TypeInv'
<1>1. n \in Nodes
  BY DEF Nodes
<1>2. [asked[n] EXCEPT !.kind = "alternate"] \in Messages
  BY <1>1 DEF TypeInv, LocalsOK, Messages, Requests
<1>3. LocalsOK' /\ LabelsOK'
  BY <1>1, <1>2 DEF TypeInv, LocalsOK, LabelsOK, Labels
<1>4. WorkOK'
  BY <1>1 DEF TypeInv, WorkOK, LabelsOK, LocalsOK, Nodes
<1>5. QED
  BY <1>3, <1>4 DEF TypeInv

\* The hub creates or renews sessions.
LEMMA RenewStorageSessionTypes ==
  ASSUME TypeInv, NEW n \in Clients, RenewStorageSession(n)
  PROVE  TypeInv'
<1> DEFINE i == asked[n].id
           s == session[i].store
<1>1. /\ TasksOK' /\ SyncOK' /\ WiresOK' /\ ClientsOK' /\ StoresOK' /\ CountersOK'
  BY DEF RenewStorageSession, TypeInv, TasksOK, SyncOK, WiresOK, ClientsOK, StoresOK,
     CountersOK, tasks, sync, wires, clientState, storeState, counters
<1>2. UNCHANGED <<reserved, used, load, targets, share, seen, ringing>>
  BY DEF RenewStorageSession, sync
<1>3. CASE ~Known(i)
  <2>1. pc' = [pc EXCEPT ![n] = "idle"] /\ UNCHANGED <<session, asked, creating>>
    BY <1>3 DEF RenewStorageSession, Goto
  <2>2. HubOK' /\ LocalsOK' /\ LabelsOK'
    BY <1>2, <2>1 DEF TypeInv, HubOK, LocalsOK, LabelsOK, Labels
  <2>3. WorkOK'
    BY <1>2, <2>1 DEF TypeInv, WorkOK, LabelsOK, Nodes
  <2>4. QED
    BY <1>1, <2>2, <2>3 DEF TypeInv
<1>4. CASE Known(i)
  <2>1. i \in Ids /\ session[i] \in Sessions /\ s \in Stores /\ Renewal \in Nat
    BY <1>4, ConstantsAssumption DEF Known, TypeInv, HubOK, Sessions
  <2>2. session' = [session EXCEPT ![i] =
          [session[i] EXCEPT !.budget = Renewal, !.byClient = FALSE, !.byStore = FALSE]]
    BY <1>4 DEF RenewStorageSession
  <2>3. HubOK'
    <3>1. [session[i] EXCEPT !.budget = Renewal, !.byClient = FALSE, !.byStore = FALSE]
            \in Sessions
      BY <2>1 DEF Sessions
    <3>2. QED
      BY <1>2, <2>2, <3>1 DEF TypeInv, HubOK
  <2>4. CASE Room(s) > Renewal
    <3> DEFINE new == [id |-> i, store |-> s, budget |-> Renewal, kind |-> "grant",
                       renews |-> TRUE]
    <3>1. /\ creating' = [creating EXCEPT ![n] = new]
          /\ pc' = [pc EXCEPT ![n] = "send"]
          /\ UNCHANGED asked
      BY <1>4, <2>4 DEF RenewStorageSession, Goto
    <3>2. new \in Creatings /\ new.id = i
      BY <2>1 DEF Creatings
    <3> HIDE DEF new
    <3>3. LocalsOK' /\ LabelsOK'
      BY <1>2, <3>1, <3>2 DEF TypeInv, LocalsOK, LabelsOK, Labels
    <3>4. WorkOK'
      BY <1>2, <2>1, <3>1, <3>2 DEF TypeInv, WorkOK, LabelsOK, LocalsOK, Nodes
    <3>5. QED
      BY <1>1, <2>3, <3>3, <3>4 DEF TypeInv
  <2>5. CASE ~(Room(s) > Renewal)
    <3>1. /\ asked' = [asked EXCEPT ![n] = [asked[n] EXCEPT !.kind = "alternate"]]
          /\ pc' = [pc EXCEPT ![n] = "unlist"]
          /\ UNCHANGED creating
      BY <1>4, <2>5 DEF RenewStorageSession, LooksForAlternate, Goto
    <3>2. QED
      BY <1>1, <1>2, <2>3, <3>1, AlternateTypes
  <2>6. QED
    BY <2>4, <2>5
<1>5. QED
  BY <1>3, <1>4

LEMMA CreateStorageSessionsTypes ==
  ASSUME TypeInv, NEW n \in Clients, CreateStorageSessions(n)
  PROVE  TypeInv'
<1>1. /\ HubOK' /\ TasksOK' /\ SyncOK' /\ WiresOK' /\ ClientsOK' /\ StoresOK'
  BY DEF CreateStorageSessions, TypeInv, HubOK, TasksOK, SyncOK, WiresOK, ClientsOK,
     StoresOK, hubState, tasks, sync, wires, clientState, storeState
<1>2. CountersOK'
  BY DEF CreateStorageSessions, TypeInv, CountersOK
<1> DEFINE new == [id |-> NewId, store |-> Head(targets[n]), budget |-> share[n],
                   kind |-> IF asked[n].kind = "index" THEN "index" ELSE "grant",
                   renews |-> FALSE]
<1>3. /\ creating' = [creating EXCEPT ![n] = new]
      /\ targets' = [targets EXCEPT ![n] = Tail(@)]
      /\ pc' = [pc EXCEPT ![n] = "send"]
      /\ UNCHANGED <<asked, share, seen, ringing>>
  BY DEF CreateStorageSessions, Goto, sync
<1>4. NewId \in Ids
  <2>1. Cardinality(Listed) \in Nat
    BY Constants, FS_Subset, FS_CardinalityType DEF Listed
  <2>2. QED
    BY <2>1, ConstantsAssumption DEF CreateStorageSessions, NewId, Ids
<1>5. Head(targets[n]) \in Stores /\ Tail(targets[n]) \in Seq(Stores)
  <2>1. targets[n] \in Seq(Stores) /\ targets[n] # <<>>
    BY DEF CreateStorageSessions, TypeInv, LocalsOK
  <2>2. QED
    BY <2>1
<1>6. new \in Creatings /\ new.id \in Ids
  BY <1>4, <1>5 DEF Creatings, TypeInv, LocalsOK
<1> HIDE DEF new
<1>7. LocalsOK' /\ LabelsOK'
  BY <1>3, <1>5, <1>6 DEF TypeInv, LocalsOK, LabelsOK, Labels
<1>8. WorkOK'
  BY <1>3, <1>6 DEF TypeInv, WorkOK, LabelsOK, LocalsOK, Nodes
<1>9. QED
  BY <1>1, <1>2, <1>7, <1>8 DEF TypeInv

LEMMA SessionOrderTypes ==
  ASSUME TypeInv, NEW n \in Clients, creating[n].id \in Ids,
         NEW kind \in {"STORE", "grant", "index"}
  PROVE  SessionOrder(n, kind) \in OrdersOfHub
<1> DEFINE handled == IF creating[n].renews THEN session[creating[n].id].handled ELSE 0
<1>1. creating[n] \in Creatings /\ session[creating[n].id] \in Sessions
  BY DEF TypeInv, HubOK, LocalsOK
<1>2. handled \in Nat
  BY <1>1 DEF Sessions
<1>3. /\ creating[n].id \in Ids \cup {0} /\ creating[n].store \in Stores
      /\ creating[n].budget \in Nat /\ creating[n].kind \in {"grant", "index"}
  BY <1>1 DEF Creatings
<1>4. SessionOrder(n, kind) =
        Order(kind, n, creating[n].id, creating[n].store, creating[n].budget, handled)
  BY DEF SessionOrder
<1> HIDE DEF handled
<1>5. QED
  BY <1>2, <1>3, <1>4, Recorded

LEMMA SendsStoreTypes ==
  ASSUME TypeInv, NEW n \in Clients, SendsStore(n)
  PROVE  TypeInv'
<1> DEFINE s == creating[n].store
<1>1. /\ HubOK' /\ TasksOK' /\ LocalsOK' /\ ClientsOK' /\ StoresOK' /\ CountersOK'
  BY DEF SendsStore, TypeInv, HubOK, TasksOK, LocalsOK, ClientsOK, StoresOK,
     CountersOK, hubState, tasks, locals, clientState, storeState, counters
<1>2. creating[n].id \in Ids /\ s \in Stores /\ s \in Nodes
  BY DEF SendsStore, At, TypeInv, WorkOK, LocalsOK, Creatings, Nodes
<1>3. /\ pc' = [pc EXCEPT ![n] = "wait"] /\ pc[n] = "send"
      /\ UNCHANGED <<asked, creating, ringing, verified, fromNode>>
  BY DEF SendsStore, At, Goto, locals
<1>4. WiresOK'
  <2>1. toNode' \in [Nodes -> Seq(OrdersOfHub)]
    BY <1>2, SessionOrderTypes, NodeReceives DEF SendsStore
  <2>2. QED
    BY <1>3, <2>1 DEF TypeInv, WiresOK
<1>5. SyncOK'
  BY <1>2 DEF SendsStore, TypeInv, SyncOK
<1>6. LabelsOK'
  BY <1>3 DEF TypeInv, LabelsOK, Labels
<1>7. WorkOK'
  BY <1>2, <1>3 DEF TypeInv, WorkOK, LabelsOK, Nodes
<1>8. QED
  BY <1>1, <1>4, <1>5, <1>6, <1>7 DEF TypeInv

LEMMA SendRefusedTypes ==
  ASSUME TypeInv, NEW n \in Clients, SendRefused(n)
  PROVE  TypeInv'
<1>1. /\ HubOK' /\ TasksOK' /\ SyncOK' /\ WiresOK' /\ ClientsOK' /\ StoresOK'
      /\ CountersOK'
  BY DEF SendRefused, TypeInv, HubOK, TasksOK, SyncOK, WiresOK, ClientsOK, StoresOK,
     CountersOK, hubState, tasks, sync, wires, clientState, storeState, counters
<1>2. UNCHANGED <<creating, targets, share, seen, ringing>>
  BY DEF SendRefused, sync
<1>3. CASE creating[n].renews
  <2>1. /\ asked' = [asked EXCEPT ![n] = [asked[n] EXCEPT !.kind = "alternate"]]
        /\ pc' = [pc EXCEPT ![n] = "unlist"]
    BY <1>3 DEF SendRefused, LooksForAlternate, Goto
  <2>2. QED
    BY <1>1, <1>2, <2>1, AlternateTypes
<1>4. CASE ~creating[n].renews
  <2>1. pc' = [pc EXCEPT ![n] = "create"] /\ UNCHANGED asked
    BY <1>4 DEF SendRefused, Goto
  <2>2. LocalsOK' /\ LabelsOK'
    BY <1>2, <2>1 DEF TypeInv, LocalsOK, LabelsOK, Labels
  <2>3. WorkOK'
    BY <1>2, <2>1 DEF TypeInv, WorkOK, LabelsOK, Nodes
  <2>4. QED
    BY <1>1, <2>2, <2>3 DEF TypeInv
<1>5. QED
  BY <1>3, <1>4

LEMMA ResetsTypes ==
  ASSUME TypeInv, NEW n \in Clients, Resets(n)
  PROVE  TypeInv'
<1>1. /\ HubOK' /\ TasksOK' /\ LocalsOK' /\ WiresOK' /\ ClientsOK' /\ StoresOK'
      /\ CountersOK'
  BY DEF Resets, TypeInv, HubOK, TasksOK, LocalsOK, WiresOK, ClientsOK, StoresOK,
     CountersOK, hubState, tasks, locals, wires, clientState, storeState, counters
<1>2. /\ pc' = [pc EXCEPT ![n] = "tell"] /\ pc[n] = "reset"
      /\ UNCHANGED <<asked, creating, ringing, handlers>>
      /\ event' = [event EXCEPT ![creating[n].store] = FALSE]
  BY DEF Resets, At, Goto, locals
<1>3. SyncOK' /\ LabelsOK'
  BY <1>2 DEF TypeInv, SyncOK, LabelsOK, Labels
<1>4. WorkOK'
  BY <1>2 DEF TypeInv, WorkOK, LabelsOK, Nodes
<1>5. QED
  BY <1>1, <1>3, <1>4 DEF TypeInv

\* What is lost of a connection.
LEMMA DisconnectsTypes ==
  ASSUME TypeInv, NEW s \in Stores, Disconnects(s)
  PROVE  WiresOK'
<1>1. <<>> \in Seq(Messages) /\ <<>> \in Seq(OrdersOfHub)
  OBVIOUS
<1>2. QED
  BY <1>1 DEF Disconnects, TypeInv, WiresOK

LEMMA WaitTimesOutTypes ==
  ASSUME TypeInv, NEW n \in Clients, WaitTimesOut(n)
  PROVE  TypeInv'
<1>1. /\ HubOK' /\ TasksOK' /\ LocalsOK' /\ SyncOK' /\ ClientsOK' /\ StoresOK'
  BY DEF WaitTimesOut, TypeInv, HubOK, TasksOK, LocalsOK, SyncOK, ClientsOK, StoresOK,
     hubState, tasks, locals, sync, clientState, storeState
<1>2. /\ pc' = [pc EXCEPT ![n] = "tell"] /\ pc[n] = "wait"
      /\ UNCHANGED <<asked, creating, ringing>>
  BY DEF WaitTimesOut, At, Goto, locals, sync
<1>3. creating[n].store \in Stores
  BY DEF TypeInv, LocalsOK, Creatings
<1>4. WiresOK' /\ CountersOK'
  <2>1. CASE creating[n].store \in verified
    <3>1. Faults /\ Disconnects(creating[n].store)
      BY <2>1 DEF WaitTimesOut
    <3>2. QED
      BY <1>3, <3>1, DisconnectsTypes DEF Faults, TypeInv, CountersOK
  <2>2. CASE creating[n].store \notin verified
    BY <2>2 DEF WaitTimesOut, TypeInv, WiresOK, CountersOK, wires, counters
  <2>3. QED
    BY <2>1, <2>2
<1>5. LabelsOK'
  BY <1>2 DEF TypeInv, LabelsOK, Labels
<1>6. WorkOK'
  BY <1>2 DEF TypeInv, WorkOK, LabelsOK, Nodes
<1>7. QED
  BY <1>1, <1>4, <1>5, <1>6 DEF TypeInv

LEMMA TellsClientTypes ==
  ASSUME TypeInv, NEW n \in Clients, TellsClient(n)
  PROVE  TypeInv'
<1>1. /\ HubOK' /\ TasksOK' /\ LocalsOK' /\ SyncOK' /\ ClientsOK' /\ StoresOK'
      /\ CountersOK'
  BY DEF TellsClient, TypeInv, HubOK, TasksOK, LocalsOK, SyncOK, ClientsOK, StoresOK,
     CountersOK, hubState, tasks, locals, sync, clientState, storeState, counters
<1>2. /\ pc' = [pc EXCEPT ![n] = "reserve"] /\ pc[n] = "tell"
      /\ UNCHANGED <<asked, creating, ringing, verified, fromNode>>
  BY DEF TellsClient, At, Goto, locals, sync
<1>3. WiresOK'
  <2>1. creating[n].id \in Ids /\ creating[n].kind \in {"grant", "index"} /\ n \in Nodes
    BY <1>2 DEF TypeInv, WorkOK, LocalsOK, Creatings, Nodes
  <2>2. toNode' \in [Nodes -> Seq(OrdersOfHub)]
    BY <2>1, SessionOrderTypes, NodeReceives DEF TellsClient
  <2>3. QED
    BY <1>2, <2>2 DEF TypeInv, WiresOK
<1>4. LabelsOK'
  BY <1>2 DEF TypeInv, LabelsOK, Labels
<1>5. WorkOK'
  BY <1>2 DEF TypeInv, WorkOK, LabelsOK, Nodes
<1>6. QED
  BY <1>1, <1>3, <1>4, <1>5 DEF TypeInv

LEMMA ReadsReservedTypes ==
  ASSUME TypeInv, NEW n \in Clients, ReadsReserved(n)
  PROVE  TypeInv'
<1>1. creating[n].id \in Ids /\ creating[n].store \in Stores /\ n \in Nodes
  BY DEF ReadsReserved, At, TypeInv, WorkOK, LocalsOK, Creatings, Nodes
<1>2. /\ HubOK' /\ TasksOK' /\ SyncOK' /\ WiresOK' /\ ClientsOK' /\ StoresOK'
      /\ CountersOK'
  BY DEF ReadsReserved, TypeInv, HubOK, TasksOK, SyncOK, WiresOK, ClientsOK, StoresOK,
     CountersOK, hubState, tasks, sync, wires, clientState, storeState, counters
<1>3. /\ seen' = [seen EXCEPT ![n] = reserved[creating[n].store]]
      /\ pc' = [pc EXCEPT ![n] = "book"]
      /\ UNCHANGED <<asked, creating, targets, share, ringing>>
  BY DEF ReadsReserved, Goto, sync
<1>4. LocalsOK' /\ LabelsOK'
  BY <1>1, <1>3 DEF TypeInv, LocalsOK, LabelsOK, HubOK, Labels
<1>5. WorkOK'
  BY <1>1, <1>3 DEF TypeInv, WorkOK, LabelsOK, Nodes
<1>6. QED
  BY <1>2, <1>4, <1>5 DEF TypeInv

LEMMA ReservesTypes ==
  ASSUME TypeInv, NEW n \in Clients, Reserves(n)
  PROVE  TypeInv'
<1>1. creating[n] \in Creatings /\ creating[n].id \in Ids /\ n \in Nodes
  BY DEF Reserves, At, TypeInv, WorkOK, LocalsOK, Nodes
<1>2. /\ TasksOK' /\ LocalsOK' /\ SyncOK' /\ WiresOK' /\ ClientsOK' /\ StoresOK'
      /\ CountersOK'
  BY DEF Reserves, TypeInv, TasksOK, LocalsOK, SyncOK, WiresOK, ClientsOK, StoresOK,
     CountersOK, tasks, locals, sync, wires, clientState, storeState, counters
<1>3. HubOK'
  <2>1. seen[n] + creating[n].budget \in Int
    BY <1>1 DEF TypeInv, LocalsOK, Creatings
  <2>2. QED
    BY <1>1, <2>1 DEF Reserves, TypeInv, HubOK, Creatings
<1>4. pc' = [pc EXCEPT ![n] = "enlist"] /\ UNCHANGED <<asked, creating, ringing>>
  BY DEF Reserves, Goto, locals, sync
<1>5. LabelsOK'
  BY <1>4 DEF TypeInv, LabelsOK, Labels
<1>6. WorkOK'
  BY <1>1, <1>4 DEF TypeInv, WorkOK, LabelsOK, Nodes
<1>7. QED
  BY <1>2, <1>3, <1>5, <1>6 DEF TypeInv

\* The task has one more storage node, or as many as it had.
LEMMA AddsStorageNodeTypes ==
  ASSUME TypeInv, NEW n \in Clients, AddsStorageNode(n) \/ UNCHANGED storageNodes,
         UNCHANGED <<setup, task, queued, sweep>>
  PROVE  TasksOK'
<1>1. creating[n].store \in Stores
  BY DEF TypeInv, LocalsOK, Creatings
<1>2. QED
  BY <1>1 DEF AddsStorageNode, TypeInv, TasksOK

LEMMA ListsSessionTypes ==
  ASSUME TypeInv, NEW n \in Clients, ListsSession(n)
  PROVE  TypeInv'
<1> DEFINE c == creating[n]
<1>1. c \in Creatings /\ c.id \in Ids /\ session[c.id] \in Sessions /\ n \in Nodes
  BY DEF ListsSession, At, TypeInv, WorkOK, LocalsOK, HubOK, Nodes
<1>2. c.store \in Stores /\ c.budget \in Nat
  BY <1>1 DEF Creatings
<1>3. /\ SyncOK' /\ WiresOK' /\ ClientsOK' /\ StoresOK' /\ CountersOK'
  BY DEF ListsSession, TypeInv, SyncOK, WiresOK, ClientsOK, StoresOK, CountersOK,
     sync, wires, clientState, storeState, counters
<1>4. TasksOK'
  BY AddsStorageNodeTypes DEF ListsSession
<1>5. session' \in [Ids -> Sessions]
  <2>1. CASE Known(c.id)
    <3>1. session' = [session EXCEPT ![c.id] =
            [session[c.id] EXCEPT !.budget = c.budget, !.byClient = FALSE,
               !.byStore = FALSE]]
      BY <2>1 DEF ListsSession
    <3>2. [session[c.id] EXCEPT !.budget = c.budget, !.byClient = FALSE, !.byStore = FALSE]
            \in Sessions
      BY <1>1, <1>2 DEF Sessions
    <3>3. QED
      BY <3>1, <3>2 DEF TypeInv, HubOK
  <2>2. CASE ~Known(c.id)
    <3> DEFINE new == IF c.renews THEN [session[c.id] EXCEPT !.listed = TRUE]
                      ELSE [NoSession EXCEPT !.listed = TRUE, !.client = n,
                              !.store = c.store, !.budget = c.budget]
    <3>1. session' = [session EXCEPT ![c.id] = new]
      BY <2>2 DEF ListsSession
    <3>2. new \in Sessions
      BY <1>1, <1>2, Recorded DEF Sessions
    <3> HIDE DEF new
    <3>3. QED
      BY <3>1, <3>2 DEF TypeInv, HubOK
  <2>3. QED
    BY <2>1, <2>2
<1>6. HubOK'
  BY <1>5 DEF ListsSession, TypeInv, HubOK
<1>7. /\ seen' = [seen EXCEPT ![n] = load[c.store]] \/ UNCHANGED seen
      /\ \E label \in {"idle", "create", "raise"} : pc' = [pc EXCEPT ![n] = label]
      /\ UNCHANGED <<asked, creating, targets, share, ringing>>
  BY DEF ListsSession, Created, Goto, sync
<1>8. LocalsOK' /\ LabelsOK'
  BY <1>2, <1>7 DEF TypeInv, LocalsOK, LabelsOK, HubOK, Labels
<1>9. WorkOK'
  BY <1>1, <1>7 DEF TypeInv, WorkOK, LabelsOK, Nodes
<1>10. QED
  BY <1>3, <1>4, <1>6, <1>8, <1>9 DEF TypeInv

LEMMA RaisesLoadTypes ==
  ASSUME TypeInv, NEW n \in Clients, RaisesLoad(n)
  PROVE  TypeInv'
<1> DEFINE s == creating[n].store
<1>1. s \in Stores /\ n \in Nodes
  BY DEF TypeInv, LocalsOK, Creatings, Nodes
<1>2. /\ LocalsOK' /\ SyncOK' /\ WiresOK' /\ ClientsOK' /\ StoresOK' /\ CountersOK'
  BY DEF RaisesLoad, TypeInv, LocalsOK, SyncOK, WiresOK, ClientsOK, StoresOK, CountersOK,
     locals, sync, wires, clientState, storeState, counters
<1>3. TasksOK'
  BY AddsStorageNodeTypes DEF RaisesLoad
<1>4. HubOK'
  <2>1. load' = [load EXCEPT ![s] = seen[n] + LoadOf(s)]
    BY DEF RaisesLoad
  <2>2. load' \in [Stores -> Int]
    BY <1>1, <2>1, LoadTypes
  <2>3. QED
    BY <2>2 DEF RaisesLoad, TypeInv, HubOK
<1>5. /\ \E label \in {"idle", "create"} : pc' = [pc EXCEPT ![n] = label]
      /\ UNCHANGED <<asked, creating, ringing>>
  BY DEF RaisesLoad, Created, Goto, locals, sync
<1>6. LabelsOK'
  BY <1>5 DEF TypeInv, LabelsOK, Labels
<1>7. WorkOK'
  BY <1>5 DEF TypeInv, WorkOK, LabelsOK, Nodes
<1>8. QED
  BY <1>2, <1>3, <1>4, <1>6, <1>7 DEF TypeInv

\* The scheduler, and storage nodes that leave and come back.
LEMMA HandleTaskEventTypes ==
  ASSUME TypeInv, NEW c \in Clients, HandleTaskEvent(c)
  PROVE  TypeInv'
<1>1. /\ HubOK' /\ LabelsOK' /\ LocalsOK' /\ SyncOK' /\ WiresOK' /\ ClientsOK'
      /\ StoresOK' /\ CountersOK' /\ WorkOK'
  BY DEF HandleTaskEvent, TypeInv, HubOK, LabelsOK, LocalsOK, SyncOK, WiresOK, ClientsOK,
     StoresOK, CountersOK, WorkOK, hubState, locals, sync, wires, clientState, storeState,
     counters
<1>2. TasksOK'
  BY DEF HandleTaskEvent, Listed, TypeInv, TasksOK
<1>3. QED
  BY <1>1, <1>2 DEF TypeInv

LEMMA SweepsSessionTypes ==
  ASSUME TypeInv, SweepsSession
  PROVE  TypeInv'
<1>1. /\ LabelsOK' /\ LocalsOK' /\ SyncOK' /\ WiresOK' /\ ClientsOK' /\ StoresOK'
      /\ CountersOK' /\ WorkOK'
  BY DEF SweepsSession, TypeInv, LabelsOK, LocalsOK, SyncOK, WiresOK, ClientsOK, StoresOK,
     CountersOK, WorkOK, locals, sync, wires, clientState, storeState, counters
<1>2. PICK i \in sweep.ids :
        /\ session' = [session EXCEPT ![i].listed = FALSE]
        /\ sweep' = [ids |-> sweep.ids \ {i}, id |-> i, seen |-> load[session[i].store]]
  BY DEF SweepsSession
<1>3. i \in Ids /\ sweep.ids \subseteq Ids
  BY DEF TypeInv, TasksOK
<1>4. session[i] \in Sessions /\ session[i].store \in Stores
  BY <1>3 DEF TypeInv, HubOK, Sessions
<1>5. HubOK'
  <2>1. [session[i] EXCEPT !.listed = FALSE] \in Sessions
    BY <1>4 DEF Sessions
  <2>2. session' = [session EXCEPT ![i] = [session[i] EXCEPT !.listed = FALSE]]
    BY <1>2
  <2>3. QED
    BY <2>1, <2>2 DEF SweepsSession, TypeInv, HubOK
<1>6. TasksOK'
  <2>1. load[session[i].store] \in Int
    BY <1>4 DEF TypeInv, HubOK
  <2>2. sweep' \in [ids : SUBSET Ids, id : Ids \cup {0}, seen : Int]
    BY <1>2, <1>3, <2>1
  <2>3. QED
    BY <2>2 DEF SweepsSession, TypeInv, TasksOK
<1>7. QED
  BY <1>1, <1>5, <1>6 DEF TypeInv

LEMMA SweepsLoadTypes ==
  ASSUME TypeInv, SweepsLoad
  PROVE  TypeInv'
<1> DEFINE s == session[sweep.id].store
<1>1. /\ LabelsOK' /\ LocalsOK' /\ SyncOK' /\ WiresOK' /\ ClientsOK' /\ StoresOK'
      /\ CountersOK' /\ WorkOK'
  BY DEF SweepsLoad, TypeInv, LabelsOK, LocalsOK, SyncOK, WiresOK, ClientsOK, StoresOK,
     CountersOK, WorkOK, locals, sync, wires, clientState, storeState, counters
<1>2. sweep \in [ids : SUBSET Ids, id : Ids \cup {0}, seen : Int] /\ sweep.id \in Ids
  BY DEF SweepsLoad, TypeInv, TasksOK
<1>3. s \in Stores
  BY <1>2 DEF TypeInv, HubOK, Sessions
<1>4. HubOK'
  <2>1. sweep.seen - LoadOf(s) \in Int
    <3>1. LoadOf(s) \in {0, 1}
      BY <1>3, Constants
    <3>2. QED
      BY <1>2, <3>1
  <2>2. QED
    BY <1>3, <2>1 DEF SweepsLoad, TypeInv, HubOK
<1>5. TasksOK'
  <2>1. sweep.ids \in SUBSET Ids
    BY <1>2
  <2>2. [ids |-> sweep.ids, id |-> 0, seen |-> 0]
          \in [ids : SUBSET Ids, id : Ids \cup {0}, seen : Int]
    BY <2>1
  <2>3. QED
    BY <2>1, <2>2 DEF SweepsLoad, TypeInv, TasksOK
<1>6. QED
  BY <1>1, <1>4, <1>5 DEF TypeInv

LEMMA ClearNodeTypes ==
  ASSUME TypeInv, NEW s \in Stores, ClearNode(s)
  PROVE  TypeInv'
<1>1. /\ HubOK' /\ TasksOK' /\ LabelsOK' /\ LocalsOK' /\ SyncOK' /\ ClientsOK' /\ StoresOK'
      /\ WorkOK'
  BY DEF ClearNode, TypeInv, HubOK, TasksOK, LabelsOK, LocalsOK, SyncOK, ClientsOK,
     StoresOK, WorkOK, hubState, tasks, locals, sync, clientState, storeState
<1>2. CountersOK'
  BY DEF ClearNode, Faults, TypeInv, CountersOK
<1>3. WiresOK'
  BY DisconnectsTypes DEF ClearNode
<1>4. QED
  BY <1>1, <1>2, <1>3 DEF TypeInv

LEMMA PutNodeOnlineTypes ==
  ASSUME TypeInv, NEW s \in Stores, PutNodeOnline(s)
  PROVE  TypeInv'
<1>1. /\ TasksOK' /\ LabelsOK' /\ LocalsOK' /\ ClientsOK' /\ StoresOK' /\ CountersOK'
      /\ WorkOK'
  BY DEF PutNodeOnline, TypeInv, TasksOK, LabelsOK, LocalsOK, ClientsOK, StoresOK,
     CountersOK, WorkOK, tasks, locals, clientState, storeState, counters
<1>2. HubOK' /\ SyncOK'
  BY DEF PutNodeOnline, TypeInv, HubOK, SyncOK
<1>3. WiresOK'
  BY DEF PutNodeOnline, TypeInv, WiresOK, Nodes
<1>4. QED
  BY <1>1, <1>2, <1>3 DEF TypeInv

\* The nodes read orders, and the clients use their sessions: what the hub keeps
\* is left alone.
HubLeft ==
  UNCHANGED <<setup, hubState, tasks, pc, locals, sync, verified>>

LEMMA NodeStepTypes ==
  ASSUME TypeInv, HubLeft, ClientsOK', StoresOK', CountersOK',
         fromNode' \in [Nodes -> Seq(Messages)], toNode' \in [Nodes -> Seq(OrdersOfHub)]
  PROVE  TypeInv'
<1>1. HubOK' /\ TasksOK' /\ LabelsOK' /\ LocalsOK' /\ SyncOK'
  BY DEF HubLeft, TypeInv, HubOK, TasksOK, LabelsOK, LocalsOK, SyncOK, hubState, tasks,
     locals, sync
<1>2. WiresOK' /\ WorkOK'
  BY DEF HubLeft, TypeInv, WiresOK, WorkOK, locals, sync
<1>3. QED
  BY <1>1, <1>2 DEF TypeInv

LEMMA AsksHubTypes ==
  ASSUME TypeInv, NEW n \in Clients, NEW kind \in Requests, NEW i \in Ids \cup {0},
         NEW handled \in Nat, SendHub(n, Message(kind, n, i, handled))
  PROVE  fromNode' \in [Nodes -> Seq(Messages)]
<1>1. Message(kind, n, i, handled) \in Messages /\ n \in Nodes
  BY Recorded DEF Nodes
<1>2. QED
  BY <1>1, HubReceives

LEMMA StartStoreSessionTypes ==
  ASSUME TypeInv, NEW s \in Stores, StartStoreSession(s)
  PROVE  TypeInv'
<1> DEFINE o == Head(toNode[s])
           k == <<o.client, o.id>>
<1>1. s \in Nodes
  BY DEF Nodes
<1>2. toNode' \in [Nodes -> Seq(OrdersOfHub)] /\ o \in OrdersOfHub
  BY <1>1, ReceivesType DEF StartStoreSession
<1>3. o.client \in Clients /\ o.id \in Ids \cup {0} /\ o.budget \in Nat
  BY <1>2 DEF OrdersOfHub
<1>4. fromNode' \in [Nodes -> Seq(Messages)]
  <2>1. Message("ready", o.client, o.id, 0) \in Messages
    BY <1>3, Recorded
  <2>2. QED
    BY <1>1, <2>1, HubReceives DEF StartStoreSession
<1>5. StoresOK'
  <2> DEFINE old == receiving[s][k]
             new == IF old.open THEN [old EXCEPT !.budget = @ + o.budget]
                    ELSE [open |-> TRUE, awaited |-> TRUE, budget |-> o.budget, handled |-> 0]
  <2>1. receiving' = [receiving EXCEPT ![s] = [receiving[s] EXCEPT ![k] = new]]
        /\ stored' = stored
    <3>1. receiving' = [receiving EXCEPT ![s] = [receiving[s] EXCEPT ![k] = new]]
      BY DEF StartStoreSession
    <3>2. stored' = stored
      BY DEF StartStoreSession
    <3>3. QED
      BY <3>1, <3>2
  <2>2. receiving[s] \in [Clients \X Ids -> Receivers]
    BY DEF TypeInv, StoresOK
  <2>3. k \in Clients \X Ids => new \in Receivers
    BY <1>3, <2>2 DEF Receivers
  <2> HIDE DEF k, new
  <2>4. [receiving[s] EXCEPT ![k] = new] \in [Clients \X Ids -> Receivers]
    BY <2>2, <2>3
  <2>5. QED
    BY <2>1, <2>4 DEF TypeInv, StoresOK
<1>6. ClientsOK' /\ CountersOK' /\ HubLeft
  BY DEF StartStoreSession, TypeInv, ClientsOK, CountersOK, clientState, counters, HubLeft
<1>7. QED
  BY <1>2, <1>4, <1>5, <1>6, NodeStepTypes

\* What becomes of the two ends of a session.
LEMMA EndsChanged ==
  /\ \A c \in Conns, b, h \in Nat, k \in {"nothing", "data", "after", "index"} :
       /\ [c EXCEPT !.budget = b, !.carries = k] \in Conns
       /\ [c EXCEPT !.budget = b, !.handled = h] \in Conns
       /\ [c EXCEPT !.budget = b, !.handled = h, !.carries = k] \in Conns
  /\ \A r \in Receivers, b, h \in Nat :
       /\ [r EXCEPT !.awaited = FALSE] \in Receivers
       /\ [r EXCEPT !.budget = b] \in Receivers
       /\ [r EXCEPT !.budget = b, !.handled = h] \in Receivers
BY DEF Conns, Receivers

\* What a client reads, and what its connections become.
LEMMA GrantTypes ==
  ASSUME TypeInv, NEW n \in Clients, Receives(n, {"grant", "index"})
  PROVE  /\ toNode' \in [Nodes -> Seq(OrdersOfHub)]
         /\ Grant(n).id \in Ids \cup {0} /\ Grant(n).store \in Stores
         /\ Grant(n).budget \in Nat /\ Grant(n).handled \in Nat
         /\ Carries(n) \in {"nothing", "data", "after", "index"}
<1>1. toNode' \in [Nodes -> Seq(OrdersOfHub)] /\ Grant(n) \in OrdersOfHub
  BY ReceivesType DEF Grant, Nodes
<1>2. QED
  BY <1>1 DEF OrdersOfHub, Carries

LEMMA ConnTypes ==
  ASSUME TypeInv, NEW n \in Clients, NEW i, NEW new, i \in Ids => new \in Conns,
         conn' = [conn EXCEPT ![n] = [conn[n] EXCEPT ![i] = new]]
  PROVE  conn' \in [Clients -> [Ids -> Conns]]
<1>1. conn[n] \in [Ids -> Conns]
  BY DEF TypeInv, ClientsOK
<1>2. [conn[n] EXCEPT ![i] = new] \in [Ids -> Conns]
  BY <1>1
<1>3. QED
  BY <1>2 DEF TypeInv, ClientsOK

LEMMA ReceivingTypes ==
  ASSUME TypeInv, NEW s \in Stores, NEW k, NEW new, k \in Clients \X Ids => new \in Receivers,
         receiving' = [receiving EXCEPT ![s] = [receiving[s] EXCEPT ![k] = new]]
  PROVE  receiving' \in [Stores -> [Clients \X Ids -> Receivers]]
<1>1. receiving[s] \in [Clients \X Ids -> Receivers]
  BY DEF TypeInv, StoresOK
<1>2. [receiving[s] EXCEPT ![k] = new] \in [Clients \X Ids -> Receivers]
  BY <1>1
<1>3. QED
  BY <1>2 DEF TypeInv, StoresOK

LEMMA FeedsTypes ==
  ASSUME TypeInv, NEW n \in Clients, TakesFeed(n) \/ AddsFeed(n) \/ UNCHANGED feeds
  PROVE  feeds' \in [Clients -> Nat]
<1>1. feeds \in [Clients -> Nat] /\ (Carries(n) = "data" => feeds[n] > 0)
  BY DEF TypeInv, ClientsOK, Carries
<1>2. CASE TakesFeed(n)
  <2>1. feeds' = feeds \/ (feeds[n] > 0 /\ feeds' = [feeds EXCEPT ![n] = @ - 1])
    BY <1>1, <1>2 DEF TakesFeed
  <2>2. QED
    BY <1>1, <2>1
<1>3. CASE AddsFeed(n) \/ UNCHANGED feeds
  BY <1>1, <1>3 DEF AddsFeed
<1>4. QED
  BY <1>2, <1>3

LEMMA GrantAnsweredTypes ==
  ASSUME TypeInv, NEW n \in Clients, Receives(n, {"grant", "index"}),
         \/ UNCHANGED fromNode
         \/ SendHub(n, Message("alternate", n, Grant(n).id, Grant(n).handled))
  PROVE  fromNode' \in [Nodes -> Seq(Messages)]
<1>1. CASE UNCHANGED fromNode
  BY <1>1 DEF TypeInv, WiresOK
<1>2. CASE SendHub(n, Message("alternate", n, Grant(n).id, Grant(n).handled))
  BY <1>2, GrantTypes, AsksHubTypes DEF Requests
<1>3. QED
  BY <1>1, <1>2

LEMMA ReusesSessionTypes ==
  ASSUME TypeInv, NEW n \in Clients, ReusesSession(n)
  PROVE  TypeInv'
<1> DEFINE o == Grant(n)
           c == conn[n][o.id]
           new == [c EXCEPT !.budget = @ + o.budget,
                            !.carries = IF JobRuns(n) THEN Carries(n) ELSE @]
<1>1. Receives(n, {"grant", "index"})
  BY DEF ReusesSession
<1>2. /\ toNode' \in [Nodes -> Seq(OrdersOfHub)] /\ o.id \in Ids \cup {0}
      /\ o.budget \in Nat /\ Carries(n) \in {"nothing", "data", "after", "index"}
  BY <1>1, GrantTypes
<1>3. fromNode' \in [Nodes -> Seq(Messages)]
  BY <1>1, GrantAnsweredTypes DEF ReusesSession
<1>4. conn' \in [Clients -> [Ids -> Conns]]
  <2>1. conn' = [conn EXCEPT ![n] = [conn[n] EXCEPT ![o.id] = new]]
    BY DEF ReusesSession, Grant
  <2>2. o.id \in Ids => new \in Conns
    <3>1. SUFFICES ASSUME o.id \in Ids PROVE new \in Conns
      OBVIOUS
    <3>2. c \in Conns
      BY <3>1 DEF TypeInv, ClientsOK
    <3> HIDE DEF c
    <3>3. c.budget + o.budget \in Nat
      BY <1>2, <3>2 DEF Conns
    <3>4. (IF JobRuns(n) THEN Carries(n) ELSE c.carries) \in {"nothing", "data", "after", "index"}
      BY <1>2, <3>2 DEF Conns
    <3>5. QED
      BY <3>2, <3>3, <3>4, EndsChanged
  <2> HIDE DEF new
  <2>3. QED
    BY <2>1, <2>2, ConnTypes
<1>5. ClientsOK'
  BY <1>4, FeedsTypes DEF ReusesSession, TypeInv, ClientsOK
<1>6. StoresOK' /\ CountersOK' /\ HubLeft
  BY DEF ReusesSession, TypeInv, StoresOK, CountersOK, storeState, counters, HubLeft
<1>7. QED
  BY <1>2, <1>3, <1>5, <1>6, NodeStepTypes

LEMMA ConnectsSessionTypes ==
  ASSUME TypeInv, NEW n \in Clients, ConnectsSession(n)
  PROVE  TypeInv'
<1> DEFINE o == Grant(n)
           k == <<n, o.id>>
           newConn == [open |-> TRUE, store |-> o.store, budget |-> o.budget,
                       handled |-> o.handled, carries |-> Carries(n)]
           new == [receiving[o.store][k] EXCEPT !.awaited = FALSE]
<1>1. Receives(n, {"grant", "index"})
  BY DEF ConnectsSession
<1>2. /\ toNode' \in [Nodes -> Seq(OrdersOfHub)] /\ o.id \in Ids \cup {0}
      /\ o.store \in Stores /\ o.budget \in Nat /\ o.handled \in Nat
      /\ Carries(n) \in {"nothing", "data", "after", "index"}
  BY <1>1, GrantTypes
<1>3. fromNode' \in [Nodes -> Seq(Messages)]
  BY <1>1, GrantAnsweredTypes DEF ConnectsSession
<1>4. conn' \in [Clients -> [Ids -> Conns]]
  <2>1. conn' = [conn EXCEPT ![n] = [conn[n] EXCEPT ![o.id] = newConn]]
    BY DEF ConnectsSession
  <2>2. newConn \in Conns
    BY <1>2 DEF Conns
  <2> HIDE DEF newConn
  <2>3. QED
    BY <2>1, <2>2, ConnTypes
<1>5. ClientsOK'
  BY <1>4, FeedsTypes DEF ConnectsSession, TypeInv, ClientsOK
<1>6. StoresOK'
  <2>1. receiving' = [receiving EXCEPT ![o.store] = [receiving[o.store] EXCEPT ![k] = new]]
    BY DEF ConnectsSession
  <2>2. k \in Clients \X Ids => new \in Receivers
    BY <1>2, EndsChanged DEF TypeInv, StoresOK
  <2> HIDE DEF new, k
  <2>3. receiving' \in [Stores -> [Clients \X Ids -> Receivers]]
    BY <1>2, <2>1, <2>2, ReceivingTypes
  <2>4. QED
    BY <2>3 DEF ConnectsSession, TypeInv, StoresOK
<1>7. CountersOK' /\ HubLeft
  BY DEF ConnectsSession, TypeInv, CountersOK, counters, HubLeft
<1>8. QED
  BY <1>2, <1>3, <1>5, <1>6, <1>7, NodeStepTypes

LEMMA ConnectFailsTypes ==
  ASSUME TypeInv, NEW n \in Clients, ConnectFails(n)
  PROVE  TypeInv'
<1>1. Receives(n, {"grant", "index"})
  BY DEF ConnectFails
<1>2. toNode' \in [Nodes -> Seq(OrdersOfHub)] /\ fromNode' \in [Nodes -> Seq(Messages)]
  BY <1>1, GrantTypes, GrantAnsweredTypes DEF ConnectFails
<1>3. ClientsOK' /\ StoresOK' /\ HubLeft
  BY DEF ConnectFails, TypeInv, ClientsOK, StoresOK, clientState, storeState, HubLeft
<1>4. CountersOK'
  <2>1. Faults \/ Breaks \/ UNCHANGED counters
    BY DEF ConnectFails
  <2>2. QED
    BY <2>1 DEF Faults, Breaks, counters, TypeInv, CountersOK
<1>5. QED
  BY <1>2, <1>3, <1>4, NodeStepTypes

LEMMA CancelTaskTypes ==
  ASSUME TypeInv, NEW n \in Clients, CancelTask(n)
  PROVE  TypeInv'
<1>1. toNode' \in [Nodes -> Seq(OrdersOfHub)]
  BY ReceivesType DEF CancelTask, Nodes
<1>2. ClientsOK'
  BY DEF CancelTask, TypeInv, ClientsOK
<1>3. /\ StoresOK' /\ CountersOK' /\ HubLeft
      /\ fromNode' \in [Nodes -> Seq(Messages)]
  BY DEF CancelTask, TypeInv, StoresOK, CountersOK, WiresOK, storeState, counters, HubLeft
<1>4. QED
  BY <1>1, <1>2, <1>3, NodeStepTypes

\* The sessions of a client.
LEMMA OpenTypes ==
  ASSUME TypeInv, NEW n \in Clients, NEW i \in Ids
  PROVE  /\ conn[n][i] \in Conns /\ conn[n][i].store \in Stores
         /\ Receiver(n, i) \in Receivers /\ <<n, i>> \in Clients \X Ids
<1>1. conn[n][i] \in Conns /\ conn[n][i].store \in Stores
  BY DEF TypeInv, ClientsOK, Conns
<1>2. QED
  BY <1>1 DEF TypeInv, StoresOK, Receiver

LEMMA CloseTypes ==
  ASSUME TypeInv, NEW n \in Clients, NEW i \in Ids
  PROVE  /\ CloseConn(n, i) => conn' \in [Clients -> [Ids -> Conns]]
         /\ CloseReceiver(n, i) => receiving' \in [Stores -> [Clients \X Ids -> Receivers]]
<1>1. CloseConn(n, i) => conn' \in [Clients -> [Ids -> Conns]]
  BY Recorded, ConnTypes DEF CloseConn
<1>2. CloseReceiver(n, i) => receiving' \in [Stores -> [Clients \X Ids -> Receivers]]
  BY OpenTypes, Recorded, ReceivingTypes DEF CloseReceiver
<1>3. QED
  BY <1>1, <1>2

LEMMA CarryTypes ==
  ASSUME TypeInv, NEW n \in Clients, NEW i \in Ids, Carry(n, i)
  PROVE  StoresOK' /\ conn[n][i].budget > 0
<1> DEFINE s == conn[n][i].store
           r == Receiver(n, i)
           new == [r EXCEPT !.budget = @ - 1, !.handled = @ + 1]
<1>1. s \in Stores /\ r \in Receivers /\ r.budget > 0
  BY OpenTypes DEF Carry
<1>2. receiving' = [receiving EXCEPT ![s] = [receiving[s] EXCEPT ![<<n, i>>] = new]]
  BY DEF Carry
<1>3. new \in Receivers
  <2>1. r.budget - 1 \in Nat /\ r.handled + 1 \in Nat
    BY <1>1 DEF Receivers
  <2> HIDE DEF r
  <2>2. QED
    BY <1>1, <2>1, EndsChanged
<1>4. stored' \in [Stores -> Nat]
  BY <1>1 DEF Carry, TypeInv, StoresOK
<1> HIDE DEF new
<1>5. QED
  BY <1>1, <1>2, <1>3, <1>4, ReceivingTypes DEF StoresOK, Carry

LEMMA StoreTellsTypes ==
  ASSUME TypeInv, NEW n \in Clients, NEW i \in Ids,
         SendHub(conn[n][i].store, UsageOf(n, i)) \/ SendHub(conn[n][i].store, UsageAfter(n, i))
  PROVE  fromNode' \in [Nodes -> Seq(Messages)]
<1>1. Receiver(n, i).handled \in Nat /\ conn[n][i].store \in Nodes
  BY OpenTypes DEF Receivers, Nodes
<1>2. UsageOf(n, i) \in Messages /\ UsageAfter(n, i) \in Messages
  BY <1>1, Recorded DEF UsageOf, UsageAfter
<1>3. QED
  BY <1>1, <1>2, HubReceives

LEMMA SendsChunkTypes ==
  ASSUME TypeInv, NEW n \in Clients, NEW i \in Ids, SendsChunk(n, i)
  PROVE  TypeInv'
<1> DEFINE c == conn[n][i]
           new == [c EXCEPT !.budget = @ - 1, !.handled = @ + 1]
<1>1. c \in Conns /\ c.budget > 0 /\ StoresOK'
  BY OpenTypes, CarryTypes DEF SendsChunk
<1>2. conn' \in [Clients -> [Ids -> Conns]]
  <2>1. conn' = [conn EXCEPT ![n] = [conn[n] EXCEPT ![i] = new]]
    BY DEF SendsChunk
  <2>2. new \in Conns
    <3>1. c.budget - 1 \in Nat /\ c.handled + 1 \in Nat
      BY <1>1 DEF Conns
    <3> HIDE DEF c
    <3>2. QED
      BY <1>1, <3>1, EndsChanged
  <2> HIDE DEF new
  <2>3. QED
    BY <2>1, <2>2, ConnTypes
<1>3. ClientsOK'
  BY <1>2 DEF SendsChunk, TypeInv, ClientsOK
<1>4. fromNode' \in [Nodes -> Seq(Messages)]
  BY StoreTellsTypes DEF SendsChunk, TypeInv, WiresOK
<1>5. CountersOK' /\ HubLeft /\ toNode' \in [Nodes -> Seq(OrdersOfHub)]
  BY DEF SendsChunk, TypeInv, CountersOK, counters, WiresOK, HubLeft
<1>6. QED
  BY <1>1, <1>3, <1>4, <1>5, NodeStepTypes

LEMMA OutOfBudgetTypes ==
  ASSUME TypeInv, NEW n \in Clients, NEW i \in Ids, OutOfBudget(n, i)
  PROVE  TypeInv'
<1>1. conn[n][i].handled \in Nat
  BY OpenTypes DEF Conns
<1>2. fromNode' \in [Nodes -> Seq(Messages)]
  BY <1>1, AsksHubTypes DEF OutOfBudget, Requests
<1>3. ClientsOK' /\ StoresOK'
  BY CloseTypes, FeedsTypes DEF OutOfBudget, TypeInv, ClientsOK, StoresOK
<1>4. CountersOK' /\ HubLeft /\ toNode' \in [Nodes -> Seq(OrdersOfHub)]
  BY DEF OutOfBudget, TypeInv, CountersOK, counters, WiresOK, HubLeft
<1>5. QED
  BY <1>2, <1>3, <1>4, NodeStepTypes

\* A consumer's task ends, or AfterTask asks for the session's next period.
LEMMA CarriesTypes ==
  ASSUME TypeInv, NEW n \in Clients, NEW i \in Ids, NEW k \in {"nothing", "after"},
         conn' = [conn EXCEPT ![n][i].carries = k]
  PROVE  conn' \in [Clients -> [Ids -> Conns]]
<1> DEFINE new == [conn[n][i] EXCEPT !.carries = k]
<1>1. conn' = [conn EXCEPT ![n] = [conn[n] EXCEPT ![i] = new]]
  OBVIOUS
<1>2. new \in Conns
  <2>1. conn[n][i] \in Conns
    BY OpenTypes
  <2>2. QED
    BY <2>1 DEF Conns
<1> HIDE DEF new
<1>3. QED
  BY <1>1, <1>2, ConnTypes

LEMMA StopsConsumingTypes ==
  ASSUME TypeInv, NEW n \in Clients, NEW i \in Ids, StopsConsuming(n, i)
  PROVE  TypeInv'
<1>1. ClientsOK'
  <2>1. conn' \in [Clients -> [Ids -> Conns]]
    BY CarriesTypes DEF StopsConsuming
  <2>2. feeds' \in [Clients -> Nat]
    BY FeedsTypes DEF StopsConsuming, BudgetExpires, FeedCompletes
  <2>3. QED
    BY <2>1, <2>2 DEF StopsConsuming, TypeInv, ClientsOK
<1>2. StoresOK' /\ CountersOK' /\ HubLeft
  BY DEF StopsConsuming, TypeInv, StoresOK, storeState, CountersOK, counters, wires, HubLeft
<1>3. /\ fromNode' \in [Nodes -> Seq(Messages)]
      /\ toNode' \in [Nodes -> Seq(OrdersOfHub)]
  BY DEF StopsConsuming, TypeInv, WiresOK, wires
<1>4. QED
  BY <1>1, <1>2, <1>3, NodeStepTypes

LEMMA AsksAgainTypes ==
  ASSUME TypeInv, NEW n \in Clients, NEW i \in Ids, AsksAgain(n, i)
  PROVE  TypeInv'
<1>1. conn[n][i].handled \in Nat
  BY OpenTypes DEF Conns
<1>2. fromNode' \in [Nodes -> Seq(Messages)]
  BY <1>1, AsksHubTypes DEF AsksAgain, Requests
<1>3. conn' \in [Clients -> [Ids -> Conns]]
  BY CarriesTypes DEF AsksAgain
<1>4. ClientsOK'
  BY <1>3 DEF AsksAgain, TypeInv, ClientsOK
<1>5. StoresOK' /\ CountersOK' /\ HubLeft /\ toNode' \in [Nodes -> Seq(OrdersOfHub)]
  BY DEF AsksAgain, TypeInv, StoresOK, storeState, CountersOK, counters, WiresOK, HubLeft
<1>6. QED
  BY <1>2, <1>4, <1>5, NodeStepTypes

LEMMA EndsSessionTypes ==
  ASSUME TypeInv, NEW n \in Clients, NEW i \in Ids, EndsSession(n, i)
  PROVE  TypeInv'
<1>1. fromNode' \in [Nodes -> Seq(Messages)]
  BY StoreTellsTypes DEF EndsSession
<1>2. ClientsOK' /\ StoresOK'
  BY CloseTypes DEF EndsSession, TypeInv, ClientsOK, StoresOK
<1>3. CountersOK' /\ HubLeft /\ toNode' \in [Nodes -> Seq(OrdersOfHub)]
  BY DEF EndsSession, TypeInv, CountersOK, counters, WiresOK, HubLeft
<1>4. QED
  BY <1>1, <1>2, <1>3, NodeStepTypes

LEMMA SessionBreaksTypes ==
  ASSUME TypeInv, NEW n \in Clients, NEW i \in Ids, SessionBreaks(n, i)
  PROVE  TypeInv'
<1>1. conn[n][i].handled \in Nat
  BY OpenTypes DEF Conns
<1>2. fromNode' \in [Nodes -> Seq(Messages)]
  BY <1>1, AsksHubTypes DEF SessionBreaks, Requests, TypeInv, WiresOK
<1>3. ClientsOK' /\ StoresOK'
  <2>1. AddsFeed(n) \/ UNCHANGED feeds
    BY DEF SessionBreaks
  <2>2. QED
    BY <2>1, CloseTypes, FeedsTypes DEF SessionBreaks, TypeInv, ClientsOK, StoresOK
<1>4. CountersOK' /\ HubLeft /\ toNode' \in [Nodes -> Seq(OrdersOfHub)]
  BY DEF SessionBreaks, Breaks, Faults, TypeInv, CountersOK, WiresOK, HubLeft
<1>5. QED
  BY <1>2, <1>3, <1>4, NodeStepTypes

LEMMA AsksIndexTypes ==
  ASSUME TypeInv, NEW n \in Clients, AsksIndex(n)
  PROVE  TypeInv'
<1>1. fromNode' \in [Nodes -> Seq(Messages)]
  BY AsksHubTypes DEF AsksIndex, Requests
<1>2. ClientsOK'
  BY DEF AsksIndex, TypeInv, ClientsOK
<1>3. StoresOK' /\ CountersOK' /\ HubLeft /\ toNode' \in [Nodes -> Seq(OrdersOfHub)]
  BY DEF AsksIndex, TypeInv, StoresOK, storeState, CountersOK, counters, WiresOK, HubLeft
<1>4. QED
  BY <1>1, <1>2, <1>3, NodeStepTypes

LEMMA SendsIndexTypes ==
  ASSUME TypeInv, NEW n \in Clients, NEW i \in Ids, SendsIndex(n, i)
  PROVE  TypeInv'
<1> DEFINE c == conn[n][i]
           new == [c EXCEPT !.budget = @ - 1, !.handled = @ + 1, !.carries = "nothing"]
<1>1. c \in Conns /\ c.budget > 0 /\ StoresOK'
  BY OpenTypes, CarryTypes DEF SendsIndex
<1>2. conn' \in [Clients -> [Ids -> Conns]]
  <2>1. conn' = [conn EXCEPT ![n] = [conn[n] EXCEPT ![i] = new]]
    BY DEF SendsIndex
  <2>2. new \in Conns
    <3>1. c.budget - 1 \in Nat /\ c.handled + 1 \in Nat
      BY <1>1 DEF Conns
    <3> HIDE DEF c
    <3>2. QED
      BY <1>1, <3>1, EndsChanged
  <2> HIDE DEF new
  <2>3. QED
    BY <2>1, <2>2, ConnTypes
<1>3. ClientsOK'
  BY <1>2 DEF SendsIndex, TypeInv, ClientsOK
<1>4. fromNode' \in [Nodes -> Seq(Messages)]
  <2>1. Message("done", n, 0, 0) \in Messages /\ n \in Nodes
    BY Recorded DEF Nodes
  <2>2. QED
    BY <2>1, HubReceives DEF SendsIndex
<1>5. CountersOK' /\ HubLeft /\ toNode' \in [Nodes -> Seq(OrdersOfHub)]
  BY DEF SendsIndex, TypeInv, CountersOK, counters, WiresOK, HubLeft
<1>6. QED
  BY <1>1, <1>3, <1>4, <1>5, NodeStepTypes

LEMMA HubThreadTypes ==
  ASSUME TypeInv, NEW n \in Nodes, HubThread(n)
  PROVE  TypeInv'
<1>1. CASE \/ HandleSessionEvent(n) \/ ConfirmsUsage(n) \/ ReleasesReserved(n)
           \/ n \in Stores /\ (HandleReady(n) \/ Rings(n))
  BY <1>1, HandleSessionEventTypes, ConfirmsUsageTypes, ReleasesReservedTypes,
     HandleReadyTypes, RingsTypes
<1>2. CASE n \in Clients /\ Answers(n)
  BY <1>2, AskStorageTypes, TaskDoneTypes, RemovesSessionTypes, LowersLoadTypes,
     ChooseStorageTypes, NoStorageTypes, MovesTypes, RenewStorageSessionTypes,
     CreateStorageSessionsTypes, SendsStoreTypes, SendRefusedTypes, ResetsTypes,
     TellsClientTypes, ReadsReservedTypes, ReservesTypes, ListsSessionTypes, RaisesLoadTypes
  DEF Answers
<1>3. QED
  BY <1>1, <1>2 DEF HubThread

LEMMA NodeReadsTypes ==
  ASSUME TypeInv, NEW n \in Nodes, NodeReads(n)
  PROVE  TypeInv'
BY StartStoreSessionTypes, ReusesSessionTypes, ConnectsSessionTypes, ConnectFailsTypes,
   CancelTaskTypes
DEF NodeReads

LEMMA ConsumesTypes ==
  ASSUME TypeInv, NEW n \in Clients, NEW i \in Ids, Consumes(n, i)
  PROVE  TypeInv'
BY SendsChunkTypes, OutOfBudgetTypes, StopsConsumingTypes, AsksAgainTypes, EndsSessionTypes, SendsIndexTypes
DEF Consumes

LEMMA TypeNext ==
  ASSUME TypeInv, [Next]_vars
  PROVE  TypeInv'
<1>1. CASE Next
  BY <1>1, HubThreadTypes, NodeReadsTypes, WaitTimesOutTypes, HandleTaskEventTypes,
     SweepsSessionTypes, SweepsLoadTypes, AsksIndexTypes, ConsumesTypes,
     SessionBreaksTypes, ClearNodeTypes, PutNodeOnlineTypes
  DEF Next, SchedulerThread
<1>2. CASE UNCHANGED vars
  BY <1>2
  DEF vars, hubState, tasks, locals, sync, wires, clientState, storeState, counters,
      TypeInv, HubOK, TasksOK, LabelsOK, LocalsOK, SyncOK, WiresOK, ClientsOK, StoresOK,
      CountersOK, WorkOK
<1>3. QED
  BY <1>1, <1>2

LEMMA TypeInvCorrect == Spec => []TypeInv
<1>1. QED
  BY TypeInit, TypeNext, PTL DEF Spec

\* Every variable of the hub's storage sessions and of the nodes' ends of them has
\* its type, whatever the clients and the storage nodes: no count becomes negative
\* but those of a storage node, a thread that confirms, creates or renews a session
\* knows one, and each answer calls as many handlers as wait for it.
THEOREM StorageTypes == Spec => []TypeOK
<1>1. QED
  BY TypeInvCorrect, TypeInvTypes, PTL

-----------------------------------------------------------------------------
(* What is never forgotten.                                                *)

\* No node is out of reach before the first failure.
VerifiedOK == faults = 0 => verified = Nodes

\* Failures are counted, ids that were given twice are remembered, and a cancelled
\* task stays cancelled; nodes are lost by failures only.
Kept ==
  /\ faults' = 0 => faults = 0 /\ verified' = verified
  /\ reused => reused'
  /\ \A c \in Clients : task[c] = "Cancelled" => task'[c] = "Cancelled"

LEMMA NothingForgotten ==
  ASSUME TypeInv, VerifiedOK, Next
  PROVE  Kept
<1>1. faults \in Nat /\ task \in [Clients -> {"Started", "Done", "Cancelled"}]
      /\ verified \subseteq Nodes
  BY DEF TypeInv, CountersOK, TasksOK, WiresOK
<1>2. UNCHANGED <<verified, task, faults, reused>> => Kept
  BY DEF Kept
<1>3. Faults /\ UNCHANGED task => Kept
  BY <1>1 DEF Faults, Kept
<1>4. ASSUME NEW n \in Nodes, HubThread(n)
      PROVE  Kept
  <2>1. CASE \/ HandleSessionEvent(n) \/ ConfirmsUsage(n) \/ ReleasesReserved(n)
             \/ HandleReady(n) \/ Rings(n) \/ AskStorage(n) \/ FindsSession(n)
             \/ RemovesSession(n) \/ LowersLoad(n) \/ ChooseStorage(n) \/ ChoiceFails(n)
    BY <1>2, <2>1
    DEF HandleSessionEvent, ConfirmsUsage, ReleasesReserved, HandleReady, Rings, AskStorage,
        FindsSession, RemovesSession, LowersLoad, ChooseStorage, ChoiceFails, counters,
        tasks, wires
  <2>2. CASE \/ RenewStorageSession(n) \/ CreatedAll(n) \/ SendsStore(n) \/ SendRefused(n)
             \/ Woken(n) \/ Resets(n) \/ TellsClient(n) \/ ReadsReserved(n) \/ Reserves(n)
             \/ ListsSession(n) \/ RaisesLoad(n)
    BY <1>2, <2>2
    DEF RenewStorageSession, CreatedAll, SendsStore, SendRefused, Woken, Resets,
        TellsClient, ReadsReserved, Reserves, ListsSession, RaisesLoad, counters, tasks,
        wires
  <2>3. CASE n \in Clients /\ TaskDone(n)
    BY <1>1, <2>3 DEF TaskDone, counters, Kept
  <2>4. CASE n \in Clients /\ NoStorage(n)
    BY <1>1, <2>4 DEF NoStorage, counters, Kept
  <2>5. CASE CreateStorageSessions(n)
    BY <2>5 DEF CreateStorageSessions, tasks, wires, Kept
  <2>6. QED
    BY <1>4, <2>1, <2>2, <2>3, <2>4, <2>5 DEF HubThread, Answers
<1>5. ASSUME NEW n \in Nodes, NodeReads(n)
      PROVE  Kept
  <2>1. CASE StartStoreSession(n) \/ ReusesSession(n) \/ ConnectsSession(n) \/ CancelTask(n)
    BY <1>2, <2>1
    DEF StartStoreSession, ReusesSession, ConnectsSession, CancelTask, tasks, counters
  <2>2. CASE ConnectFails(n)
    <3>1. UNCHANGED <<task, verified>>
      BY <2>2 DEF ConnectFails, tasks
    <3>2. Faults \/ UNCHANGED <<faults, reused>>
      BY <2>2 DEF ConnectFails, Breaks, counters
    <3>3. QED
      BY <1>2, <1>3, <3>1, <3>2
  <2>3. QED
    BY <1>5, <2>1, <2>2 DEF NodeReads
<1>6. ASSUME NEW n \in Clients, WaitTimesOut(n)
      PROVE  Kept
  <2>1. UNCHANGED task /\ (Faults \/ UNCHANGED <<faults, reused, verified>>)
    BY <1>6 DEF WaitTimesOut, tasks, counters, wires
  <2>2. QED
    BY <1>2, <1>3, <2>1
<1>7. ASSUME \/ SweepsSession \/ SweepsLoad
             \/ \E n \in Clients : HandleTaskEvent(n) \/ AsksIndex(n)
      PROVE  Kept
  BY <1>2, <1>7
  DEF SweepsSession, SweepsLoad, HandleTaskEvent, AsksIndex, tasks, counters, wires
<1>8. ASSUME NEW n \in Clients, NEW i \in Ids, Consumes(n, i) \/ SessionBreaks(n, i)
      PROVE  Kept
  <2>1. UNCHANGED <<task, verified>> /\ (Faults \/ UNCHANGED <<faults, reused>>)
    BY <1>8
    DEF Consumes, SendsChunk, OutOfBudget, StopsConsuming, AsksAgain, EndsSession,
        SendsIndex, SessionBreaks, Breaks, tasks, counters, wires
  <2>2. QED
    BY <1>2, <1>3, <2>1
<1>9. ASSUME NEW s \in Stores, ClearNode(s)
      PROVE  Kept
  BY <1>3, <1>9 DEF ClearNode, tasks
<1>10. ASSUME NEW s \in Stores, PutNodeOnline(s)
       PROVE  Kept
  BY <1>1, <1>10 DEF PutNodeOnline, VerifiedOK, tasks, counters, Kept, Nodes
<1>11. QED
  BY <1>4, <1>5, <1>6, <1>7, <1>8, <1>9, <1>10 DEF Next, SchedulerThread

LEMMA VerifiedCorrect == Spec => []VerifiedOK
<1>1. Init => VerifiedOK
  BY DEF Init, VerifiedOK
<1>2. ASSUME TypeInv, VerifiedOK, [Next]_vars
      PROVE  VerifiedOK'
  <2>1. Kept
    <3>1. CASE UNCHANGED vars
      BY <3>1 DEF vars, wires, tasks, counters, Kept
    <3>2. QED
      BY <1>2, <3>1, NothingForgotten
  <2>2. QED
    BY <1>2, <2>1 DEF VerifiedOK, Kept, Nodes
<1>3. QED
  BY TypeInvCorrect, <1>1, <1>2, PTL DEF Spec

-----------------------------------------------------------------------------
(* The answers of the storage nodes.                                       *)

\* No message of a kind is under way, or one that was sent for client c.
None(q, kind) == \A k \in 1..Len(q) : q[k].kind # kind
One(q, kind, c) ==
  \E j \in 1..Len(q) :
    /\ q[j].kind = kind /\ q[j].client = c
    /\ \A k \in 1..Len(q) : k # j => q[k].kind # kind

\* What is appended and what is read.
LEMMA Appended ==
  ASSUME NEW S, NEW q \in Seq(S), NEW m \in S, NEW kind, NEW c
  PROVE  /\ None(q, kind) /\ m.kind # kind => None(Append(q, m), kind)
         /\ One(q, kind, c) /\ m.kind # kind => One(Append(q, m), kind, c)
         /\ None(q, kind) /\ m.kind = kind /\ m.client = c => One(Append(q, m), kind, c)
<1> DEFINE p == Append(q, m)
<1>1. /\ Len(p) = Len(q) + 1 /\ Len(q) \in Nat
      /\ p[Len(q) + 1] = m /\ \A k \in 1..Len(q) : p[k] = q[k]
  OBVIOUS
<1> HIDE DEF p
<1>2. /\ \A k \in 1..Len(p) : k \in 1..Len(q) \/ k = Len(q) + 1
      /\ \A k \in 1..Len(q) : k \in 1..Len(p) /\ k # Len(q) + 1
      /\ Len(q) + 1 \in 1..Len(p)
  BY <1>1
<1>3. None(q, kind) /\ m.kind # kind => None(p, kind)
  BY <1>1, <1>2 DEF None
<1>4. One(q, kind, c) /\ m.kind # kind => One(p, kind, c)
  BY <1>1, <1>2 DEF One
<1>5. None(q, kind) /\ m.kind = kind /\ m.client = c => One(p, kind, c)
  BY <1>1, <1>2 DEF None, One
<1>6. QED
  BY <1>3, <1>4, <1>5 DEF p

LEMMA Removed ==
  ASSUME NEW S, NEW q \in Seq(S), q # <<>>, NEW kind, NEW c
  PROVE  /\ None(q, kind) => Head(q).kind # kind /\ None(Tail(q), kind)
         /\ One(q, kind, c) /\ Head(q).kind # kind => One(Tail(q), kind, c)
         /\ One(q, kind, c) /\ Head(q).kind = kind =>
              Head(q).client = c /\ None(Tail(q), kind)
<1> DEFINE p == Tail(q)
<1>1. /\ Len(q) \in Nat /\ Len(q) > 0 /\ Len(p) = Len(q) - 1
      /\ Head(q) = q[1] /\ \A k \in 1..Len(p) : p[k] = q[k + 1]
  OBVIOUS
<1> HIDE DEF p
<1>2. /\ 1 \in 1..Len(q)
      /\ \A k \in 1..Len(p) : k + 1 \in 1..Len(q) /\ k + 1 # 1
      /\ \A k \in 1..Len(q) : k # 1 => k - 1 \in 1..Len(p) /\ k = (k - 1) + 1
      /\ \A j, k \in Int : j + 1 = k + 1 => j = k
  BY <1>1
<1>3. None(q, kind) => Head(q).kind # kind /\ None(p, kind)
  BY <1>1, <1>2 DEF None
<1>4. ASSUME One(q, kind, c), Head(q).kind # kind
      PROVE  One(p, kind, c)
  <2>1. PICK j \in 1..Len(q) :
          /\ q[j].kind = kind /\ q[j].client = c
          /\ \A k \in 1..Len(q) : k # j => q[k].kind # kind
    BY <1>4 DEF One
  <2>2. j # 1
    BY <1>1, <1>4, <2>1
  <2>3. j - 1 \in 1..Len(p) /\ p[j - 1] = q[j]
    BY <1>1, <1>2, <2>2
  <2>4. \A k \in 1..Len(p) : k # j - 1 => p[k].kind # kind
    BY <1>1, <1>2, <2>1, <2>2
  <2>5. QED
    BY <2>1, <2>3, <2>4 DEF One
<1>5. ASSUME One(q, kind, c), Head(q).kind = kind
      PROVE  Head(q).client = c /\ None(p, kind)
  <2>1. PICK j \in 1..Len(q) :
          /\ q[j].kind = kind /\ q[j].client = c
          /\ \A k \in 1..Len(q) : k # j => q[k].kind # kind
    BY <1>5 DEF One
  <2>2. j = 1
    BY <1>1, <1>2, <1>5, <2>1
  <2>3. QED
    BY <1>1, <1>2, <2>1, <2>2 DEF None
<1>6. QED
  BY <1>3, <1>4, <1>5 DEF p

\* Nothing is asked of a storage node; or it has not read the order to open a session;
\* or the hub has not read its answer; or the handlers are being called; or the event
\* is set.
Quiet(s) ==
  /\ None(toNode[s], "STORE") /\ None(fromNode[s], "ready")
  /\ handlers[s] = 0 /\ pc[s] # "ring" /\ ~event[s]
Ordered(s, c) ==
  /\ One(toNode[s], "STORE", c) /\ None(fromNode[s], "ready")
  /\ handlers[s] = 1 /\ pc[s] # "ring" /\ ~event[s]
Answered(s, c) ==
  /\ None(toNode[s], "STORE") /\ One(fromNode[s], "ready", c)
  /\ handlers[s] = 1 /\ pc[s] # "ring" /\ ~event[s]
Ringing(s) ==
  /\ None(toNode[s], "STORE") /\ None(fromNode[s], "ready")
  /\ handlers[s] = 0 /\ pc[s] = "ring" /\ ringing[s] = 1 /\ ~event[s]
Rung(s) ==
  /\ None(toNode[s], "STORE") /\ None(fromNode[s], "ready")
  /\ handlers[s] = 0 /\ pc[s] # "ring" /\ event[s]

Awaited(s, c) ==
  /\ creating[c].store = s
  /\ \/ pc[c] = "wait" /\ (Ordered(s, c) \/ Answered(s, c) \/ Ringing(s) \/ Rung(s))
     \/ pc[c] = "reset" /\ Rung(s)
Settled(s) == Quiet(s) \/ \E c \in Clients : Awaited(s, c)
AnswersOK == faults = 0 => \A s \in Stores : Settled(s)

\* No two requests wait for the same storage node.
Apart ==
  \A c, d \in Clients :
    pc[c] \in {"wait", "reset"} /\ pc[d] \in {"wait", "reset"}
      /\ creating[c].store = creating[d].store => c = d

\* A step that sends and reads nothing of the kind.
Passes(q, p, kind) ==
  \/ p = q
  \/ \E m \in Messages \cup OrdersOfHub : m.kind # kind /\ p = Append(q, m)
  \/ q # <<>> /\ Head(q).kind # kind /\ p = Tail(q)

LEMMA Passed ==
  ASSUME NEW q, NEW p, NEW kind, NEW c, Passes(q, p, kind),
         q \in Seq(Messages) \/ q \in Seq(OrdersOfHub)
  PROVE  /\ None(q, kind) => None(p, kind)
         /\ One(q, kind, c) => One(p, kind, c)
<1> DEFINE S == Messages \cup OrdersOfHub
<1>1. q \in Seq(S)
  OBVIOUS
<1>2. CASE p = q
  BY <1>2
<1> HIDE DEF S
<1>3. CASE \E m \in S : m.kind # kind /\ p = Append(q, m)
  BY <1>1, <1>3, Appended
<1>4. CASE q # <<>> /\ Head(q).kind # kind /\ p = Tail(q)
  BY <1>1, <1>4, Removed
<1>5. QED
  BY <1>2, <1>3, <1>4 DEF Passes, S

\* A step that has nothing to do with the answer of storage node s.
Unconcerned(s) ==
  /\ Passes(toNode[s], toNode'[s], "STORE") /\ Passes(fromNode[s], fromNode'[s], "ready")
  /\ handlers'[s] = handlers[s] /\ ringing'[s] = ringing[s] /\ event'[s] = event[s]
  /\ pc'[s] = "ring" <=> pc[s] = "ring"
  /\ \A c \in Clients : pc[c] \in {"wait", "reset"} /\ creating[c].store = s =>
       pc'[c] = pc[c] /\ creating'[c] = creating[c]

LEMMA StaysSettled ==
  ASSUME TypeInv, NEW s \in Stores, Unconcerned(s), Settled(s)
  PROVE  Settled(s)'
<1>1. toNode[s] \in Seq(OrdersOfHub) /\ fromNode[s] \in Seq(Messages)
  BY DEF TypeInv, WiresOK, Nodes
<1>2. /\ None(toNode[s], "STORE") => None(toNode'[s], "STORE")
      /\ None(fromNode[s], "ready") => None(fromNode'[s], "ready")
      /\ \A c : /\ One(toNode[s], "STORE", c) => One(toNode'[s], "STORE", c)
                /\ One(fromNode[s], "ready", c) => One(fromNode'[s], "ready", c)
  BY <1>1, Passed DEF Unconcerned
<1>3. Quiet(s) => Quiet(s)'
  BY <1>2 DEF Quiet, Unconcerned
<1>4. ASSUME NEW c \in Clients, Awaited(s, c)
      PROVE  Awaited(s, c)'
  <2>1. pc'[c] = pc[c] /\ creating'[c] = creating[c]
    BY <1>4 DEF Awaited, Unconcerned
  <2>2. /\ Ordered(s, c) => Ordered(s, c)'
        /\ Answered(s, c) => Answered(s, c)'
        /\ Ringing(s) => Ringing(s)'
        /\ Rung(s) => Rung(s)'
    BY <1>2 DEF Ordered, Answered, Ringing, Rung, Unconcerned
  <2>3. QED
    BY <1>4, <2>1, <2>2 DEF Awaited
<1>5. QED
  BY <1>3, <1>4 DEF Settled

\* Steps that have nothing to do with any answer.
LEMMA MessagesPass ==
  ASSUME TypeInv
  PROVE  /\ \A n \in Nodes : \A kinds : Reads(n, kinds) /\ "ready" \notin kinds =>
              \A s \in Stores : Passes(fromNode[s], fromNode'[s], "ready")
         /\ \A n \in Nodes : \A kinds : Receives(n, kinds) /\ "STORE" \notin kinds =>
              \A s \in Stores : Passes(toNode[s], toNode'[s], "STORE")
         /\ \A n \in Nodes, m \in Messages : SendHub(n, m) /\ m.kind # "ready" =>
              \A s \in Stores : Passes(fromNode[s], fromNode'[s], "ready")
         /\ \A n \in Nodes, o \in OrdersOfHub : SendNode(n, o) /\ o.kind # "STORE" =>
              \A s \in Stores : Passes(toNode[s], toNode'[s], "STORE")
         /\ UNCHANGED fromNode =>
              \A s \in Stores : Passes(fromNode[s], fromNode'[s], "ready")
         /\ UNCHANGED toNode =>
              \A s \in Stores : Passes(toNode[s], toNode'[s], "STORE")
<1>1. /\ fromNode \in [Nodes -> Seq(Messages)] /\ toNode \in [Nodes -> Seq(OrdersOfHub)]
      /\ \A s \in Stores : s \in Nodes
  BY DEF TypeInv, WiresOK, Nodes
<1>2. ASSUME NEW n \in Nodes, NEW kinds, Reads(n, kinds), "ready" \notin kinds, NEW s \in Stores
      PROVE  Passes(fromNode[s], fromNode'[s], "ready")
  BY <1>1, <1>2 DEF Reads, Passes
<1>3. ASSUME NEW n \in Nodes, NEW kinds, Receives(n, kinds), "STORE" \notin kinds,
             NEW s \in Stores
      PROVE  Passes(toNode[s], toNode'[s], "STORE")
  BY <1>1, <1>3 DEF Receives, Passes
<1>4. ASSUME NEW n \in Nodes, NEW m \in Messages, SendHub(n, m), m.kind # "ready",
             NEW s \in Stores
      PROVE  Passes(fromNode[s], fromNode'[s], "ready")
  BY <1>1, <1>4 DEF SendHub, Passes
<1>5. ASSUME NEW n \in Nodes, NEW o \in OrdersOfHub, SendNode(n, o), o.kind # "STORE",
             NEW s \in Stores
      PROVE  Passes(toNode[s], toNode'[s], "STORE")
  BY <1>1, <1>5 DEF SendNode, Passes
<1>6. /\ UNCHANGED fromNode => \A s \in Stores : Passes(fromNode[s], fromNode'[s], "ready")
      /\ UNCHANGED toNode => \A s \in Stores : Passes(toNode[s], toNode'[s], "STORE")
  BY DEF Passes
<1>7. QED
  BY <1>2, <1>3, <1>4, <1>5, <1>6

\* The thread of n goes on, none of its labels being one of those that count here.
LEMMA ThreadUnconcerned ==
  ASSUME TypeInv, NEW n \in Nodes, UNCHANGED sync,
         \A s \in Stores : Passes(toNode[s], toNode'[s], "STORE"),
         \A s \in Stores : Passes(fromNode[s], fromNode'[s], "ready"),
         \/ UNCHANGED <<pc, creating>>
         \/ /\ pc[n] \notin {"wait", "reset", "ring"}
            /\ \E label \in Labels \ {"wait", "reset", "ring"} :
                 pc' = [pc EXCEPT ![n] = label]
            /\ \A c \in Clients : c # n => creating'[c] = creating[c]
  PROVE  \A s \in Stores : Unconcerned(s)
<1>1. pc \in [Nodes -> Labels] /\ (\A s \in Stores : s \in Nodes)
      /\ (\A c \in Clients : c \in Nodes)
  BY DEF TypeInv, LabelsOK, Nodes
<1>2. ASSUME NEW s \in Stores
      PROVE  Unconcerned(s)
  <2>1. handlers'[s] = handlers[s] /\ ringing'[s] = ringing[s] /\ event'[s] = event[s]
    BY DEF sync
  <2>2. pc'[s] = "ring" <=> pc[s] = "ring"
    BY <1>1
  <2>3. ASSUME NEW c \in Clients, pc[c] \in {"wait", "reset"}
        PROVE  pc'[c] = pc[c] /\ creating'[c] = creating[c]
    <3>1. CASE c = n
      BY <2>3, <3>1
    <3>2. CASE c # n
      BY <1>1, <3>2
    <3>3. QED
      BY <3>1, <3>2
  <2>4. QED
    BY <2>1, <2>2, <2>3 DEF Unconcerned
<1>3. QED
  BY <1>2

LEMMA HubUnconcerned ==
  ASSUME TypeInv, NEW n \in Nodes,
         \/ HandleSessionEvent(n) \/ ConfirmsUsage(n) \/ ReleasesReserved(n)
         \/ n \in Clients /\ (\/ AskStorage(n) \/ TaskDone(n) \/ FindsSession(n)
                              \/ RemovesSession(n) \/ LowersLoad(n) \/ ChooseStorage(n)
                              \/ NoStorage(n) \/ ChoiceFails(n) \/ RenewStorageSession(n)
                              \/ CreateStorageSessions(n) \/ CreatedAll(n) \/ SendRefused(n)
                              \/ TellsClient(n) \/ ReadsReserved(n) \/ Reserves(n)
                              \/ ListsSession(n) \/ RaisesLoad(n))
  PROVE  \A s \in Stores : Unconcerned(s)
<1> DEFINE Goes == /\ pc[n] \notin {"wait", "reset", "ring"}
                   /\ \E label \in Labels \ {"wait", "reset", "ring"} :
                        pc' = [pc EXCEPT ![n] = label]
                   /\ \A c \in Clients : c # n => creating'[c] = creating[c]
<1>1. creating \in [Clients -> Creatings]
  BY DEF TypeInv, LocalsOK
<1>2. CASE HandleSessionEvent(n) \/ AskStorage(n) \/ TaskDone(n)
  <2>1. PICK kinds : Reads(n, kinds) /\ "ready" \notin kinds
    BY <1>2 DEF HandleSessionEvent, AskStorage, TaskDone
  <2>2. UNCHANGED <<sync, toNode, creating>>
    BY <1>2 DEF HandleSessionEvent, AskStorage, TaskDone, locals
  <2>3. UNCHANGED <<pc, creating>> \/ Goes
    <3>1. pc[n] = "idle"
      BY <2>1 DEF Reads, At
    <3>2. \/ pc' = pc \/ pc' = [pc EXCEPT ![n] = "confirm"]
          \/ pc' = [pc EXCEPT ![n] = "choose"]
      BY <1>2 DEF HandleSessionEvent, AskStorage, TaskDone, Goto
    <3>3. QED
      BY <2>2, <3>1, <3>2 DEF Labels
  <2>4. QED
    BY <2>1, <2>2, <2>3, MessagesPass, ThreadUnconcerned
<1>3. CASE \/ ConfirmsUsage(n) \/ ReleasesReserved(n) \/ FindsSession(n)
           \/ RemovesSession(n) \/ LowersLoad(n) \/ ChooseStorage(n) \/ ChoiceFails(n)
           \/ CreatedAll(n) \/ SendRefused(n) \/ ReadsReserved(n) \/ Reserves(n)
           \/ ListsSession(n) \/ RaisesLoad(n)
  <2>1. UNCHANGED <<sync, toNode, fromNode, creating>>
    BY <1>3
    DEF ConfirmsUsage, ReleasesReserved, FindsSession, RemovesSession, LowersLoad,
        ChooseStorage, ChoiceFails, CreatedAll, SendRefused, ReadsReserved, Reserves,
        ListsSession, RaisesLoad, locals, wires
  <2>2. pc[n] \in {"confirm", "release", "unlist", "remove", "lower", "choose", "create",
                   "send", "reserve", "book", "enlist", "raise"}
    BY <1>3
    DEF ConfirmsUsage, ReleasesReserved, FindsSession, RemovesSession, LowersLoad,
        ChooseStorage, ChoiceFails, CreatedAll, SendRefused, ReadsReserved, Reserves,
        ListsSession, RaisesLoad, At
  <2>3. \E label \in {"idle", "release", "renew", "unlist", "remove", "lower", "choose",
                      "create", "book", "enlist", "raise"} : pc' = [pc EXCEPT ![n] = label]
    <3>1. CASE ConfirmsUsage(n) \/ ReleasesReserved(n)
      BY <3>1 DEF ConfirmsUsage, ReleasesReserved, AfterUsage, Answer, Goto
    <3>2. CASE \/ FindsSession(n) \/ RemovesSession(n) \/ LowersLoad(n) \/ ChooseStorage(n)
               \/ ChoiceFails(n)
      BY <3>2 DEF FindsSession, RemovesSession, LowersLoad, ChooseStorage, ChoiceFails, Goto
    <3>3. CASE CreatedAll(n) \/ SendRefused(n) \/ ReadsReserved(n) \/ Reserves(n)
      BY <3>3 DEF CreatedAll, SendRefused, ReadsReserved, Reserves, LooksForAlternate, Goto
    <3>4. CASE ListsSession(n) \/ RaisesLoad(n)
      BY <3>4 DEF ListsSession, RaisesLoad, Created, Goto
    <3>5. QED
      BY <1>3, <3>1, <3>2, <3>3, <3>4
  <2>4. Goes
    BY <2>1, <2>2, <2>3 DEF Labels
  <2>5. QED
    BY <2>1, <2>4, MessagesPass, ThreadUnconcerned
<1>4. CASE n \in Clients /\ NoStorage(n)
  <2>1. UNCHANGED <<sync, fromNode, creating>>
    BY <1>4 DEF NoStorage, locals
  <2>2. Goes
    BY <1>4, <2>1 DEF NoStorage, At, Goto, Labels
  <2>3. \A s \in Stores : Passes(toNode[s], toNode'[s], "STORE")
    <3> DEFINE o == Order("cancel", n, 0, AnyStore, 0, 0)
    <3>1. o \in OrdersOfHub /\ o.kind # "STORE"
      BY <1>4, Constants, Recorded DEF Order
    <3>2. UNCHANGED toNode \/ SendNode(n, o)
      BY <1>4 DEF NoStorage
    <3> HIDE DEF o
    <3>3. QED
      BY <3>1, <3>2, MessagesPass
  <2>4. QED
    BY <2>1, <2>2, <2>3, MessagesPass, ThreadUnconcerned
<1>5. CASE n \in Clients /\ (RenewStorageSession(n) \/ CreateStorageSessions(n))
  <2>1. UNCHANGED <<sync, fromNode, toNode>>
    BY <1>5 DEF RenewStorageSession, CreateStorageSessions, wires
  <2>2. pc[n] \in {"renew", "create"}
    BY <1>5 DEF RenewStorageSession, CreateStorageSessions, At
  <2>3. \E label \in {"idle", "send", "unlist"} : pc' = [pc EXCEPT ![n] = label]
    BY <1>5 DEF RenewStorageSession, CreateStorageSessions, LooksForAlternate, Goto
  <2>4. \A c \in Clients : c # n => creating'[c] = creating[c]
    BY <1>1, <1>5 DEF RenewStorageSession, CreateStorageSessions
  <2>5. Goes
    BY <2>2, <2>3, <2>4 DEF Labels
  <2>6. QED
    BY <2>1, <2>5, MessagesPass, ThreadUnconcerned
<1>6. CASE n \in Clients /\ TellsClient(n)
  <2>1. UNCHANGED <<sync, fromNode, creating>>
    BY <1>6 DEF TellsClient, locals
  <2>2. Goes
    BY <1>6, <2>1 DEF TellsClient, At, Goto, Labels
  <2>3. \A s \in Stores : Passes(toNode[s], toNode'[s], "STORE")
    <3> DEFINE o == SessionOrder(n, creating[n].kind)
    <3>1. creating[n].id \in Ids /\ creating[n].kind \in {"grant", "index"}
      BY <1>1, <1>6 DEF TellsClient, At, TypeInv, WorkOK, Creatings
    <3>2. o \in OrdersOfHub /\ o.kind # "STORE"
      BY <1>6, <3>1, SessionOrderTypes DEF SessionOrder, Order
    <3>3. SendNode(n, o)
      BY <1>6 DEF TellsClient
    <3> HIDE DEF o
    <3>4. QED
      BY <3>2, <3>3, MessagesPass
  <2>4. QED
    BY <2>1, <2>2, <2>3, MessagesPass, ThreadUnconcerned
<1>7. QED
  BY <1>2, <1>3, <1>4, <1>5, <1>6

\* What the nodes do but for the answer to STORE.
LEMMA NodesUnconcerned ==
  ASSUME TypeInv, UNCHANGED <<pc, creating, sync>>,
         \A s \in Stores : Passes(toNode[s], toNode'[s], "STORE"),
         \A s \in Stores : Passes(fromNode[s], fromNode'[s], "ready")
  PROVE  \A s \in Stores : Unconcerned(s)
BY DEF Unconcerned, sync

LEMMA SchedulerUnconcerned ==
  ASSUME TypeInv, SchedulerThread
  PROVE  \A s \in Stores : Unconcerned(s)
BY MessagesPass, NodesUnconcerned
DEF SchedulerThread, SweepsSession, SweepsLoad, HandleTaskEvent, locals, wires

LEMMA ClientUnconcerned ==
  ASSUME TypeInv, NEW n \in Clients,
         \/ ReusesSession(n) \/ ConnectsSession(n) \/ ConnectFails(n) \/ CancelTask(n)
         \/ AsksIndex(n)
         \/ \E i \in Ids : Consumes(n, i) \/ SessionBreaks(n, i)
  PROVE  \A s \in Stores : Unconcerned(s)
<1>1. n \in Nodes /\ \A s \in Stores : s \in Nodes
  BY DEF Nodes
<1>2. CASE ReusesSession(n) \/ ConnectsSession(n) \/ ConnectFails(n)
  <2>1. UNCHANGED <<pc, creating, sync>> /\ Receives(n, {"grant", "index"})
    BY <1>2 DEF ReusesSession, ConnectsSession, ConnectFails, locals
  <2> DEFINE m == Message("alternate", n, Grant(n).id, Grant(n).handled)
  <2>2. m \in Messages /\ m.kind # "ready"
    BY <2>1, GrantTypes, Recorded DEF Message, Requests
  <2>3. UNCHANGED fromNode \/ SendHub(n, m)
    BY <1>2 DEF ReusesSession, ConnectsSession, ConnectFails
  <2> HIDE DEF m
  <2>4. QED
    BY <1>1, <2>1, <2>2, <2>3, MessagesPass, NodesUnconcerned
<1>3. CASE CancelTask(n)
  <2>1. UNCHANGED <<pc, creating, sync, fromNode>> /\ Receives(n, {"cancel"})
    BY <1>3 DEF CancelTask, locals
  <2>2. QED
    BY <1>1, <2>1, MessagesPass, NodesUnconcerned
<1>4. CASE AsksIndex(n)
  <2>1. UNCHANGED <<pc, creating, sync, toNode>> /\ SendHub(n, Message("index", n, 0, 0))
    BY <1>4 DEF AsksIndex, locals
  <2>2. Message("index", n, 0, 0) \in Messages /\ Message("index", n, 0, 0).kind # "ready"
    BY Recorded DEF Message, Requests
  <2>3. QED
    BY <1>1, <2>1, <2>2, MessagesPass, NodesUnconcerned
<1>5. ASSUME NEW i \in Ids, Consumes(n, i) \/ SessionBreaks(n, i)
      PROVE  \A s \in Stores : Unconcerned(s)
  <2>1. UNCHANGED <<pc, creating, sync, toNode>>
    BY <1>5
    DEF Consumes, SendsChunk, OutOfBudget, StopsConsuming, AsksAgain, EndsSession,
        SendsIndex, SessionBreaks, locals, wires
  <2>2. /\ conn[n][i].handled \in Nat /\ Receiver(n, i).handled \in Nat
        /\ conn[n][i].store \in Nodes
    BY <1>1, OpenTypes DEF Conns, Receivers
  <2>3. \/ UNCHANGED fromNode
        \/ \E o \in Nodes, k \in Requests \cup {"usage", "done"}, j \in Ids \cup {0}, h \in Nat :
             SendHub(o, Message(k, n, j, h))
    <3>1. CASE SendsChunk(n, i) \/ EndsSession(n, i)
      <4>1. \/ UNCHANGED fromNode
            \/ SendHub(conn[n][i].store, Message("usage", n, i, Receiver(n, i).handled))
            \/ SendHub(conn[n][i].store, Message("usage", n, i, Receiver(n, i).handled + 1))
        BY <3>1 DEF SendsChunk, EndsSession, UsageOf, UsageAfter
      <4>2. Receiver(n, i).handled + 1 \in Nat
        BY <2>2
      <4>3. QED
        BY <2>2, <4>1, <4>2
    <3>2. CASE \/ OutOfBudget(n, i) \/ StopsConsuming(n, i) \/ AsksAgain(n, i)
               \/ SessionBreaks(n, i)
      <4>1. \/ UNCHANGED fromNode
            \/ \E k \in {"alternate", "renewal"} :
                 SendHub(n, Message(k, n, i, conn[n][i].handled))
        BY <3>2 DEF OutOfBudget, StopsConsuming, AsksAgain, SessionBreaks, wires
      <4>2. QED
        BY <1>1, <2>2, <4>1 DEF Requests
    <3>3. CASE SendsIndex(n, i)
      BY <1>1, <3>3 DEF SendsIndex
    <3>4. QED
      BY <1>5, <3>1, <3>2, <3>3 DEF Consumes
  <2>4. \A s \in Stores : Passes(fromNode[s], fromNode'[s], "ready")
    <3>1. CASE UNCHANGED fromNode
      BY <3>1, MessagesPass
    <3>2. ASSUME NEW o \in Nodes, NEW k \in Requests \cup {"usage", "done"},
                 NEW j \in Ids \cup {0}, NEW h \in Nat, SendHub(o, Message(k, n, j, h))
          PROVE  \A s \in Stores : Passes(fromNode[s], fromNode'[s], "ready")
      <4>1. Message(k, n, j, h) \in Messages /\ Message(k, n, j, h).kind # "ready"
        BY Recorded DEF Message, Requests
      <4>2. QED
        BY <3>2, <4>1, MessagesPass
    <3>3. QED
      BY <2>3, <3>1, <3>2
  <2>5. QED
    BY <2>1, <2>4, MessagesPass, NodesUnconcerned
<1>6. QED
  BY <1>2, <1>3, <1>4, <1>5

\* A step that concerns the answer of one storage node leaves the others alone.
LEMMA OthersUnconcerned ==
  ASSUME TypeInv, NEW n \in Nodes, NEW s \in Stores,
         UNCHANGED creating,
         \E label \in Labels : pc' = [pc EXCEPT ![n] = label],
         pc[n] \in {"wait", "reset"} => n \in Clients /\ creating[n].store = s,
         pc[n] = "ring" \/ pc'[n] = "ring" => n = s,
         \A t \in Stores : t # s =>
           /\ Passes(toNode[t], toNode'[t], "STORE") /\ Passes(fromNode[t], fromNode'[t], "ready")
           /\ handlers'[t] = handlers[t] /\ ringing'[t] = ringing[t] /\ event'[t] = event[t]
  PROVE  \A t \in Stores : t # s => Unconcerned(t)
<1>1. pc \in [Nodes -> Labels] /\ (\A t \in Stores : t \in Nodes)
      /\ (\A c \in Clients : c \in Nodes)
  BY DEF TypeInv, LabelsOK, Nodes
<1>2. ASSUME NEW t \in Stores, t # s
      PROVE  Unconcerned(t)
  <2>1. pc'[t] = "ring" <=> pc[t] = "ring"
    BY <1>1, <1>2
  <2>2. ASSUME NEW c \in Clients, pc[c] \in {"wait", "reset"}, creating[c].store = t
        PROVE  pc'[c] = pc[c] /\ creating'[c] = creating[c]
    BY <1>1, <1>2, <2>2
  <2>3. QED
    BY <1>2, <2>1, <2>2 DEF Unconcerned
<1>3. QED
  BY <1>2

\* The order to open or renew a session goes to the storage node, which has nothing
\* else to answer.
LEMMA SendsStoreSettles ==
  ASSUME TypeInv, Apart', NEW n \in Clients, SendsStore(n), \A s \in Stores : Settled(s)
  PROVE  \A s \in Stores : Settled(s)'
<1> DEFINE o == SessionOrder(n, "STORE")
<1>0. PICK s0 : s0 = creating[n].store
  OBVIOUS
<1>1. /\ s0 \in Stores /\ s0 \in Nodes /\ n \in Nodes /\ pc \in [Nodes -> Labels]
      /\ toNode \in [Nodes -> Seq(OrdersOfHub)] /\ fromNode \in [Nodes -> Seq(Messages)]
      /\ handlers \in [Stores -> Nat] /\ pc[n] = "send" /\ creating[n].id \in Ids
  BY <1>0
  DEF SendsStore, At, TypeInv, LocalsOK, LabelsOK, WiresOK, SyncOK, WorkOK, Creatings, Nodes
<1>2. /\ handlers' = [handlers EXCEPT ![s0] = @ + 1] /\ SendNode(s0, o)
      /\ pc' = [pc EXCEPT ![n] = "wait"]
      /\ UNCHANGED <<creating, event, ringing, fromNode>>
  BY <1>0 DEF SendsStore, Goto, locals
<1>3. o \in OrdersOfHub /\ o.kind = "STORE" /\ o.client = n
  BY <1>1, SessionOrderTypes DEF SessionOrder, Order
<1>4. \A s \in Stores : s # s0 => Unconcerned(s)
  <2>1. \A t \in Stores : t # s0 =>
          /\ toNode'[t] = toNode[t] /\ fromNode'[t] = fromNode[t]
          /\ handlers'[t] = handlers[t] /\ ringing'[t] = ringing[t] /\ event'[t] = event[t]
    BY <1>1, <1>2 DEF SendNode
  <2>2. \A t \in Stores : t # s0 =>
          /\ Passes(toNode[t], toNode'[t], "STORE") /\ Passes(fromNode[t], fromNode'[t], "ready")
    BY <2>1 DEF Passes
  <2>3. \E label \in Labels : pc' = [pc EXCEPT ![n] = label]
    BY <1>2 DEF Labels
  <2>4. pc'[n] = "wait"
    BY <1>1, <1>2
  <2> HIDE DEF o
  <2>5. QED
    BY <1>0, <1>1, <1>2, <2>1, <2>2, <2>3, <2>4, OthersUnconcerned
<1>5. Settled(s0)'
  <2>1. \A c \in Clients : ~Awaited(s0, c)
    <3>1. SUFFICES ASSUME NEW c \in Clients, Awaited(s0, c)
                   PROVE  FALSE
      OBVIOUS
    <3>2. c # n /\ pc[c] \in {"wait", "reset"} /\ creating[c].store = s0
      BY <1>1, <3>1 DEF Awaited
    <3>3. /\ pc'[c] \in {"wait", "reset"} /\ pc'[n] \in {"wait", "reset"}
          /\ creating'[c].store = creating'[n].store
      BY <1>0, <1>1, <1>2, <3>2 DEF Nodes
    <3>4. QED
      BY <3>2, <3>3 DEF Apart
  <2>2. Quiet(s0)
    BY <1>1, <2>1 DEF Settled
  <2>3. toNode'[s0] = Append(toNode[s0], o)
    BY <1>1, <1>2 DEF SendNode
  <2> HIDE DEF o
  <2>4. One(toNode'[s0], "STORE", n)
    <3>1. toNode[s0] \in Seq(OrdersOfHub) /\ None(toNode[s0], "STORE")
      BY <1>1, <2>2 DEF Quiet
    <3>2. One(Append(toNode[s0], o), "STORE", n)
      BY <1>3, <3>1, Appended
    <3>3. QED
      BY <2>3, <3>2
  <2>5. /\ None(fromNode'[s0], "ready") /\ handlers'[s0] = 1 /\ pc'[s0] # "ring"
        /\ ~event'[s0]
    BY <1>1, <1>2, <2>2 DEF Quiet
  <2>6. Ordered(s0, n)'
    BY <2>4, <2>5 DEF Ordered
  <2>7. pc'[n] = "wait" /\ creating'[n].store = s0
    BY <1>0, <1>1, <1>2
  <2>8. Awaited(s0, n)'
    BY <2>6, <2>7 DEF Awaited
  <2>9. QED
    BY <2>8 DEF Settled
<1>6. QED
  BY <1>4, <1>5, StaysSettled

\* The storage node reads the order and answers.
LEMMA StartStoreSessionSettles ==
  ASSUME TypeInv, verified = Nodes, NEW s \in Stores, StartStoreSession(s),
         \A t \in Stores : Settled(t)
  PROVE  \A t \in Stores : Settled(t)'
<1> DEFINE o == Head(toNode[s])
           m == Message("ready", o.client, o.id, 0)
<1>1. /\ s \in Nodes /\ toNode[s] \in Seq(OrdersOfHub) /\ toNode[s] # <<>>
      /\ fromNode \in [Nodes -> Seq(Messages)] /\ toNode \in [Nodes -> Seq(OrdersOfHub)]
      /\ o.kind = "STORE"
  BY DEF StartStoreSession, Receives, TypeInv, WiresOK, Nodes
<1>2. /\ UNCHANGED <<pc, creating, sync>>
      /\ toNode' = [toNode EXCEPT ![s] = Tail(@)]
      /\ fromNode' = [fromNode EXCEPT ![s] = Append(@, m)]
  BY <1>1 DEF StartStoreSession, Receives, SendHub, locals
<1>3. m \in Messages /\ m.kind = "ready" /\ m.client = o.client
  <2>1. o \in OrdersOfHub
    BY <1>1, ReceivesType DEF StartStoreSession
  <2>2. QED
    BY <2>1, Recorded DEF OrdersOfHub, Message
<1>4. \A t \in Stores : t # s => Unconcerned(t)
  <2>1. \A t \in Stores : t # s => toNode'[t] = toNode[t] /\ fromNode'[t] = fromNode[t]
    BY <1>1, <1>2
  <2>2. QED
    BY <1>2, <2>1 DEF Unconcerned, Passes, sync
<1>5. Settled(s)'
  <2>1. ~None(toNode[s], "STORE")
    BY <1>1, Removed
  <2>2. PICK c \in Clients : Awaited(s, c) /\ pc[c] = "wait" /\ Ordered(s, c)
    BY <2>1 DEF Settled, Quiet, Awaited, Answered, Ringing, Rung
  <2> HIDE DEF m
  <2>3. toNode'[s] = Tail(toNode[s]) /\ fromNode'[s] = Append(fromNode[s], m)
    BY <1>1, <1>2
  <2>4. o.client = c /\ None(toNode'[s], "STORE")
    BY <1>1, <2>2, <2>3, Removed DEF Ordered
  <2>5. One(fromNode'[s], "ready", c)
    <3>1. fromNode[s] \in Seq(Messages) /\ None(fromNode[s], "ready") /\ m.client = c
      BY <1>1, <1>3, <2>2, <2>4 DEF Ordered
    <3>2. One(Append(fromNode[s], m), "ready", c)
      BY <1>3, <3>1, Appended
    <3>3. QED
      BY <2>3, <3>2
  <2>6. Answered(s, c)'
    BY <1>2, <2>2, <2>4, <2>5 DEF Ordered, Answered, sync
  <2>7. Awaited(s, c)'
    BY <1>2, <2>2, <2>6 DEF Awaited
  <2>8. QED
    BY <2>7 DEF Settled
<1>6. QED
  BY <1>4, <1>5, StaysSettled

\* The hub reads the answer, and the one handler sets the event.
LEMMA HandleReadySettles ==
  ASSUME TypeInv, NEW s \in Stores, HandleReady(s), \A t \in Stores : Settled(t)
  PROVE  \A t \in Stores : Settled(t)'
<1>1. /\ s \in Nodes /\ fromNode[s] \in Seq(Messages) /\ fromNode[s] # <<>>
      /\ fromNode \in [Nodes -> Seq(Messages)] /\ Head(fromNode[s]).kind = "ready"
      /\ pc[s] = "idle" /\ pc \in [Nodes -> Labels] /\ handlers \in [Stores -> Nat]
      /\ ringing \in [Stores -> Nat]
  BY DEF HandleReady, Reads, At, TypeInv, WiresOK, LabelsOK, SyncOK, Nodes
<1>2. /\ fromNode' = [fromNode EXCEPT ![s] = Tail(@)]
      /\ ringing' = [ringing EXCEPT ![s] = handlers[s]]
      /\ handlers' = [handlers EXCEPT ![s] = 0]
      /\ pc' = [pc EXCEPT ![s] = IF handlers[s] > 0 THEN "ring" ELSE "idle"]
      /\ UNCHANGED <<creating, event, toNode>>
  BY DEF HandleReady, Reads, Goto, locals
<1>3. \A t \in Stores : t # s => Unconcerned(t)
  <2>1. \A t \in Stores : t # s =>
          /\ toNode'[t] = toNode[t] /\ fromNode'[t] = fromNode[t]
          /\ handlers'[t] = handlers[t] /\ ringing'[t] = ringing[t] /\ event'[t] = event[t]
    BY <1>1, <1>2
  <2>2. \A t \in Stores : t # s =>
          /\ Passes(toNode[t], toNode'[t], "STORE") /\ Passes(fromNode[t], fromNode'[t], "ready")
    BY <2>1 DEF Passes
  <2>3. \E label \in Labels : pc' = [pc EXCEPT ![s] = label]
    BY <1>2 DEF Labels
  <2>4. QED
    BY <1>1, <1>2, <2>1, <2>2, <2>3, OthersUnconcerned
<1>4. Settled(s)'
  <2>1. ~None(fromNode[s], "ready")
    BY <1>1, Removed
  <2>2. PICK c \in Clients : Awaited(s, c) /\ pc[c] = "wait" /\ Answered(s, c)
    BY <2>1 DEF Settled, Quiet, Awaited, Ordered, Ringing, Rung
  <2>3. fromNode'[s] = Tail(fromNode[s])
    BY <1>1, <1>2
  <2>4. None(fromNode'[s], "ready")
    BY <1>1, <2>2, <2>3, Removed DEF Answered
  <2>5. Ringing(s)'
    BY <1>1, <1>2, <2>2, <2>4 DEF Answered, Ringing
  <2>6. c # s /\ pc'[c] = pc[c]
    BY <1>1, <1>2, <2>2 DEF Nodes
  <2>7. Awaited(s, c)'
    BY <1>2, <2>2, <2>5, <2>6 DEF Awaited
  <2>8. QED
    BY <2>7 DEF Settled
<1>5. QED
  BY <1>3, <1>4, StaysSettled

LEMMA RingsSettles ==
  ASSUME TypeInv, NEW s \in Stores, Rings(s), \A t \in Stores : Settled(t)
  PROVE  \A t \in Stores : Settled(t)'
<1>1. /\ s \in Nodes /\ pc[s] = "ring" /\ pc \in [Nodes -> Labels]
      /\ event \in [Stores -> BOOLEAN] /\ ringing \in [Stores -> Nat]
  BY DEF Rings, At, TypeInv, LabelsOK, SyncOK, Nodes
<1>2. /\ event' = [event EXCEPT ![s] = TRUE]
      /\ ringing' = [ringing EXCEPT ![s] = @ - 1]
      /\ pc' = [pc EXCEPT ![s] = IF ringing[s] = 1 THEN "idle" ELSE "ring"]
      /\ UNCHANGED <<creating, handlers, fromNode, toNode>>
  BY DEF Rings, Goto, LastHandler, locals, wires
<1>3. \A t \in Stores : t # s => Unconcerned(t)
  <2>1. \A t \in Stores : t # s =>
          /\ toNode'[t] = toNode[t] /\ fromNode'[t] = fromNode[t]
          /\ handlers'[t] = handlers[t] /\ ringing'[t] = ringing[t] /\ event'[t] = event[t]
    BY <1>1, <1>2
  <2>2. \A t \in Stores : t # s =>
          /\ Passes(toNode[t], toNode'[t], "STORE") /\ Passes(fromNode[t], fromNode'[t], "ready")
    BY <2>1 DEF Passes
  <2>3. \E label \in Labels : pc' = [pc EXCEPT ![s] = label]
    BY <1>2 DEF Labels
  <2>4. QED
    BY <1>1, <1>2, <2>1, <2>2, <2>3, OthersUnconcerned
<1>4. Settled(s)'
  <2>1. PICK c \in Clients : Awaited(s, c) /\ pc[c] = "wait" /\ Ringing(s)
    BY <1>1 DEF Settled, Quiet, Awaited, Ordered, Answered, Rung
  <2>2. Rung(s)'
    BY <1>1, <1>2, <2>1 DEF Ringing, Rung
  <2>3. c # s /\ pc'[c] = pc[c]
    BY <1>1, <1>2, <2>1 DEF Nodes
  <2>4. Awaited(s, c)'
    BY <1>2, <2>1, <2>2, <2>3 DEF Awaited
  <2>5. QED
    BY <2>4 DEF Settled
<1>5. QED
  BY <1>3, <1>4, StaysSettled

\* The request that waits goes on, and the event is reset.
LEMMA WokenSettles ==
  ASSUME TypeInv, Apart, NEW n \in Clients, Woken(n) \/ Resets(n),
         \A t \in Stores : Settled(t)
  PROVE  \A t \in Stores : Settled(t)'
<1>0. PICK s : s = creating[n].store
  OBVIOUS
<1>1. /\ s \in Stores /\ s \in Nodes /\ n \in Nodes /\ pc \in [Nodes -> Labels]
      /\ event \in [Stores -> BOOLEAN] /\ pc[n] \in {"wait", "reset"}
  BY <1>0 DEF Woken, Resets, At, TypeInv, LabelsOK, LocalsOK, SyncOK, Creatings, Nodes
<1>2. /\ UNCHANGED <<creating, handlers, ringing, fromNode, toNode>>
      /\ \/ /\ pc[n] = "wait" /\ event[s]
            /\ pc' = [pc EXCEPT ![n] = "reset"] /\ UNCHANGED event
         \/ /\ pc[n] = "reset" /\ event' = [event EXCEPT ![s] = FALSE]
            /\ pc' = [pc EXCEPT ![n] = "tell"]
  BY <1>0 DEF Woken, Resets, At, Goto, GoesOn, locals, sync, wires
<1>3. \A t \in Stores : t # s => Unconcerned(t)
  <2>1. \A t \in Stores : t # s =>
          /\ toNode'[t] = toNode[t] /\ fromNode'[t] = fromNode[t]
          /\ handlers'[t] = handlers[t] /\ ringing'[t] = ringing[t] /\ event'[t] = event[t]
    BY <1>1, <1>2
  <2>2. \A t \in Stores : t # s =>
          /\ Passes(toNode[t], toNode'[t], "STORE") /\ Passes(fromNode[t], fromNode'[t], "ready")
    BY <2>1 DEF Passes
  <2>3. \E label \in Labels : pc' = [pc EXCEPT ![n] = label]
    BY <1>2 DEF Labels
  <2>4. pc[n] # "ring" /\ pc'[n] # "ring"
    BY <1>1, <1>2
  <2>5. QED
    BY <1>0, <1>1, <1>2, <2>1, <2>2, <2>3, <2>4, OthersUnconcerned
<1>4. \A c \in Clients : Awaited(s, c) => c = n
  BY <1>0, <1>1 DEF Awaited, Apart
<1>5. Settled(s)'
  <2>1. CASE pc[n] = "wait"
    <3>1. event[s] /\ UNCHANGED event /\ pc' = [pc EXCEPT ![n] = "reset"]
      BY <1>2, <2>1
    <3>2. Awaited(s, n) /\ Rung(s)
      BY <1>1, <1>4, <3>1 DEF Settled, Quiet, Awaited, Ordered, Answered, Ringing
    <3>3. pc'[n] = "reset" /\ (pc'[s] = "ring" <=> pc[s] = "ring")
      BY <1>1, <2>1, <3>1
    <3>4. Rung(s)'
      BY <1>2, <3>1, <3>2, <3>3 DEF Rung
    <3>5. Awaited(s, n)'
      BY <1>2, <3>2, <3>3, <3>4 DEF Awaited
    <3>6. QED
      BY <3>5 DEF Settled
  <2>2. CASE pc[n] = "reset"
    <3>1. event' = [event EXCEPT ![s] = FALSE] /\ pc' = [pc EXCEPT ![n] = "tell"]
      BY <1>2, <2>2
    <3>2. Quiet(s) \/ Rung(s)
      BY <1>1, <1>4, <2>2 DEF Settled, Awaited
    <3>3. ~event'[s] /\ (pc'[s] = "ring" <=> pc[s] = "ring")
      BY <1>1, <2>2, <3>1
    <3>4. Quiet(s)'
      BY <1>2, <3>2, <3>3 DEF Quiet, Rung
    <3>5. QED
      BY <3>4 DEF Settled
  <2>3. QED
    BY <1>1, <2>1, <2>2
<1>6. QED
  BY <1>3, <1>5, StaysSettled

LEMMA AnswersNext ==
  ASSUME TypeInv, VerifiedOK, AnswersOK, Apart, Apart', [Next]_vars
  PROVE  AnswersOK'
<1>1. SUFFICES ASSUME faults' = 0 PROVE \A s \in Stores : Settled(s)'
  BY DEF AnswersOK
<1>2. CASE UNCHANGED vars
  <2>1. faults = 0
    BY <1>1, <1>2 DEF vars, counters
  <2>2. \A s \in Stores : Unconcerned(s)
    BY <1>2, MessagesPass, NodesUnconcerned DEF vars, locals, wires
  <2>3. QED
    BY <2>1, <2>2, StaysSettled DEF AnswersOK
<1>3. CASE Next
  <2>1. faults = 0 /\ verified' = verified /\ verified = Nodes
    BY <1>1, <1>3, NothingForgotten DEF Kept, VerifiedOK
  <2>2. \A s \in Stores : Settled(s)
    BY <2>1 DEF AnswersOK
  <2>3. (\A s \in Stores : Unconcerned(s)) => \A s \in Stores : Settled(s)'
    BY <2>2, StaysSettled
  <2>4. ASSUME NEW n \in Nodes, HubThread(n)
        PROVE  \A s \in Stores : Settled(s)'
    <3>1. CASE \/ HandleSessionEvent(n) \/ ConfirmsUsage(n) \/ ReleasesReserved(n)
               \/ n \in Clients /\ (\/ AskStorage(n) \/ TaskDone(n) \/ FindsSession(n)
                                    \/ RemovesSession(n) \/ LowersLoad(n)
                                    \/ ChooseStorage(n) \/ NoStorage(n) \/ ChoiceFails(n)
                                    \/ RenewStorageSession(n) \/ CreateStorageSessions(n)
                                    \/ CreatedAll(n) \/ SendRefused(n) \/ TellsClient(n)
                                    \/ ReadsReserved(n) \/ Reserves(n)
                                    \/ ListsSession(n) \/ RaisesLoad(n))
      BY <2>3, <3>1, HubUnconcerned
    <3>2. CASE n \in Stores /\ (HandleReady(n) \/ Rings(n))
      BY <2>2, <3>2, HandleReadySettles, RingsSettles
    <3>3. CASE n \in Clients /\ (SendsStore(n) \/ Woken(n) \/ Resets(n))
      BY <2>2, <3>3, SendsStoreSettles, WokenSettles
    <3>4. QED
      BY <2>4, <3>1, <3>2, <3>3 DEF HubThread, Answers
  <2>5. ASSUME NEW n \in Nodes, NodeReads(n)
        PROVE  \A s \in Stores : Settled(s)'
    <3>1. CASE n \in Stores /\ StartStoreSession(n)
      BY <2>1, <2>2, <3>1, StartStoreSessionSettles
    <3>2. CASE n \in Clients /\ (\/ ReusesSession(n) \/ ConnectsSession(n)
                                 \/ ConnectFails(n) \/ CancelTask(n))
      BY <2>3, <3>2, ClientUnconcerned
    <3>3. QED
      BY <2>5, <3>1, <3>2 DEF NodeReads
  <2>6. ASSUME NEW n \in Clients, WaitTimesOut(n) \/ AsksIndex(n)
        PROVE  \A s \in Stores : Settled(s)'
    <3>1. CASE AsksIndex(n)
      BY <2>3, <3>1, ClientUnconcerned
    <3>2. CASE WaitTimesOut(n)
      <4>1. creating[n].store \in verified
        BY <2>1 DEF TypeInv, LocalsOK, Creatings, Nodes
      <4>2. faults' = faults + 1
        BY <3>2, <4>1 DEF WaitTimesOut, Faults
      <4>3. QED
        BY <1>1, <2>1, <4>2
    <3>3. QED
      BY <2>6, <3>1, <3>2
  <2>7. ASSUME NEW n \in Clients, NEW i \in Ids, Consumes(n, i) \/ SessionBreaks(n, i)
        PROVE  \A s \in Stores : Settled(s)'
    BY <2>3, <2>7, ClientUnconcerned
  <2>8. ASSUME NEW s \in Stores, ClearNode(s)
        PROVE  FALSE
    BY <1>1, <2>1, <2>8 DEF ClearNode, Faults
  <2>9. ASSUME NEW s \in Stores, PutNodeOnline(s)
        PROVE  FALSE
    BY <2>1, <2>9 DEF PutNodeOnline, Nodes
  <2>10. CASE SchedulerThread
    BY <2>3, <2>10, SchedulerUnconcerned
  <2>11. QED
    BY <1>3, <2>4, <2>5, <2>6, <2>7, <2>8, <2>9, <2>10 DEF Next
<1>4. QED
  BY <1>2, <1>3

LEMMA AnswersInit == Init => AnswersOK
<1> SUFFICES ASSUME Init PROVE AnswersOK
  OBVIOUS
<1>1. ASSUME NEW s \in Stores
      PROVE  Quiet(s)
  <2>1. s \in Nodes /\ toNode[s] = <<>> /\ handlers[s] = 0 /\ pc[s] = "idle" /\ ~event[s]
    BY DEF Init, Nodes
  <2>2. None(toNode[s], "STORE")
    BY <2>1 DEF None
  <2>3. None(fromNode[s], "ready")
    <3>1. CASE s \in Clients
      <4>1. fromNode[s] = <<Message("first", s, 0, 0)>>
        BY <2>1, <3>1 DEF Init
      <4>2. Message("first", s, 0, 0).kind = "first"
        BY DEF Message
      <4>3. QED
        BY <4>1, <4>2 DEF None
    <3>2. CASE s \notin Clients
      <4>1. fromNode[s] = <<>>
        BY <2>1, <3>2 DEF Init
      <4>2. QED
        BY <4>1 DEF None
    <3>3. QED
      BY <3>1, <3>2
  <2>4. QED
    BY <2>1, <2>2, <2>3 DEF Quiet
<1>2. QED
  BY <1>1 DEF AnswersOK, Settled

LEMMA AnswersTell ==
  ASSUME TypeInv, AnswersOK
  PROVE  ToldWhenReady
<1> SUFFICES ASSUME faults = 0, NEW c \in Clients, pc[c] = "tell",
                    NEW k \in DOMAIN toNode[creating[c].store],
                    toNode[creating[c].store][k].kind = "STORE"
             PROVE  toNode[creating[c].store][k].client # c
  BY DEF ToldWhenReady
<1> DEFINE s == creating[c].store
<1>1. s \in Stores /\ k \in 1..Len(toNode[s])
  BY DEF TypeInv, LocalsOK, WiresOK, Creatings, Nodes
<1>2. ~None(toNode[s], "STORE")
  BY <1>1 DEF None
<1>3. PICK d \in Clients : pc[d] = "wait" /\ Ordered(s, d)
  BY <1>1, <1>2 DEF AnswersOK, Settled, Quiet, Awaited, Answered, Ringing, Rung
<1>4. toNode[s][k].client = d
  BY <1>1, <1>3 DEF Ordered, One
<1>5. QED
  BY <1>3, <1>4

\* CreateStorageSession tells a client of a session when its storage node has read the
\* order, as long as no node is lost and no two requests wait for the same node: the
\* event that wakes a request is the node's, and nothing else is missing.
THEOREM ToldOneAtATime == Spec /\ []Apart => []ToldWhenReady
<1>1. TypeInv /\ AnswersOK => ToldWhenReady
  BY AnswersTell
<1>2. QED
  BY <1>1, TypeInvCorrect, VerifiedCorrect, AnswersInit, AnswersNext, PTL DEF Spec

\* With one client no two requests wait at all.
THEOREM OneClientTold ==
  ASSUME NEW c0, Clients = {c0}
  PROVE  Spec => []ToldWhenReady
<1>1. Apart
  BY DEF Apart
<1>2. QED
  BY <1>1, ToldOneAtATime, PTL
=============================================================================
