----------------------- MODULE BackupPipeline_proofs -----------------------
(***************************************************************************)
(* What holds of BackupPipeline for every value of its constants: for any  *)
(* drives and chunks, any number of producers and sessions, any failures   *)
(* and whatever the hub grants.                                            *)
(***************************************************************************)
EXTENDS BackupPipeline, SequenceTheorems, TLAPS

-----------------------------------------------------------------------------
(* Types.                                                                  *)

Places == ProducerPlaces \cup ConsumerPlaces \cup IndexerPlaces
            \cup {"idle", "registering", "cancelling"}

PlacesOK ==
  /\ pc \in [Threads -> Places]
  /\ \A p \in Producers : pc[p] \in ProducerPlaces
  /\ \A s \in Sessions : pc[s] \in ConsumerPlaces
  /\ pc[HubReader] \in {"idle", "registering", "cancelling"}
  /\ pc[Indexer] \in IndexerPlaces
ProductionOK ==
  /\ mega \in Seq(Queues)
  /\ drives \in [Queues -> Seq(Seq(Chunks))]
  /\ mine \in [Producers -> Queues \cup {0}]
  /\ todo \in [Producers -> Seq(Chunks)]
FeedsOK ==
  /\ buffer \in [Producers -> {<<>>} \cup {<<k>> : k \in Chunks}]
  /\ closed \subseteq Producers
  /\ feeds \in Seq(Producers) /\ Len(feeds) <= FeedsCapacity
WorkingOK ==
  /\ feed \in [Sessions -> Producers \cup {0}]
  /\ held \in [Sessions -> Chunks \cup {NoChunk}]
  /\ budget \in [Sessions -> Nat]
StorageOK ==
  /\ open \subseteq Sessions
  /\ wire \in [Sessions -> SUBSET Chunks]
TasksOK ==
  /\ consumers \subseteq Sessions
  /\ stale \in BOOLEAN
UnderwayOK ==
  /\ processing \in [Chunks -> Nat]
  /\ sent \subseteq Chunks
  /\ disposed \subseteq Chunks
  /\ reading \in [Sessions -> Chunks \cup {NoChunk}]
IndexingOK ==
  /\ indexFeed \in Seq(Chunks) /\ Len(indexFeed) <= IndexFeedCapacity
  /\ indexClosed \in BOOLEAN
  /\ index \in Seq(Chunks)
AskedOK ==
  /\ fresh \in Nat
  /\ renewals \subseteq Sessions
  /\ serving \in Sessions
EndingOK ==
  /\ awaits \in [Threads -> SUBSET Sessions]
  /\ cancelled \in BOOLEAN
  /\ job \in {"running", "done", "cancelled"}
CountersOK ==
  /\ reported \subseteq Chunks
  /\ errors \in 0..MaxErrors
  /\ timeouts \in 0..MaxTimeouts

\* A producer with work has a queue of drives, a consumer with work a feed, a
\* chunk and a budget; a session is to be renewed when its consumer has ended.
WorkOK ==
  /\ \A p \in Producers :
       pc[p] \in {"dequeuing", "created", "announce", "collect", "offer",
                  "continuing"} => mine[p] \in Queues
  /\ \A s \in Sessions :
       /\ pc[s] \in {"loop", "send", "wait", "requeue", "resend", "handback"} =>
            feed[s] \in Producers
       /\ pc[s] \in {"send", "wait", "requeue", "resend"} => held[s] \in Chunks
       /\ pc[s] = "send" => budget[s] > 0
       /\ s \in renewals => pc[s] = "idle"

\* The lock of processingChunks: one thread confirms, and what it confirms is
\* listed until it has handed it over.
LockOK ==
  \A s \in Sessions : reading[s] # NoChunk =>
    /\ processing[reading[s]] > 0
    /\ \A r \in Sessions : reading[r] # NoChunk => r = s

TypeInv ==
  /\ PlacesOK /\ ProductionOK /\ FeedsOK /\ WorkingOK /\ StorageOK /\ TasksOK
  /\ UnderwayOK /\ IndexingOK /\ AskedOK /\ EndingOK /\ CountersOK
  /\ WorkOK /\ LockOK

LEMMA TypeInvTypes == TypeInv => TypeOK
BY DEF TypeInv, TypeOK, PlacesOK, ProductionOK, FeedsOK, WorkingOK, StorageOK,
   TasksOK, UnderwayOK, IndexingOK, AskedOK, EndingOK, CountersOK

LEMMA TypeInit == Init => TypeInv
<1> USE ConstantsAssumption DEF Threads
<1>1. SUFFICES ASSUME Init PROVE TypeInv
  OBVIOUS
<1>2. Drives \in [Queues -> Seq(Seq(Chunks))] /\ Queues = 1..Len(Drives)
  BY DEF Queues
<1>3. ProductionOK
  <2>1. mega \in Seq(Queues)
    BY <1>1, <1>2 DEF Init
  <2>2. drives \in [Queues -> Seq(Seq(Chunks))]
    BY <1>1, <1>2 DEF Init
  <2>3. QED
    BY <1>1, <2>1, <2>2 DEF Init, ProductionOK
<1>4. PlacesOK
  <2>1. /\ pc \in [Threads -> Places]
        /\ \A p \in Producers : pc[p] \in ProducerPlaces
    BY <1>1 DEF Init, Places, ProducerPlaces, ConsumerPlaces, IndexerPlaces
  <2>2. QED
    BY <1>1, <2>1 DEF Init, PlacesOK, ConsumerPlaces, IndexerPlaces
<1>5. AskedOK
  BY <1>1 DEF Init, AskedOK
<1>6. FeedsOK
  BY <1>1 DEF Init, FeedsOK, FeedsCapacity
<1>7. UnderwayOK /\ IndexingOK
  <2>1. IndexFeedCapacity \in Nat
    BY DEF IndexFeedCapacity
  <2>2. <<>> \in Seq(Chunks) /\ Len(<<>>) = 0
    OBVIOUS
  <2>3. UnderwayOK
    BY <1>1 DEF Init, UnderwayOK
  <2>4. IndexingOK
    <3>1. indexFeed = <<>> /\ index = <<>> /\ indexClosed \in BOOLEAN
      BY <1>1 DEF Init
    <3>2. QED
      BY <2>1, <2>2, <3>1 DEF IndexingOK
  <2>5. QED
    BY <2>3, <2>4
<1>8. WorkingOK /\ StorageOK /\ TasksOK /\ EndingOK /\ CountersOK
  <2>1. WorkingOK /\ StorageOK
    BY <1>1 DEF Init, WorkingOK, StorageOK
  <2>2. TasksOK /\ EndingOK
    BY <1>1 DEF Init, TasksOK, EndingOK
  <2>3. CountersOK
    BY <1>1 DEF Init, CountersOK
  <2>4. QED
    BY <2>1, <2>2, <2>3
<1>9. WorkOK /\ LockOK
  BY <1>1 DEF Init, WorkOK, LockOK
<1>10. QED
  BY <1>3, <1>4, <1>5, <1>6, <1>7, <1>8, <1>9 DEF TypeInv

\* The head of megaQueue moves, perhaps twice.
LEMMA MovesHeadType ==
  ASSUME mega \in Seq(Queues), NEW q, MovesHead(q)
  PROVE  mega' \in Seq(Queues)
<1>1. mega' = mega \/ (mega # <<>> /\ mega' = Tail(mega))
  BY DEF MovesHead
<1>2. mega # <<>> => Tail(mega) \in Seq(Queues)
  OBVIOUS
<1>3. QED
  BY <1>1, <1>2

\* The capacities of the feeds are numbers.
LEMMA Capacities ==
  FeedsCapacity \in Nat /\ IndexFeedCapacity \in Nat
BY ConstantsAssumption DEF FeedsCapacity, IndexFeedCapacity

\* The steps of a producer.
LEMMA ProduceType ==
  ASSUME TypeInv, NEW p \in Producers, Produce(p)
  PROVE  TypeInv'
<1> USE ConstantsAssumption
    DEF TypeInv, Threads, At, Goto, production, feedState, working, storage,
        tasks, underway, indexing, asked, ending, counters
<1>1. CASE Dequeues(p)
  <2>1. PlacesOK'
    BY <1>1 DEF Dequeues, PlacesOK, ProducerPlaces, ConsumerPlaces,
       IndexerPlaces, Places
  <2>2. ProductionOK'
    BY <1>1 DEF Dequeues, ProductionOK, WorkOK
  <2>3. /\ FeedsOK' /\ WorkingOK' /\ StorageOK' /\ TasksOK' /\ UnderwayOK'
        /\ IndexingOK' /\ AskedOK' /\ EndingOK' /\ CountersOK'
    BY <1>1 DEF Dequeues, FeedsOK, WorkingOK, StorageOK, TasksOK, UnderwayOK,
       IndexingOK, AskedOK, EndingOK, CountersOK
  <2>4. WorkOK'
    BY <1>1 DEF Dequeues, WorkOK, PlacesOK, ConsumerPlaces, ProducerPlaces,
       ProductionOK, WorkingOK, AskedOK, FeedsOK
  <2>5. LockOK'
    BY <1>1 DEF Dequeues, LockOK, UnderwayOK
  <2>6. QED
    BY <2>1, <2>2, <2>3, <2>4, <2>5
<1>2. CASE DequeueFails(p)
  <2>1. PlacesOK'
    BY <1>2 DEF DequeueFails, PlacesOK, ProducerPlaces, ConsumerPlaces,
       IndexerPlaces, Places
  <2>2. /\ ProductionOK' /\ FeedsOK' /\ WorkingOK' /\ StorageOK'
        /\ TasksOK' /\ UnderwayOK' /\ IndexingOK' /\ AskedOK' /\ EndingOK'
        /\ CountersOK'
    BY <1>2 DEF DequeueFails, ProductionOK, FeedsOK, WorkingOK, StorageOK,
       TasksOK, UnderwayOK, IndexingOK, AskedOK, EndingOK, CountersOK
  <2>3. WorkOK'
    BY <1>2 DEF DequeueFails, WorkOK, PlacesOK, ConsumerPlaces,
       ProducerPlaces, ProductionOK, WorkingOK, AskedOK, FeedsOK
  <2>4. LockOK'
    BY <1>2 DEF DequeueFails, LockOK, UnderwayOK
  <2>5. QED
    BY <2>1, <2>2, <2>3, <2>4
<1>3. CASE Dequeued(p)
  <2>1. PlacesOK'
    BY <1>3 DEF Dequeued, MovesHead, PlacesOK, ProducerPlaces, ConsumerPlaces,
       IndexerPlaces, Places
  <2>2. ProductionOK'
    BY <1>3, MovesHeadType DEF Dequeued, ProductionOK
  <2>3. /\ FeedsOK' /\ WorkingOK' /\ StorageOK' /\ TasksOK' /\ UnderwayOK'
        /\ IndexingOK' /\ AskedOK' /\ EndingOK' /\ CountersOK'
    BY <1>3 DEF Dequeued, MovesHead, FeedsOK, WorkingOK, StorageOK, TasksOK,
       UnderwayOK, IndexingOK, AskedOK, EndingOK, CountersOK
  <2>4. WorkOK'
    BY <1>3 DEF Dequeued, MovesHead, WorkOK, PlacesOK, ConsumerPlaces,
       ProducerPlaces, ProductionOK, WorkingOK, AskedOK, FeedsOK
  <2>5. LockOK'
    BY <1>3 DEF Dequeued, MovesHead, LockOK, UnderwayOK
  <2>6. QED
    BY <2>1, <2>2, <2>3, <2>4, <2>5
<1>4. CASE Announces(p)
  <2>1. PlacesOK'
    BY <1>4 DEF Announces, PlacesOK, ProducerPlaces, ConsumerPlaces,
       IndexerPlaces, Places
  <2>2. FeedsOK'
    <3>1. /\ Append(feeds, p) \in Seq(Producers)
          /\ Len(Append(feeds, p)) = Len(feeds) + 1
      BY DEF FeedsOK
    <3>2. QED
      BY <1>4, <3>1, Capacities DEF Announces, FeedsOK
  <2>3. /\ ProductionOK' /\ WorkingOK' /\ StorageOK' /\ TasksOK'
        /\ UnderwayOK' /\ IndexingOK' /\ AskedOK' /\ EndingOK' /\ CountersOK'
    BY <1>4 DEF Announces, ProductionOK, WorkingOK, StorageOK, TasksOK,
       UnderwayOK, IndexingOK, AskedOK, EndingOK, CountersOK
  <2>4. WorkOK'
    BY <1>4 DEF Announces, WorkOK, PlacesOK, ConsumerPlaces, ProducerPlaces,
       ProductionOK, WorkingOK, AskedOK, FeedsOK
  <2>5. LockOK'
    BY <1>4 DEF Announces, LockOK, UnderwayOK
  <2>6. QED
    BY <2>1, <2>2, <2>3, <2>4, <2>5
<1>5. CASE NextDrive(p)
  <2>1. PlacesOK'
    BY <1>5 DEF NextDrive, PlacesOK, ProducerPlaces, ConsumerPlaces,
       IndexerPlaces, Places
  <2>2. ProductionOK'
    BY <1>5 DEF NextDrive, ProductionOK, WorkOK
  <2>3. /\ FeedsOK' /\ WorkingOK' /\ StorageOK' /\ TasksOK' /\ UnderwayOK'
        /\ IndexingOK' /\ AskedOK' /\ EndingOK' /\ CountersOK'
    BY <1>5 DEF NextDrive, FeedsOK, WorkingOK, StorageOK, TasksOK, UnderwayOK,
       IndexingOK, AskedOK, EndingOK, CountersOK
  <2>4. WorkOK'
    BY <1>5 DEF NextDrive, WorkOK, PlacesOK, ConsumerPlaces, ProducerPlaces,
       ProductionOK, WorkingOK, AskedOK, FeedsOK
  <2>5. LockOK'
    BY <1>5 DEF NextDrive, LockOK, UnderwayOK
  <2>6. QED
    BY <2>1, <2>2, <2>3, <2>4, <2>5
<1>6. CASE Offers(p)
  <2>1. ProductionOK'
    BY <1>6 DEF Offers, ProductionOK, WorkOK
  <2>2. FeedsOK'
    BY <1>6 DEF Offers, FeedsOK, ProductionOK, WorkingOK, WorkOK
  <2>3. /\ PlacesOK' /\ WorkingOK' /\ StorageOK' /\ TasksOK' /\ UnderwayOK'
        /\ IndexingOK' /\ AskedOK' /\ EndingOK' /\ CountersOK'
    BY <1>6 DEF Offers, PlacesOK, WorkingOK, StorageOK, TasksOK, UnderwayOK,
       IndexingOK, AskedOK, EndingOK, CountersOK
  <2>4. WorkOK'
    BY <1>6 DEF Offers, WorkOK, PlacesOK, ConsumerPlaces, ProducerPlaces,
       ProductionOK, WorkingOK, AskedOK, FeedsOK
  <2>5. LockOK'
    BY <1>6 DEF Offers, LockOK, UnderwayOK
  <2>6. QED
    BY <2>1, <2>2, <2>3, <2>4, <2>5
<1>7. CASE OfferCancelled(p)
  <2>1. PlacesOK'
    BY <1>7 DEF OfferCancelled, PlacesOK, ProducerPlaces, ConsumerPlaces,
       IndexerPlaces, Places
  <2>2. /\ ProductionOK' /\ FeedsOK' /\ WorkingOK' /\ StorageOK'
        /\ TasksOK' /\ UnderwayOK' /\ IndexingOK' /\ AskedOK' /\ EndingOK'
        /\ CountersOK'
    BY <1>7 DEF OfferCancelled, ProductionOK, FeedsOK, WorkingOK, StorageOK,
       TasksOK, UnderwayOK, IndexingOK, AskedOK, EndingOK, CountersOK
  <2>3. WorkOK'
    BY <1>7 DEF OfferCancelled, WorkOK, PlacesOK, ConsumerPlaces,
       ProducerPlaces, ProductionOK, WorkingOK, AskedOK, FeedsOK
  <2>4. LockOK'
    BY <1>7 DEF OfferCancelled, LockOK, UnderwayOK
  <2>5. QED
    BY <2>1, <2>2, <2>3, <2>4
<1>8. CASE DriveEnds(p)
  <2>1. PlacesOK'
    BY <1>8 DEF DriveEnds, PlacesOK, ProducerPlaces, ConsumerPlaces,
       IndexerPlaces, Places
  <2>2. ProductionOK'
    BY <1>8 DEF DriveEnds, ProductionOK, WorkOK
  <2>3. /\ FeedsOK' /\ WorkingOK' /\ StorageOK' /\ TasksOK' /\ UnderwayOK'
        /\ IndexingOK' /\ AskedOK' /\ EndingOK' /\ CountersOK'
    BY <1>8 DEF DriveEnds, FeedsOK, WorkingOK, StorageOK, TasksOK, UnderwayOK,
       IndexingOK, AskedOK, EndingOK, CountersOK
  <2>4. WorkOK'
    BY <1>8 DEF DriveEnds, WorkOK, PlacesOK, ConsumerPlaces, ProducerPlaces,
       ProductionOK, WorkingOK, AskedOK, FeedsOK
  <2>5. LockOK'
    BY <1>8 DEF DriveEnds, LockOK, UnderwayOK
  <2>6. QED
    BY <2>1, <2>2, <2>3, <2>4, <2>5
<1>9. CASE Continues(p)
  <2>1. PICK n \in Producers :
          /\ pc[n] = "off"
          /\ mine' = [mine EXCEPT ![n] = Head(mega)]
          /\ pc' = [pc EXCEPT ![n] = "created", ![p] = "continuing"]
    BY <1>9 DEF Continues
  <2>2. mega # <<>> /\ Head(mega) \in Queues /\ pc[p] = "offer" /\ n # p
    <3>1. mega # <<>> /\ mega \in Seq(Queues) /\ pc[p] = "offer"
      BY <1>9 DEF Continues, ProductionOK
    <3>2. Head(mega) \in Queues
      BY <3>1
    <3>3. QED
      BY <2>1, <3>1, <3>2
  <2>3. PlacesOK'
    BY <2>1, <2>2 DEF PlacesOK, ProducerPlaces, Places
  <2>4. ProductionOK'
    <3>1. mega' = mega /\ drives' = drives /\ todo' = todo
      BY <1>9 DEF Continues
    <3>2. mine' \in [Producers -> Queues \cup {0}]
      BY <2>1, <2>2 DEF ProductionOK
    <3>3. QED
      BY <3>1, <3>2 DEF ProductionOK
  <2>5. /\ FeedsOK' /\ WorkingOK' /\ StorageOK' /\ TasksOK' /\ UnderwayOK'
        /\ IndexingOK' /\ AskedOK' /\ EndingOK' /\ CountersOK'
    BY <1>9 DEF Continues, FeedsOK, WorkingOK, StorageOK, TasksOK, UnderwayOK,
       IndexingOK, AskedOK, EndingOK, CountersOK
  <2>6. WorkOK'
    <3>1. /\ feed' = feed /\ held' = held /\ budget' = budget
          /\ renewals' = renewals
      BY <1>9 DEF Continues
    <3>2. \A s \in Sessions : pc'[s] = pc[s]
      BY <2>1 DEF PlacesOK
    <3>3. \A r \in Producers : /\ r \notin {n, p} => pc'[r] = pc[r]
                               /\ r # n => mine'[r] = mine[r]
      BY <2>1 DEF PlacesOK, ProductionOK
    <3>4. mine'[n] \in Queues
      BY <2>1, <2>2 DEF ProductionOK
    <3>5. mine[p] \in Queues
      BY <2>2 DEF WorkOK
    <3>6. QED
      BY <2>2, <3>1, <3>2, <3>3, <3>4, <3>5 DEF WorkOK
  <2>7. LockOK'
    BY <1>9 DEF Continues, LockOK
  <2>8. QED
    BY <2>3, <2>4, <2>5, <2>6, <2>7
<1>10. CASE Continued(p)
  <2>1. PICK n \in Producers :
          /\ pc[n] = "created" /\ MovesHead(mine[n])
          /\ pc' = [pc EXCEPT ![n] = "announce", ![p] = "collect"]
    BY <1>10 DEF Continued
  <2>2. pc[p] = "continuing" /\ n # p
    BY <1>10, <2>1 DEF Continued
  <2>3. PlacesOK'
    BY <2>1, <2>2 DEF PlacesOK, ProducerPlaces, Places
  <2>4. ProductionOK'
    BY <1>10, <2>1, MovesHeadType DEF Continued, ProductionOK
  <2>5. /\ FeedsOK' /\ WorkingOK' /\ StorageOK' /\ TasksOK' /\ UnderwayOK'
        /\ IndexingOK' /\ AskedOK' /\ EndingOK' /\ CountersOK'
    BY <1>10 DEF Continued, FeedsOK, WorkingOK, StorageOK, TasksOK,
       UnderwayOK, IndexingOK, AskedOK, EndingOK, CountersOK
  <2>6. WorkOK'
    BY <1>10, <2>1, <2>2 DEF Continued, WorkOK, PlacesOK
  <2>7. LockOK'
    BY <1>10 DEF Continued, LockOK
  <2>8. QED
    BY <2>3, <2>4, <2>5, <2>6, <2>7
<1>11. CASE ClosesFeed(p)
  <2>1. PlacesOK'
    BY <1>11 DEF ClosesFeed, PlacesOK, ProducerPlaces, ConsumerPlaces,
       IndexerPlaces, Places
  <2>2. FeedsOK'
    BY <1>11 DEF ClosesFeed, FeedsOK, ProductionOK, WorkingOK, WorkOK
  <2>3. /\ ProductionOK' /\ WorkingOK' /\ StorageOK' /\ TasksOK'
        /\ UnderwayOK' /\ IndexingOK' /\ AskedOK' /\ EndingOK' /\ CountersOK'
    BY <1>11 DEF ClosesFeed, ProductionOK, WorkingOK, StorageOK, TasksOK,
       UnderwayOK, IndexingOK, AskedOK, EndingOK, CountersOK
  <2>4. WorkOK'
    BY <1>11 DEF ClosesFeed, WorkOK, PlacesOK, ConsumerPlaces, ProducerPlaces,
       ProductionOK, WorkingOK, AskedOK, FeedsOK
  <2>5. LockOK'
    BY <1>11 DEF ClosesFeed, LockOK, UnderwayOK
  <2>6. QED
    BY <2>1, <2>2, <2>3, <2>4, <2>5
<1>12. QED
  BY <1>1, <1>2, <1>3, <1>4, <1>5, <1>6, <1>7, <1>8, <1>9, <1>10, <1>11
     DEF Produce

\* The steps of a consumer.
LEMMA ConsumeType ==
  ASSUME TypeInv, NEW s \in Sessions, Consume(s)
  PROVE  TypeInv'
<1> USE ConstantsAssumption
    DEF TypeInv, Threads, At, Goto, production, feedState, working, storage,
        tasks, underway, indexing, asked, ending, counters
<1>1. CASE ConsumeReturns(s)
  <2>1. PlacesOK'
    BY <1>1 DEF ConsumeReturns, PlacesOK, ProducerPlaces, ConsumerPlaces,
       IndexerPlaces, Places
  <2>2. /\ ProductionOK' /\ FeedsOK' /\ WorkingOK' /\ StorageOK'
        /\ TasksOK' /\ UnderwayOK' /\ IndexingOK' /\ AskedOK' /\ EndingOK'
        /\ CountersOK'
    BY <1>1 DEF ConsumeReturns, ProductionOK, FeedsOK, WorkingOK, StorageOK,
       TasksOK, UnderwayOK, IndexingOK, AskedOK, EndingOK, CountersOK
  <2>3. WorkOK'
    BY <1>1 DEF ConsumeReturns, WorkOK, PlacesOK, ConsumerPlaces,
       ProducerPlaces, ProductionOK, WorkingOK, AskedOK, FeedsOK
  <2>4. LockOK'
    BY <1>1 DEF ConsumeReturns, LockOK, UnderwayOK
  <2>5. QED
    BY <2>1, <2>2, <2>3, <2>4
<1>2. CASE ConsumeBegins(s)
  <2>1. PlacesOK'
    BY <1>2 DEF ConsumeBegins, PlacesOK, ProducerPlaces, ConsumerPlaces,
       IndexerPlaces, Places
  <2>2. /\ ProductionOK' /\ FeedsOK' /\ WorkingOK' /\ StorageOK'
        /\ TasksOK' /\ UnderwayOK' /\ IndexingOK' /\ AskedOK' /\ EndingOK'
        /\ CountersOK'
    BY <1>2 DEF ConsumeBegins, ProductionOK, FeedsOK, WorkingOK, StorageOK,
       TasksOK, UnderwayOK, IndexingOK, AskedOK, EndingOK, CountersOK
  <2>3. WorkOK'
    BY <1>2 DEF ConsumeBegins, WorkOK, PlacesOK, ConsumerPlaces,
       ProducerPlaces, ProductionOK, WorkingOK, AskedOK, FeedsOK
  <2>4. LockOK'
    BY <1>2 DEF ConsumeBegins, LockOK, UnderwayOK
  <2>5. QED
    BY <2>1, <2>2, <2>3, <2>4
<1>3. CASE TakesFeed(s)
  <2>1. PlacesOK'
    BY <1>3 DEF TakesFeed, PlacesOK, ProducerPlaces, ConsumerPlaces,
       IndexerPlaces, Places
  <2>2. FeedsOK'
    <3>1. Tail(feeds) \in Seq(Producers) /\ Len(Tail(feeds)) = Len(feeds) - 1
      BY <1>3 DEF TakesFeed, FeedsOK
    <3>2. QED
      BY <1>3, <3>1, Capacities DEF TakesFeed, FeedsOK
  <2>3. WorkingOK'
    BY <1>3 DEF TakesFeed, WorkingOK, FeedsOK, StorageOK, WorkOK
  <2>4. /\ ProductionOK' /\ StorageOK' /\ TasksOK' /\ UnderwayOK'
        /\ IndexingOK' /\ AskedOK' /\ EndingOK' /\ CountersOK'
    BY <1>3 DEF TakesFeed, ProductionOK, StorageOK, TasksOK, UnderwayOK,
       IndexingOK, AskedOK, EndingOK, CountersOK
  <2>5. WorkOK'
    BY <1>3 DEF TakesFeed, WorkOK, PlacesOK, ConsumerPlaces, ProducerPlaces,
       ProductionOK, WorkingOK, AskedOK, FeedsOK
  <2>6. LockOK'
    BY <1>3 DEF TakesFeed, LockOK, UnderwayOK
  <2>7. QED
    BY <2>1, <2>2, <2>3, <2>4, <2>5, <2>6
<1>4. CASE CancelledOutside(s)
  <2>1. PlacesOK'
    BY <1>4 DEF CancelledOutside, PlacesOK, ProducerPlaces, ConsumerPlaces,
       IndexerPlaces, Places
  <2>2. /\ ProductionOK' /\ FeedsOK' /\ WorkingOK' /\ StorageOK'
        /\ TasksOK' /\ UnderwayOK' /\ IndexingOK' /\ AskedOK' /\ EndingOK'
        /\ CountersOK'
    BY <1>4 DEF CancelledOutside, ProductionOK, FeedsOK, WorkingOK, StorageOK,
       TasksOK, UnderwayOK, IndexingOK, AskedOK, EndingOK, CountersOK
  <2>3. WorkOK'
    BY <1>4 DEF CancelledOutside, WorkOK, PlacesOK, ConsumerPlaces,
       ProducerPlaces, ProductionOK, WorkingOK, AskedOK, FeedsOK
  <2>4. LockOK'
    BY <1>4 DEF CancelledOutside, LockOK, UnderwayOK
  <2>5. QED
    BY <2>1, <2>2, <2>3, <2>4
<1>5. CASE CancelledInside(s)
  <2>1. PlacesOK'
    BY <1>5 DEF CancelledInside, Cancellable, Disconnects, PlacesOK,
       ProducerPlaces, ConsumerPlaces, IndexerPlaces, Places
  <2>2. StorageOK'
    BY <1>5 DEF CancelledInside, Cancellable, Disconnects, StorageOK,
       WorkingOK, WorkOK
  <2>3. /\ ProductionOK' /\ FeedsOK' /\ WorkingOK' /\ TasksOK'
        /\ UnderwayOK' /\ IndexingOK' /\ AskedOK' /\ EndingOK' /\ CountersOK'
    BY <1>5 DEF CancelledInside, Cancellable, Disconnects, ProductionOK,
       FeedsOK, WorkingOK, TasksOK, UnderwayOK, IndexingOK, AskedOK, EndingOK,
       CountersOK
  <2>4. WorkOK'
    BY <1>5 DEF CancelledInside, Cancellable, Disconnects, WorkOK, PlacesOK,
       ConsumerPlaces, ProducerPlaces, ProductionOK, WorkingOK, AskedOK,
       FeedsOK
  <2>5. LockOK'
    BY <1>5 DEF CancelledInside, Cancellable, Disconnects, LockOK, UnderwayOK
  <2>6. QED
    BY <2>1, <2>2, <2>3, <2>4, <2>5
<1>6. CASE LeavesLoop(s)
  <2>1. PlacesOK'
    BY <1>6 DEF LeavesLoop, ReAdds, HasBudget, PlacesOK, ProducerPlaces,
       ConsumerPlaces, IndexerPlaces, Places
  <2>2. /\ ProductionOK' /\ FeedsOK' /\ WorkingOK' /\ StorageOK'
        /\ TasksOK' /\ UnderwayOK' /\ IndexingOK' /\ AskedOK' /\ EndingOK'
        /\ CountersOK'
    BY <1>6 DEF LeavesLoop, ReAdds, HasBudget, ProductionOK, FeedsOK,
       WorkingOK, StorageOK, TasksOK, UnderwayOK, IndexingOK, AskedOK,
       EndingOK, CountersOK
  <2>3. WorkOK'
    BY <1>6 DEF LeavesLoop, ReAdds, HasBudget, WorkOK, PlacesOK,
       ConsumerPlaces, ProducerPlaces, ProductionOK, WorkingOK, AskedOK,
       FeedsOK
  <2>4. LockOK'
    BY <1>6 DEF LeavesLoop, ReAdds, HasBudget, LockOK, UnderwayOK
  <2>5. QED
    BY <2>1, <2>2, <2>3, <2>4
<1>7. CASE TakesChunk(s)
  <2>1. PlacesOK'
    BY <1>7 DEF TakesChunk, HasBudget, PlacesOK, ProducerPlaces,
       ConsumerPlaces, IndexerPlaces, Places
  <2>2. FeedsOK'
    BY <1>7 DEF TakesChunk, HasBudget, FeedsOK, ProductionOK, WorkingOK, WorkOK
  <2>3. WorkingOK'
    BY <1>7 DEF TakesChunk, HasBudget, WorkingOK, FeedsOK, StorageOK, WorkOK
  <2>4. UnderwayOK'
    BY <1>7 DEF TakesChunk, HasBudget, UnderwayOK, FeedsOK, WorkingOK, WorkOK,
       StorageOK, LockOK
  <2>5. /\ ProductionOK' /\ StorageOK' /\ TasksOK' /\ IndexingOK'
        /\ AskedOK' /\ EndingOK' /\ CountersOK'
    BY <1>7 DEF TakesChunk, HasBudget, ProductionOK, StorageOK, TasksOK,
       IndexingOK, AskedOK, EndingOK, CountersOK
  <2>6. WorkOK'
    BY <1>7 DEF TakesChunk, HasBudget, WorkOK, PlacesOK, ConsumerPlaces,
       ProducerPlaces, ProductionOK, WorkingOK, AskedOK, FeedsOK
  <2>7. LockOK'
    BY <1>7 DEF TakesChunk, HasBudget, LockOK, UnderwayOK, WorkOK, WorkingOK,
       FeedsOK, Unlocked
  <2>8. QED
    BY <2>1, <2>2, <2>3, <2>4, <2>5, <2>6, <2>7
<1>8. CASE Sends(s)
  <2>1. PlacesOK'
    BY <1>8 DEF Sends, Reported, PlacesOK, ProducerPlaces, ConsumerPlaces,
       IndexerPlaces, Places
  <2>2. WorkingOK'
    BY <1>8 DEF Sends, Reported, WorkingOK, FeedsOK, StorageOK, WorkOK
  <2>3. StorageOK'
    <3>1. held[s] \in Chunks
      BY <1>8 DEF Sends, WorkOK
    <3>2. wire[s] \cup {held[s]} \in SUBSET Chunks
      BY <3>1 DEF StorageOK
    <3>3. QED
      BY <1>8, <3>2 DEF Sends, StorageOK
  <2>4. CountersOK'
    BY <1>8 DEF Sends, Reported, CountersOK, WorkingOK, WorkOK
  <2>5. /\ ProductionOK' /\ FeedsOK' /\ TasksOK' /\ UnderwayOK'
        /\ IndexingOK' /\ AskedOK' /\ EndingOK'
    BY <1>8 DEF Sends, Reported, ProductionOK, FeedsOK, TasksOK, UnderwayOK,
       IndexingOK, AskedOK, EndingOK
  <2>6. WorkOK'
    BY <1>8 DEF Sends, Reported, WorkOK, PlacesOK, ConsumerPlaces,
       ProducerPlaces, ProductionOK, WorkingOK, AskedOK, FeedsOK
  <2>7. LockOK'
    BY <1>8 DEF Sends, Reported, LockOK, UnderwayOK
  <2>8. QED
    BY <2>1, <2>2, <2>3, <2>4, <2>5, <2>6, <2>7
<1>9. CASE SendRefused(s)
  <2>1. PlacesOK'
    BY <1>9 DEF SendRefused, Reported, PlacesOK, ProducerPlaces,
       ConsumerPlaces, IndexerPlaces, Places
  <2>2. CountersOK'
    BY <1>9 DEF SendRefused, Reported, CountersOK, WorkingOK, WorkOK
  <2>3. /\ ProductionOK' /\ FeedsOK' /\ WorkingOK' /\ StorageOK'
        /\ TasksOK' /\ UnderwayOK' /\ IndexingOK' /\ AskedOK' /\ EndingOK'
    BY <1>9 DEF SendRefused, Reported, ProductionOK, FeedsOK, WorkingOK,
       StorageOK, TasksOK, UnderwayOK, IndexingOK, AskedOK, EndingOK
  <2>4. WorkOK'
    BY <1>9 DEF SendRefused, Reported, WorkOK, PlacesOK, ConsumerPlaces,
       ProducerPlaces, ProductionOK, WorkingOK, AskedOK, FeedsOK
  <2>5. LockOK'
    BY <1>9 DEF SendRefused, Reported, LockOK, UnderwayOK
  <2>6. QED
    BY <2>1, <2>2, <2>3, <2>4, <2>5
<1>10. CASE Confirmed(s)
  <2>1. PlacesOK'
    BY <1>10 DEF Confirmed, PlacesOK, ProducerPlaces, ConsumerPlaces,
       IndexerPlaces, Places
  <2>2. UnderwayOK'
    BY <1>10 DEF Confirmed, UnderwayOK, FeedsOK, WorkingOK, WorkOK, StorageOK,
       LockOK
  <2>3. /\ ProductionOK' /\ FeedsOK' /\ WorkingOK' /\ StorageOK'
        /\ TasksOK' /\ IndexingOK' /\ AskedOK' /\ EndingOK' /\ CountersOK'
    BY <1>10 DEF Confirmed, ProductionOK, FeedsOK, WorkingOK, StorageOK,
       TasksOK, IndexingOK, AskedOK, EndingOK, CountersOK
  <2>4. WorkOK'
    BY <1>10 DEF Confirmed, WorkOK, PlacesOK, ConsumerPlaces, ProducerPlaces,
       ProductionOK, WorkingOK, AskedOK, FeedsOK
  <2>5. LockOK'
    BY <1>10 DEF Confirmed, LockOK, UnderwayOK, WorkOK, WorkingOK, FeedsOK,
       Unlocked
  <2>6. QED
    BY <2>1, <2>2, <2>3, <2>4, <2>5
<1>11. CASE Retries(s)
  <2>1. PlacesOK'
    BY <1>11 DEF Retries, DisposedAfterRetry, PlacesOK, ProducerPlaces,
       ConsumerPlaces, IndexerPlaces, Places
  <2>2. FeedsOK'
    BY <1>11 DEF Retries, DisposedAfterRetry, FeedsOK, ProductionOK,
       WorkingOK, WorkOK
  <2>3. UnderwayOK'
    BY <1>11 DEF Retries, DisposedAfterRetry, UnderwayOK, FeedsOK, WorkingOK,
       WorkOK, StorageOK, LockOK
  <2>4. /\ ProductionOK' /\ WorkingOK' /\ StorageOK' /\ TasksOK'
        /\ IndexingOK' /\ AskedOK' /\ EndingOK' /\ CountersOK'
    BY <1>11 DEF Retries, DisposedAfterRetry, ProductionOK, WorkingOK,
       StorageOK, TasksOK, IndexingOK, AskedOK, EndingOK, CountersOK
  <2>5. WorkOK'
    BY <1>11 DEF Retries, DisposedAfterRetry, WorkOK, PlacesOK,
       ConsumerPlaces, ProducerPlaces, ProductionOK, WorkingOK, AskedOK,
       FeedsOK
  <2>6. LockOK'
    BY <1>11 DEF Retries, DisposedAfterRetry, LockOK, UnderwayOK, WorkOK,
       WorkingOK, FeedsOK, Unlocked
  <2>7. QED
    BY <2>1, <2>2, <2>3, <2>4, <2>5, <2>6
<1>12. CASE GivesUp(s)
  <2>1. PlacesOK'
    BY <1>12 DEF GivesUp, DisposedAfterRetry, PlacesOK, ProducerPlaces,
       ConsumerPlaces, IndexerPlaces, Places
  <2>2. UnderwayOK'
    BY <1>12 DEF GivesUp, DisposedAfterRetry, UnderwayOK, FeedsOK, WorkingOK,
       WorkOK, StorageOK, LockOK
  <2>3. /\ ProductionOK' /\ FeedsOK' /\ WorkingOK' /\ StorageOK'
        /\ TasksOK' /\ IndexingOK' /\ AskedOK' /\ EndingOK' /\ CountersOK'
    BY <1>12 DEF GivesUp, DisposedAfterRetry, ProductionOK, FeedsOK,
       WorkingOK, StorageOK, TasksOK, IndexingOK, AskedOK, EndingOK, CountersOK
  <2>4. WorkOK'
    BY <1>12 DEF GivesUp, DisposedAfterRetry, WorkOK, PlacesOK,
       ConsumerPlaces, ProducerPlaces, ProductionOK, WorkingOK, AskedOK,
       FeedsOK
  <2>5. LockOK'
    BY <1>12 DEF GivesUp, DisposedAfterRetry, LockOK, UnderwayOK, WorkOK,
       WorkingOK, FeedsOK, Unlocked
  <2>6. QED
    BY <2>1, <2>2, <2>3, <2>4, <2>5
<1>13. CASE HandsBack(s)
  <2>1. PlacesOK'
    BY <1>13 DEF HandsBack, PlacesOK, ProducerPlaces, ConsumerPlaces,
       IndexerPlaces, Places
  <2>2. FeedsOK'
    <3>1. feed[s] \in Producers
      BY <1>13 DEF HandsBack, WorkOK
    <3>2. /\ Append(feeds, feed[s]) \in Seq(Producers)
          /\ Len(Append(feeds, feed[s])) = Len(feeds) + 1
      BY <3>1 DEF FeedsOK
    <3>3. QED
      BY <1>13, <3>2, Capacities DEF HandsBack, FeedsOK
  <2>3. /\ ProductionOK' /\ WorkingOK' /\ StorageOK' /\ TasksOK'
        /\ UnderwayOK' /\ IndexingOK' /\ AskedOK' /\ EndingOK' /\ CountersOK'
    BY <1>13 DEF HandsBack, ProductionOK, WorkingOK, StorageOK, TasksOK,
       UnderwayOK, IndexingOK, AskedOK, EndingOK, CountersOK
  <2>4. WorkOK'
    BY <1>13 DEF HandsBack, WorkOK, PlacesOK, ConsumerPlaces, ProducerPlaces,
       ProductionOK, WorkingOK, AskedOK, FeedsOK
  <2>5. LockOK'
    BY <1>13 DEF HandsBack, LockOK, UnderwayOK
  <2>6. QED
    BY <2>1, <2>2, <2>3, <2>4, <2>5
<1>14. QED
  BY <1>1, <1>2, <1>3, <1>4, <1>5, <1>6, <1>7, <1>8, <1>9, <1>10, <1>11, <1>12, <1>13
     DEF Consume

\* Failures.
LEMMA FailsType ==
  ASSUME TypeInv, NEW s \in Sessions,
         \/ SessionFails(s) \/ SendBreaks(s) \/ SendFails(s)
         \/ TimesOut(s) \/ EndFails(s) \/ SessionBreaks(s)
  PROVE  TypeInv'
<1> USE ConstantsAssumption
    DEF TypeInv, Threads, At, Goto, production, feedState, working, storage,
        tasks, underway, indexing, asked, ending, counters
<1>1. CASE SessionFails(s)
  <2>1. AskedOK'
    BY <1>1 DEF SessionFails, Fails, AskedOK
  <2>2. CountersOK'
    BY <1>1 DEF SessionFails, Fails, CountersOK, WorkingOK, WorkOK
  <2>3. /\ PlacesOK' /\ ProductionOK' /\ FeedsOK' /\ WorkingOK'
        /\ StorageOK' /\ TasksOK' /\ UnderwayOK' /\ IndexingOK' /\ EndingOK'
    BY <1>1 DEF SessionFails, Fails, PlacesOK, ProductionOK, FeedsOK,
       WorkingOK, StorageOK, TasksOK, UnderwayOK, IndexingOK, EndingOK
  <2>4. WorkOK'
    BY <1>1 DEF SessionFails, Fails, WorkOK, PlacesOK, ConsumerPlaces,
       ProducerPlaces, ProductionOK, WorkingOK, AskedOK, FeedsOK
  <2>5. LockOK'
    BY <1>1 DEF SessionFails, Fails, LockOK, UnderwayOK
  <2>6. QED
    BY <2>1, <2>2, <2>3, <2>4, <2>5
<1>2. CASE SendBreaks(s)
  <2>1. PlacesOK'
    BY <1>2 DEF SendBreaks, Fails, Removed, Reported, PlacesOK,
       ProducerPlaces, ConsumerPlaces, IndexerPlaces, Places
  <2>2. UnderwayOK'
    BY <1>2 DEF SendBreaks, Fails, Removed, Reported, UnderwayOK, FeedsOK,
       WorkingOK, WorkOK, StorageOK, LockOK
  <2>3. AskedOK'
    BY <1>2 DEF SendBreaks, Fails, Removed, Reported, AskedOK
  <2>4. CountersOK'
    BY <1>2 DEF SendBreaks, Fails, Removed, Reported, CountersOK, WorkingOK,
       WorkOK
  <2>5. /\ ProductionOK' /\ FeedsOK' /\ WorkingOK' /\ StorageOK'
        /\ TasksOK' /\ IndexingOK' /\ EndingOK'
    BY <1>2 DEF SendBreaks, Fails, Removed, Reported, ProductionOK, FeedsOK,
       WorkingOK, StorageOK, TasksOK, IndexingOK, EndingOK
  <2>6. WorkOK'
    BY <1>2 DEF SendBreaks, Fails, Removed, Reported, WorkOK, PlacesOK,
       ConsumerPlaces, ProducerPlaces, ProductionOK, WorkingOK, AskedOK,
       FeedsOK
  <2>7. LockOK'
    BY <1>2 DEF SendBreaks, Fails, Removed, Reported, LockOK, UnderwayOK,
       WorkOK, WorkingOK, FeedsOK, Unlocked
  <2>8. QED
    BY <2>1, <2>2, <2>3, <2>4, <2>5, <2>6, <2>7
<1>3. CASE SendFails(s)
  <2>1. PlacesOK'
    BY <1>3 DEF SendFails, Fails, PlacesOK, ProducerPlaces, ConsumerPlaces,
       IndexerPlaces, Places
  <2>2. CountersOK'
    BY <1>3 DEF SendFails, Fails, CountersOK, WorkingOK, WorkOK
  <2>3. /\ ProductionOK' /\ FeedsOK' /\ WorkingOK' /\ StorageOK'
        /\ TasksOK' /\ UnderwayOK' /\ IndexingOK' /\ AskedOK' /\ EndingOK'
    BY <1>3 DEF SendFails, Fails, ProductionOK, FeedsOK, WorkingOK, StorageOK,
       TasksOK, UnderwayOK, IndexingOK, AskedOK, EndingOK
  <2>4. WorkOK'
    BY <1>3 DEF SendFails, Fails, WorkOK, PlacesOK, ConsumerPlaces,
       ProducerPlaces, ProductionOK, WorkingOK, AskedOK, FeedsOK
  <2>5. LockOK'
    BY <1>3 DEF SendFails, Fails, LockOK, UnderwayOK
  <2>6. QED
    BY <2>1, <2>2, <2>3, <2>4, <2>5
<1>4. CASE TimesOut(s)
  <2>1. PlacesOK'
    BY <1>4 DEF TimesOut, Reported, PlacesOK, ProducerPlaces, ConsumerPlaces,
       IndexerPlaces, Places
  <2>2. CountersOK'
    BY <1>4 DEF TimesOut, Reported, CountersOK, WorkingOK, WorkOK
  <2>3. /\ ProductionOK' /\ FeedsOK' /\ WorkingOK' /\ StorageOK'
        /\ TasksOK' /\ UnderwayOK' /\ IndexingOK' /\ AskedOK' /\ EndingOK'
    BY <1>4 DEF TimesOut, Reported, ProductionOK, FeedsOK, WorkingOK,
       StorageOK, TasksOK, UnderwayOK, IndexingOK, AskedOK, EndingOK
  <2>4. WorkOK'
    BY <1>4 DEF TimesOut, Reported, WorkOK, PlacesOK, ConsumerPlaces,
       ProducerPlaces, ProductionOK, WorkingOK, AskedOK, FeedsOK
  <2>5. LockOK'
    BY <1>4 DEF TimesOut, Reported, LockOK, UnderwayOK
  <2>6. QED
    BY <2>1, <2>2, <2>3, <2>4, <2>5
<1>5. CASE EndFails(s)
  <2>1. PlacesOK'
    BY <1>5 DEF EndFails, Fails, PlacesOK, ProducerPlaces, ConsumerPlaces,
       IndexerPlaces, Places
  <2>2. CountersOK'
    BY <1>5 DEF EndFails, Fails, CountersOK, WorkingOK, WorkOK
  <2>3. /\ ProductionOK' /\ FeedsOK' /\ WorkingOK' /\ StorageOK'
        /\ TasksOK' /\ UnderwayOK' /\ IndexingOK' /\ AskedOK' /\ EndingOK'
    BY <1>5 DEF EndFails, Fails, ProductionOK, FeedsOK, WorkingOK, StorageOK,
       TasksOK, UnderwayOK, IndexingOK, AskedOK, EndingOK
  <2>4. WorkOK'
    BY <1>5 DEF EndFails, Fails, WorkOK, PlacesOK, ConsumerPlaces,
       ProducerPlaces, ProductionOK, WorkingOK, AskedOK, FeedsOK
  <2>5. LockOK'
    BY <1>5 DEF EndFails, Fails, LockOK, UnderwayOK
  <2>6. QED
    BY <2>1, <2>2, <2>3, <2>4, <2>5
<1>6. CASE SessionBreaks(s)
  <2>1. StorageOK'
    BY <1>6 DEF SessionBreaks, Fails, Disconnects, StorageOK, WorkingOK, WorkOK
  <2>2. CountersOK'
    BY <1>6 DEF SessionBreaks, Fails, Disconnects, CountersOK, WorkingOK,
       WorkOK
  <2>3. /\ PlacesOK' /\ ProductionOK' /\ FeedsOK' /\ WorkingOK' /\ TasksOK'
        /\ UnderwayOK' /\ IndexingOK' /\ AskedOK' /\ EndingOK'
    BY <1>6 DEF SessionBreaks, Fails, Disconnects, PlacesOK, ProductionOK,
       FeedsOK, WorkingOK, TasksOK, UnderwayOK, IndexingOK, AskedOK, EndingOK
  <2>4. WorkOK'
    BY <1>6 DEF SessionBreaks, Fails, Disconnects, WorkOK, PlacesOK,
       ConsumerPlaces, ProducerPlaces, ProductionOK, WorkingOK, AskedOK,
       FeedsOK
  <2>5. LockOK'
    BY <1>6 DEF SessionBreaks, Fails, Disconnects, LockOK, UnderwayOK
  <2>6. QED
    BY <2>1, <2>2, <2>3, <2>4, <2>5
<1>7. QED
  BY <1>1, <1>2, <1>3, <1>4, <1>5, <1>6 DEF SessionFails, SendBreaks,
     SendFails, TimesOut, EndFails, SessionBreaks

\* The continuation of a consumer.
LEMMA AfterTaskType ==
  ASSUME TypeInv, NEW s \in Sessions, AfterTask(s)
  PROVE  TypeInv'
<1> USE ConstantsAssumption
    DEF TypeInv, Threads, At, Goto, production, feedState, working, storage,
        tasks, underway, indexing, asked, ending, counters
<1>1. CASE Sweeps(s)
  <2>1. PlacesOK'
    BY <1>1 DEF Sweeps, PlacesOK, ProducerPlaces, ConsumerPlaces,
       IndexerPlaces, Places
  <2>2. WorkingOK'
    BY <1>1 DEF Sweeps, WorkingOK, FeedsOK, StorageOK, WorkOK
  <2>3. TasksOK'
    BY <1>1 DEF Sweeps, TasksOK
  <2>4. /\ ProductionOK' /\ FeedsOK' /\ StorageOK' /\ UnderwayOK'
        /\ IndexingOK' /\ AskedOK' /\ EndingOK' /\ CountersOK'
    BY <1>1 DEF Sweeps, ProductionOK, FeedsOK, StorageOK, UnderwayOK,
       IndexingOK, AskedOK, EndingOK, CountersOK
  <2>5. WorkOK'
    BY <1>1 DEF Sweeps, WorkOK, PlacesOK, ConsumerPlaces, ProducerPlaces,
       ProductionOK, WorkingOK, AskedOK, FeedsOK
  <2>6. LockOK'
    BY <1>1 DEF Sweeps, LockOK, UnderwayOK
  <2>7. QED
    BY <2>1, <2>2, <2>3, <2>4, <2>5, <2>6
<1>2. CASE AsksAgain(s)
  <2>1. PlacesOK'
    BY <1>2 DEF AsksAgain, PlacesOK, ProducerPlaces, ConsumerPlaces,
       IndexerPlaces, Places
  <2>2. AskedOK'
    BY <1>2 DEF AsksAgain, AskedOK
  <2>3. /\ ProductionOK' /\ FeedsOK' /\ WorkingOK' /\ StorageOK'
        /\ TasksOK' /\ UnderwayOK' /\ IndexingOK' /\ EndingOK' /\ CountersOK'
    BY <1>2 DEF AsksAgain, ProductionOK, FeedsOK, WorkingOK, StorageOK,
       TasksOK, UnderwayOK, IndexingOK, EndingOK, CountersOK
  <2>4. WorkOK'
    BY <1>2 DEF AsksAgain, WorkOK, PlacesOK, ConsumerPlaces, ProducerPlaces,
       ProductionOK, WorkingOK, AskedOK, FeedsOK
  <2>5. LockOK'
    BY <1>2 DEF AsksAgain, LockOK, UnderwayOK
  <2>6. QED
    BY <2>1, <2>2, <2>3, <2>4, <2>5
<1>3. CASE EndsSession(s)
  <2>1. PlacesOK'
    BY <1>3 DEF EndsSession, Disconnects, PlacesOK, ProducerPlaces,
       ConsumerPlaces, IndexerPlaces, Places
  <2>2. StorageOK'
    BY <1>3 DEF EndsSession, Disconnects, StorageOK, WorkingOK, WorkOK
  <2>3. /\ ProductionOK' /\ FeedsOK' /\ WorkingOK' /\ TasksOK'
        /\ UnderwayOK' /\ IndexingOK' /\ AskedOK' /\ EndingOK' /\ CountersOK'
    BY <1>3 DEF EndsSession, Disconnects, ProductionOK, FeedsOK, WorkingOK,
       TasksOK, UnderwayOK, IndexingOK, AskedOK, EndingOK, CountersOK
  <2>4. WorkOK'
    BY <1>3 DEF EndsSession, Disconnects, WorkOK, PlacesOK, ConsumerPlaces,
       ProducerPlaces, ProductionOK, WorkingOK, AskedOK, FeedsOK
  <2>5. LockOK'
    BY <1>3 DEF EndsSession, Disconnects, LockOK, UnderwayOK
  <2>6. QED
    BY <2>1, <2>2, <2>3, <2>4, <2>5
<1>4. CASE SeesNoFeeds(s)
  <2>1. PlacesOK'
    BY <1>4 DEF SeesNoFeeds, PlacesOK, ProducerPlaces, ConsumerPlaces,
       IndexerPlaces, Places
  <2>2. /\ ProductionOK' /\ FeedsOK' /\ WorkingOK' /\ StorageOK'
        /\ TasksOK' /\ UnderwayOK' /\ IndexingOK' /\ AskedOK' /\ EndingOK'
        /\ CountersOK'
    BY <1>4 DEF SeesNoFeeds, ProductionOK, FeedsOK, WorkingOK, StorageOK,
       TasksOK, UnderwayOK, IndexingOK, AskedOK, EndingOK, CountersOK
  <2>3. WorkOK'
    BY <1>4 DEF SeesNoFeeds, WorkOK, PlacesOK, ConsumerPlaces, ProducerPlaces,
       ProductionOK, WorkingOK, AskedOK, FeedsOK
  <2>4. LockOK'
    BY <1>4 DEF SeesNoFeeds, LockOK, UnderwayOK
  <2>5. QED
    BY <2>1, <2>2, <2>3, <2>4
<1>5. CASE DataBackupDone(s)
  <2>1. PlacesOK'
    BY <1>5 DEF DataBackupDone, NoConsumerLeft, PlacesOK, ProducerPlaces,
       ConsumerPlaces, IndexerPlaces, Places
  <2>2. IndexingOK'
    BY <1>5 DEF DataBackupDone, NoConsumerLeft, IndexingOK, UnderwayOK
  <2>3. /\ ProductionOK' /\ FeedsOK' /\ WorkingOK' /\ StorageOK'
        /\ TasksOK' /\ UnderwayOK' /\ AskedOK' /\ EndingOK' /\ CountersOK'
    BY <1>5 DEF DataBackupDone, NoConsumerLeft, ProductionOK, FeedsOK,
       WorkingOK, StorageOK, TasksOK, UnderwayOK, AskedOK, EndingOK, CountersOK
  <2>4. WorkOK'
    BY <1>5 DEF DataBackupDone, NoConsumerLeft, WorkOK, PlacesOK,
       ConsumerPlaces, ProducerPlaces, ProductionOK, WorkingOK, AskedOK,
       FeedsOK
  <2>5. LockOK'
    BY <1>5 DEF DataBackupDone, NoConsumerLeft, LockOK, UnderwayOK
  <2>6. QED
    BY <2>1, <2>2, <2>3, <2>4, <2>5
<1>6. QED
  BY <1>1, <1>2, <1>3, <1>4, <1>5 DEF AfterTask

\* The thread that reads a session.
LEMMA ReadType ==
  ASSUME TypeInv, NEW s \in Sessions, Read(s)
  PROVE  TypeInv'
<1> USE ConstantsAssumption
    DEF TypeInv, Threads, At, Goto, production, feedState, working, storage,
        tasks, underway, indexing, asked, ending, counters
<1>1. CASE ManageChunkSent(s)
  <2>1. StorageOK'
    BY <1>1 DEF ManageChunkSent, StorageOK, WorkingOK, WorkOK
  <2>2. UnderwayOK'
    BY <1>1 DEF ManageChunkSent, UnderwayOK, FeedsOK, WorkingOK, WorkOK,
       StorageOK, LockOK
  <2>3. /\ PlacesOK' /\ ProductionOK' /\ FeedsOK' /\ WorkingOK' /\ TasksOK'
        /\ IndexingOK' /\ AskedOK' /\ EndingOK' /\ CountersOK'
    BY <1>1 DEF ManageChunkSent, PlacesOK, ProductionOK, FeedsOK, WorkingOK,
       TasksOK, IndexingOK, AskedOK, EndingOK, CountersOK
  <2>4. WorkOK'
    BY <1>1 DEF ManageChunkSent, WorkOK, PlacesOK, ConsumerPlaces,
       ProducerPlaces, ProductionOK, WorkingOK, AskedOK, FeedsOK
  <2>5. LockOK'
    BY <1>1 DEF ManageChunkSent, LockOK, UnderwayOK, WorkOK, WorkingOK,
       FeedsOK, Unlocked
  <2>6. QED
    BY <2>1, <2>2, <2>3, <2>4, <2>5
<1>2. CASE ConfirmationIgnored(s)
  <2>1. StorageOK'
    BY <1>2 DEF ConfirmationIgnored, StorageOK, WorkingOK, WorkOK
  <2>2. /\ PlacesOK' /\ ProductionOK' /\ FeedsOK' /\ WorkingOK' /\ TasksOK'
        /\ UnderwayOK' /\ IndexingOK' /\ AskedOK' /\ EndingOK' /\ CountersOK'
    BY <1>2 DEF ConfirmationIgnored, PlacesOK, ProductionOK, FeedsOK,
       WorkingOK, TasksOK, UnderwayOK, IndexingOK, AskedOK, EndingOK,
       CountersOK
  <2>3. WorkOK'
    BY <1>2 DEF ConfirmationIgnored, WorkOK, PlacesOK, ConsumerPlaces,
       ProducerPlaces, ProductionOK, WorkingOK, AskedOK, FeedsOK
  <2>4. LockOK'
    BY <1>2 DEF ConfirmationIgnored, LockOK, UnderwayOK
  <2>5. QED
    BY <2>1, <2>2, <2>3, <2>4
<1>3. CASE HandsToIndexer(s)
  <2>1. UnderwayOK'
    BY <1>3 DEF HandsToIndexer, UnderwayOK, FeedsOK, WorkingOK, WorkOK,
       StorageOK, LockOK
  <2>2. IndexingOK'
    <3>1. reading[s] \in Chunks
      BY <1>3 DEF HandsToIndexer, UnderwayOK
    <3>2. /\ Append(indexFeed, reading[s]) \in Seq(Chunks)
          /\ Len(Append(indexFeed, reading[s])) = Len(indexFeed) + 1
      BY <3>1 DEF IndexingOK
    <3>3. QED
      BY <1>3, <3>2, Capacities DEF HandsToIndexer, IndexingOK
  <2>3. /\ PlacesOK' /\ ProductionOK' /\ FeedsOK' /\ WorkingOK'
        /\ StorageOK' /\ TasksOK' /\ AskedOK' /\ EndingOK' /\ CountersOK'
    BY <1>3 DEF HandsToIndexer, PlacesOK, ProductionOK, FeedsOK, WorkingOK,
       StorageOK, TasksOK, AskedOK, EndingOK, CountersOK
  <2>4. WorkOK'
    BY <1>3 DEF HandsToIndexer, WorkOK, PlacesOK, ConsumerPlaces,
       ProducerPlaces, ProductionOK, WorkingOK, AskedOK, FeedsOK
  <2>5. LockOK'
    BY <1>3 DEF HandsToIndexer, LockOK, UnderwayOK, WorkOK, WorkingOK,
       FeedsOK, Unlocked
  <2>6. QED
    BY <2>1, <2>2, <2>3, <2>4, <2>5
<1>4. CASE IndexerRefuses(s)
  <2>1. StorageOK'
    BY <1>4 DEF IndexerRefuses, Disconnects, StorageOK, WorkingOK, WorkOK
  <2>2. UnderwayOK'
    BY <1>4 DEF IndexerRefuses, Disconnects, UnderwayOK, FeedsOK, WorkingOK,
       WorkOK, StorageOK, LockOK
  <2>3. /\ PlacesOK' /\ ProductionOK' /\ FeedsOK' /\ WorkingOK' /\ TasksOK'
        /\ IndexingOK' /\ AskedOK' /\ EndingOK' /\ CountersOK'
    BY <1>4 DEF IndexerRefuses, Disconnects, PlacesOK, ProductionOK, FeedsOK,
       WorkingOK, TasksOK, IndexingOK, AskedOK, EndingOK, CountersOK
  <2>4. WorkOK'
    BY <1>4 DEF IndexerRefuses, Disconnects, WorkOK, PlacesOK, ConsumerPlaces,
       ProducerPlaces, ProductionOK, WorkingOK, AskedOK, FeedsOK
  <2>5. LockOK'
    BY <1>4 DEF IndexerRefuses, Disconnects, LockOK, UnderwayOK, WorkOK,
       WorkingOK, FeedsOK, Unlocked
  <2>6. QED
    BY <2>1, <2>2, <2>3, <2>4, <2>5
<1>5. QED
  BY <1>1, <1>2, <1>3, <1>4 DEF Read

\* A session is granted.
LEMMA SessionReceivedType ==
  ASSUME TypeInv, NEW s \in Sessions, SessionReceived(s)
  PROVE  TypeInv'
<1> USE ConstantsAssumption
    DEF TypeInv, Threads, At, Goto, production, feedState, working, storage,
        tasks, underway, indexing, asked, ending, counters
<1>1. /\ pc[HubReader] = "idle" /\ pc[s] \in {"none", "idle"}
      /\ pc' = [pc EXCEPT ![s] = "start", ![HubReader] = "registering"]
  BY DEF SessionReceived, Answers, WorkOK
<1>2. /\ pc'[s] = "start" /\ pc'[HubReader] = "registering"
      /\ \A w \in Threads \ {s, HubReader} : pc'[w] = pc[w]
      /\ pc' \in [Threads -> Places]
  BY <1>1 DEF PlacesOK, Places, ConsumerPlaces
<1>3. PlacesOK'
  BY <1>2 DEF PlacesOK, ConsumerPlaces
<1>4. renewals' \subseteq renewals \ {s} /\ fresh' \in Nat
  <2>1. s \in renewals => pc[s] = "idle"
    BY DEF WorkOK
  <2>2. QED
    BY <2>1 DEF SessionReceived, Answers, AskedOK
<1>5. AskedOK'
  BY <1>4 DEF SessionReceived, AskedOK
<1>6. WorkingOK'
  <2>1. PICK n \in 1..MaxBudget :
          budget' = [budget EXCEPT ![s] = n + IF s \in open THEN @ ELSE 0]
    BY DEF SessionReceived
  <2>2. QED
    BY <2>1 DEF SessionReceived, WorkingOK
<1>7. StorageOK' /\ TasksOK'
  BY DEF SessionReceived, StorageOK, TasksOK
<1>8. /\ ProductionOK' /\ FeedsOK' /\ UnderwayOK' /\ IndexingOK' /\ EndingOK'
      /\ CountersOK' /\ LockOK'
  BY DEF SessionReceived, ProductionOK, FeedsOK, UnderwayOK, IndexingOK,
         EndingOK, CountersOK, LockOK
<1>9. WorkOK'
  <2>1. \A r \in Sessions \ {s} : pc'[r] = pc[r] /\ budget'[r] = budget[r]
    BY <1>2 DEF SessionReceived, WorkingOK
  <2>2. \A p \in Producers : pc'[p] = pc[p]
    BY <1>2
  <2>3. feed' = feed /\ held' = held /\ mine' = mine
    BY DEF SessionReceived
  <2>4. QED
    BY <1>2, <1>4, <2>1, <2>2, <2>3 DEF WorkOK
<1>10. QED
  BY <1>3, <1>5, <1>6, <1>7, <1>8, <1>9

\* The indexer, and the thread that reads the messages of the hub.
LEMMA IndexType ==
  ASSUME TypeInv, \/ Index \/ SendIndex \/ IndexSessionFails \/ IndexNotSent
         \/ Registers \/ CancelTask \/ CancelEnds
  PROVE  TypeInv'
<1> USE ConstantsAssumption
    DEF TypeInv, Threads, At, Goto, production, feedState, working, storage,
        tasks, underway, indexing, asked, ending, counters
<1>1. CASE IndexerStarts
  <2>1. PlacesOK'
    BY <1>1 DEF IndexerStarts, PlacesOK, ProducerPlaces, ConsumerPlaces,
       IndexerPlaces, Places
  <2>2. /\ ProductionOK' /\ FeedsOK' /\ WorkingOK' /\ StorageOK'
        /\ TasksOK' /\ UnderwayOK' /\ IndexingOK' /\ AskedOK' /\ EndingOK'
        /\ CountersOK'
    BY <1>1 DEF IndexerStarts, ProductionOK, FeedsOK, WorkingOK, StorageOK,
       TasksOK, UnderwayOK, IndexingOK, AskedOK, EndingOK, CountersOK
  <2>3. WorkOK'
    BY <1>1 DEF IndexerStarts, WorkOK, PlacesOK, ConsumerPlaces,
       ProducerPlaces, ProductionOK, WorkingOK, AskedOK, FeedsOK
  <2>4. LockOK'
    BY <1>1 DEF IndexerStarts, LockOK, UnderwayOK
  <2>5. QED
    BY <2>1, <2>2, <2>3, <2>4
<1>2. CASE Indexes
  <2>1. IndexingOK'
    <3>1. /\ Head(indexFeed) \in Chunks
          /\ Tail(indexFeed) \in Seq(Chunks)
          /\ Len(Tail(indexFeed)) = Len(indexFeed) - 1
      BY <1>2 DEF Indexes, IndexingOK
    <3>2. Append(index, Head(indexFeed)) \in Seq(Chunks)
      BY <3>1 DEF IndexingOK
    <3>3. QED
      BY <1>2, <3>1, <3>2, Capacities DEF Indexes, IndexingOK
  <2>2. /\ PlacesOK' /\ ProductionOK' /\ FeedsOK' /\ WorkingOK'
        /\ StorageOK' /\ TasksOK' /\ UnderwayOK' /\ AskedOK' /\ EndingOK'
        /\ CountersOK'
    BY <1>2 DEF Indexes, PlacesOK, ProductionOK, FeedsOK, WorkingOK,
       StorageOK, TasksOK, UnderwayOK, AskedOK, EndingOK, CountersOK
  <2>3. WorkOK'
    BY <1>2 DEF Indexes, WorkOK, PlacesOK, ConsumerPlaces, ProducerPlaces,
       ProductionOK, WorkingOK, AskedOK, FeedsOK
  <2>4. LockOK'
    BY <1>2 DEF Indexes, LockOK, UnderwayOK
  <2>5. QED
    BY <2>1, <2>2, <2>3, <2>4
<1>3. CASE IndexerEnds
  <2>1. PlacesOK'
    BY <1>3 DEF IndexerEnds, PlacesOK, ProducerPlaces, ConsumerPlaces,
       IndexerPlaces, Places
  <2>2. /\ ProductionOK' /\ FeedsOK' /\ WorkingOK' /\ StorageOK'
        /\ TasksOK' /\ UnderwayOK' /\ IndexingOK' /\ AskedOK' /\ EndingOK'
        /\ CountersOK'
    BY <1>3 DEF IndexerEnds, ProductionOK, FeedsOK, WorkingOK, StorageOK,
       TasksOK, UnderwayOK, IndexingOK, AskedOK, EndingOK, CountersOK
  <2>3. WorkOK'
    BY <1>3 DEF IndexerEnds, WorkOK, PlacesOK, ConsumerPlaces, ProducerPlaces,
       ProductionOK, WorkingOK, AskedOK, FeedsOK
  <2>4. LockOK'
    BY <1>3 DEF IndexerEnds, LockOK, UnderwayOK
  <2>5. QED
    BY <2>1, <2>2, <2>3, <2>4
<1>4. CASE ProcessIndex
  <2>1. PlacesOK'
    BY <1>4 DEF ProcessIndex, PlacesOK, ProducerPlaces, ConsumerPlaces,
       IndexerPlaces, Places
  <2>2. /\ ProductionOK' /\ FeedsOK' /\ WorkingOK' /\ StorageOK'
        /\ TasksOK' /\ UnderwayOK' /\ IndexingOK' /\ AskedOK' /\ EndingOK'
        /\ CountersOK'
    BY <1>4 DEF ProcessIndex, ProductionOK, FeedsOK, WorkingOK, StorageOK,
       TasksOK, UnderwayOK, IndexingOK, AskedOK, EndingOK, CountersOK
  <2>3. WorkOK'
    BY <1>4 DEF ProcessIndex, WorkOK, PlacesOK, ConsumerPlaces,
       ProducerPlaces, ProductionOK, WorkingOK, AskedOK, FeedsOK
  <2>4. LockOK'
    BY <1>4 DEF ProcessIndex, LockOK, UnderwayOK
  <2>5. QED
    BY <2>1, <2>2, <2>3, <2>4
<1>5. CASE BackupDone
  <2>1. PlacesOK'
    BY <1>5 DEF BackupDone, PlacesOK, ProducerPlaces, ConsumerPlaces,
       IndexerPlaces, Places
  <2>2. EndingOK'
    BY <1>5 DEF BackupDone, EndingOK, TasksOK
  <2>3. /\ ProductionOK' /\ FeedsOK' /\ WorkingOK' /\ StorageOK'
        /\ TasksOK' /\ UnderwayOK' /\ IndexingOK' /\ AskedOK' /\ CountersOK'
    BY <1>5 DEF BackupDone, ProductionOK, FeedsOK, WorkingOK, StorageOK,
       TasksOK, UnderwayOK, IndexingOK, AskedOK, CountersOK
  <2>4. WorkOK'
    BY <1>5 DEF BackupDone, WorkOK, PlacesOK, ConsumerPlaces, ProducerPlaces,
       ProductionOK, WorkingOK, AskedOK, FeedsOK
  <2>5. LockOK'
    BY <1>5 DEF BackupDone, LockOK, UnderwayOK
  <2>6. QED
    BY <2>1, <2>2, <2>3, <2>4, <2>5
<1>6. CASE SendIndex
  <2>1. PlacesOK'
    BY <1>6 DEF SendIndex, PlacesOK, ProducerPlaces, ConsumerPlaces,
       IndexerPlaces, Places
  <2>2. /\ ProductionOK' /\ FeedsOK' /\ WorkingOK' /\ StorageOK'
        /\ TasksOK' /\ UnderwayOK' /\ IndexingOK' /\ AskedOK' /\ EndingOK'
        /\ CountersOK'
    BY <1>6 DEF SendIndex, ProductionOK, FeedsOK, WorkingOK, StorageOK,
       TasksOK, UnderwayOK, IndexingOK, AskedOK, EndingOK, CountersOK
  <2>3. WorkOK'
    BY <1>6 DEF SendIndex, WorkOK, PlacesOK, ConsumerPlaces, ProducerPlaces,
       ProductionOK, WorkingOK, AskedOK, FeedsOK
  <2>4. LockOK'
    BY <1>6 DEF SendIndex, LockOK, UnderwayOK
  <2>5. QED
    BY <2>1, <2>2, <2>3, <2>4
<1>7. CASE IndexSessionFails
  <2>1. PlacesOK'
    BY <1>7 DEF IndexSessionFails, Fails, PlacesOK, ProducerPlaces,
       ConsumerPlaces, IndexerPlaces, Places
  <2>2. AskedOK'
    BY <1>7 DEF IndexSessionFails, Fails, AskedOK
  <2>3. CountersOK'
    BY <1>7 DEF IndexSessionFails, Fails, CountersOK, WorkingOK, WorkOK
  <2>4. /\ ProductionOK' /\ FeedsOK' /\ WorkingOK' /\ StorageOK'
        /\ TasksOK' /\ UnderwayOK' /\ IndexingOK' /\ EndingOK'
    BY <1>7 DEF IndexSessionFails, Fails, ProductionOK, FeedsOK, WorkingOK,
       StorageOK, TasksOK, UnderwayOK, IndexingOK, EndingOK
  <2>5. WorkOK'
    BY <1>7 DEF IndexSessionFails, Fails, WorkOK, PlacesOK, ConsumerPlaces,
       ProducerPlaces, ProductionOK, WorkingOK, AskedOK, FeedsOK
  <2>6. LockOK'
    BY <1>7 DEF IndexSessionFails, Fails, LockOK, UnderwayOK
  <2>7. QED
    BY <2>1, <2>2, <2>3, <2>4, <2>5, <2>6
<1>8. CASE IndexNotSent
  <2>1. PlacesOK'
    BY <1>8 DEF IndexNotSent, Fails, PlacesOK, ProducerPlaces, ConsumerPlaces,
       IndexerPlaces, Places
  <2>2. CountersOK'
    BY <1>8 DEF IndexNotSent, Fails, CountersOK, WorkingOK, WorkOK
  <2>3. /\ ProductionOK' /\ FeedsOK' /\ WorkingOK' /\ StorageOK'
        /\ TasksOK' /\ UnderwayOK' /\ IndexingOK' /\ AskedOK' /\ EndingOK'
    BY <1>8 DEF IndexNotSent, Fails, ProductionOK, FeedsOK, WorkingOK,
       StorageOK, TasksOK, UnderwayOK, IndexingOK, AskedOK, EndingOK
  <2>4. WorkOK'
    BY <1>8 DEF IndexNotSent, Fails, WorkOK, PlacesOK, ConsumerPlaces,
       ProducerPlaces, ProductionOK, WorkingOK, AskedOK, FeedsOK
  <2>5. LockOK'
    BY <1>8 DEF IndexNotSent, Fails, LockOK, UnderwayOK
  <2>6. QED
    BY <2>1, <2>2, <2>3, <2>4, <2>5
<1>9. CASE Registers
  <2>1. PlacesOK'
    BY <1>9 DEF Registers, PlacesOK, ProducerPlaces, ConsumerPlaces,
       IndexerPlaces, Places
  <2>2. TasksOK'
    BY <1>9 DEF Registers, TasksOK, AskedOK
  <2>3. /\ ProductionOK' /\ FeedsOK' /\ WorkingOK' /\ StorageOK'
        /\ UnderwayOK' /\ IndexingOK' /\ AskedOK' /\ EndingOK' /\ CountersOK'
    BY <1>9 DEF Registers, ProductionOK, FeedsOK, WorkingOK, StorageOK,
       UnderwayOK, IndexingOK, AskedOK, EndingOK, CountersOK
  <2>4. WorkOK'
    BY <1>9 DEF Registers, WorkOK, PlacesOK, ConsumerPlaces, ProducerPlaces,
       ProductionOK, WorkingOK, AskedOK, FeedsOK
  <2>5. LockOK'
    BY <1>9 DEF Registers, LockOK, UnderwayOK
  <2>6. QED
    BY <2>1, <2>2, <2>3, <2>4, <2>5
<1>10. CASE CancelTask
  <2>1. PlacesOK'
    BY <1>10 DEF CancelTask, CancelsAndWaits, PlacesOK, ProducerPlaces,
       ConsumerPlaces, IndexerPlaces, Places
  <2>2. EndingOK'
    BY <1>10 DEF CancelTask, CancelsAndWaits, EndingOK, TasksOK
  <2>3. /\ ProductionOK' /\ FeedsOK' /\ WorkingOK' /\ StorageOK'
        /\ TasksOK' /\ UnderwayOK' /\ IndexingOK' /\ AskedOK' /\ CountersOK'
    BY <1>10 DEF CancelTask, CancelsAndWaits, ProductionOK, FeedsOK,
       WorkingOK, StorageOK, TasksOK, UnderwayOK, IndexingOK, AskedOK,
       CountersOK
  <2>4. WorkOK'
    BY <1>10 DEF CancelTask, CancelsAndWaits, WorkOK, PlacesOK,
       ConsumerPlaces, ProducerPlaces, ProductionOK, WorkingOK, AskedOK,
       FeedsOK
  <2>5. LockOK'
    BY <1>10 DEF CancelTask, CancelsAndWaits, LockOK, UnderwayOK
  <2>6. QED
    BY <2>1, <2>2, <2>3, <2>4, <2>5
<1>11. CASE CancelEnds
  <2>1. PlacesOK'
    BY <1>11 DEF CancelEnds, PlacesOK, ProducerPlaces, ConsumerPlaces,
       IndexerPlaces, Places
  <2>2. IndexingOK'
    BY <1>11 DEF CancelEnds, IndexingOK, UnderwayOK
  <2>3. EndingOK'
    BY <1>11 DEF CancelEnds, EndingOK, TasksOK
  <2>4. /\ ProductionOK' /\ FeedsOK' /\ WorkingOK' /\ StorageOK'
        /\ TasksOK' /\ UnderwayOK' /\ AskedOK' /\ CountersOK'
    BY <1>11 DEF CancelEnds, ProductionOK, FeedsOK, WorkingOK, StorageOK,
       TasksOK, UnderwayOK, AskedOK, CountersOK
  <2>5. WorkOK'
    BY <1>11 DEF CancelEnds, WorkOK, PlacesOK, ConsumerPlaces, ProducerPlaces,
       ProductionOK, WorkingOK, AskedOK, FeedsOK
  <2>6. LockOK'
    BY <1>11 DEF CancelEnds, LockOK, UnderwayOK
  <2>7. QED
    BY <2>1, <2>2, <2>3, <2>4, <2>5, <2>6
<1>12. QED
  BY <1>1, <1>2, <1>3, <1>4, <1>5, <1>6, <1>7, <1>8, <1>9, <1>10, <1>11
     DEF Index, SendIndex, IndexSessionFails, IndexNotSent, Registers, CancelTask, CancelEnds

\* A failed task cancels the job.
LEMMA ErrorType ==
  ASSUME TypeInv, NEW w \in Producers \cup Sessions,
         UnexpectedError(w) \/ ErrorEnds(w)
  PROVE  TypeInv'
<1> USE ConstantsAssumption
    DEF TypeInv, Threads, At, Goto, production, feedState, working, storage,
        tasks, underway, indexing, asked, ending, counters
<1>1. CASE UnexpectedError(w)
  <2>1. PlacesOK'
    BY <1>1 DEF UnexpectedError, CancelsAndWaits, PlacesOK, ProducerPlaces,
       ConsumerPlaces, IndexerPlaces, Places
  <2>2. EndingOK'
    BY <1>1 DEF UnexpectedError, CancelsAndWaits, EndingOK, TasksOK
  <2>3. /\ ProductionOK' /\ FeedsOK' /\ WorkingOK' /\ StorageOK'
        /\ TasksOK' /\ UnderwayOK' /\ IndexingOK' /\ AskedOK' /\ CountersOK'
    BY <1>1 DEF UnexpectedError, CancelsAndWaits, ProductionOK, FeedsOK,
       WorkingOK, StorageOK, TasksOK, UnderwayOK, IndexingOK, AskedOK,
       CountersOK
  <2>4. WorkOK'
    BY <1>1 DEF UnexpectedError, CancelsAndWaits, WorkOK, PlacesOK,
       ConsumerPlaces, ProducerPlaces, ProductionOK, WorkingOK, AskedOK,
       FeedsOK
  <2>5. LockOK'
    BY <1>1 DEF UnexpectedError, CancelsAndWaits, LockOK, UnderwayOK
  <2>6. QED
    BY <2>1, <2>2, <2>3, <2>4, <2>5
<1>2. CASE ErrorEnds(w)
  <2>1. PlacesOK'
    BY <1>2 DEF ErrorEnds, PlacesOK, ProducerPlaces, ConsumerPlaces,
       IndexerPlaces, Places
  <2>2. IndexingOK'
    BY <1>2 DEF ErrorEnds, IndexingOK, UnderwayOK
  <2>3. /\ ProductionOK' /\ FeedsOK' /\ WorkingOK' /\ StorageOK'
        /\ TasksOK' /\ UnderwayOK' /\ AskedOK' /\ EndingOK' /\ CountersOK'
    BY <1>2 DEF ErrorEnds, ProductionOK, FeedsOK, WorkingOK, StorageOK,
       TasksOK, UnderwayOK, AskedOK, EndingOK, CountersOK
  <2>4. WorkOK'
    BY <1>2 DEF ErrorEnds, WorkOK, PlacesOK, ConsumerPlaces, ProducerPlaces,
       ProductionOK, WorkingOK, AskedOK, FeedsOK
  <2>5. LockOK'
    BY <1>2 DEF ErrorEnds, LockOK, UnderwayOK
  <2>6. QED
    BY <2>1, <2>2, <2>3, <2>4, <2>5
<1>3. QED
  BY <1>1, <1>2 DEF UnexpectedError, ErrorEnds

LEMMA TypeNext == TypeInv /\ [Next]_vars => TypeInv'
<1>1. SUFFICES ASSUME TypeInv, [Next]_vars PROVE TypeInv'
  OBVIOUS
<1>2. CASE UNCHANGED vars
  BY <1>1, <1>2
  DEF vars, production, feedState, working, storage, tasks, underway, indexing,
      asked, ending, counters, TypeInv, PlacesOK, ProductionOK, FeedsOK,
      WorkingOK, StorageOK, TasksOK, UnderwayOK, IndexingOK, AskedOK, EndingOK,
      CountersOK, WorkOK, LockOK
<1>3. CASE Works
  BY <1>1, <1>3, ProduceType, ConsumeType, AfterTaskType, ReadType, ErrorType,
     IndexType
  DEF Works
<1>4. CASE HubAnswers
  BY <1>1, <1>4, IndexType, SessionReceivedType DEF HubAnswers
<1>5. CASE Disturbs
  BY <1>1, <1>5, FailsType, IndexType DEF Disturbs
<1>6. QED
  BY <1>1, <1>2, <1>3, <1>4, <1>5 DEF Next

LEMMA TypeInvCorrect == Spec => []TypeInv
BY TypeInit, TypeNext, PTL DEF Spec

\* Every reachable state is of its type, for any drives, threads and sessions
\* and whatever fails: feeds and index hold chunks of this job, no feed holds
\* more than its capacity, and no consumer sends more than its budget.
THEOREM PipelineTypes == Spec => []TypeOK
BY TypeInvCorrect, TypeInvTypes, PTL

-----------------------------------------------------------------------------
(* No chunk is forgotten.                                                  *)

\* What a sequence holds when an element is added to it or taken from it.
LEMMA HoldsAppended ==
  ASSUME NEW S, NEW f \in Seq(S), NEW x \in S
  PROVE  ToSet(Append(f, x)) = ToSet(f) \cup {x}
<1> DEFINE g == Append(f, x)
<1>1. /\ DOMAIN f = 1..Len(f) /\ DOMAIN g = 1..(Len(f) + 1) /\ Len(f) \in Nat
      /\ g[Len(f) + 1] = x
      /\ \A i \in 1..Len(f) : g[i] = f[i]
  OBVIOUS
<1> HIDE DEF g
<1>2. \A i \in 1..(Len(f) + 1) : i \in 1..Len(f) \/ i = Len(f) + 1
  BY <1>1
<1>3. ToSet(g) \subseteq ToSet(f) \cup {x}
  BY <1>1, <1>2 DEF ToSet
<1>4. ToSet(f) \subseteq ToSet(g) /\ x \in ToSet(g)
  <2>1. 1..Len(f) \subseteq 1..(Len(f) + 1) /\ Len(f) + 1 \in 1..(Len(f) + 1)
    BY <1>1
  <2>2. QED
    BY <1>1, <2>1 DEF ToSet
<1>5. ToSet(g) = ToSet(f) \cup {x}
  BY <1>3, <1>4
<1>6. QED
  BY <1>5 DEF g

LEMMA HoldsHead ==
  ASSUME NEW S, NEW f \in Seq(S), f # <<>>
  PROVE  ToSet(f) \subseteq {Head(f)} \cup ToSet(Tail(f))
<1>1. SUFFICES ASSUME NEW i \in DOMAIN f
               PROVE  f[i] = Head(f) \/ f[i] \in ToSet(Tail(f))
  BY DEF ToSet
<1>2. i \in 1..Len(f) /\ Len(f) \in Nat /\ DOMAIN Tail(f) = 1..(Len(f) - 1)
      /\ \A j \in 1..(Len(f) - 1) : Tail(f)[j] = f[j + 1]
  OBVIOUS
<1>3. CASE i = 1
  BY <1>3
<1>4. CASE i # 1
  <2>1. i - 1 \in 1..(Len(f) - 1) /\ (i - 1) + 1 = i
    BY <1>2, <1>4
  <2>2. QED
    BY <1>2, <2>1 DEF ToSet
<1>5. QED
  BY <1>3, <1>4

\* A feed with a chunk is not empty and has no other chunk.
LEMMA OneOnFeed == \A j, k : <<k>> # <<>> /\ (<<j>> = <<k>> => j = k)
OBVIOUS

\* A chunk is still to come from a drive.
Waits(k) ==
  \/ \E p \in Producers : k \in ToSet(todo[p])
  \/ \E q \in Queues : \E D \in ToSet(drives[q]) : k \in ToSet(D)

\* Where ChunkNotForgotten says it can be found.
Found(k) ==
  \/ \E p \in Producers : buffer[p] = <<k>>
  \/ processing[k] > 0
  \/ k \in ToSet(indexFeed) \cup ToSet(index)
  \/ k \in reported
  \/ cancelled

\* A producer has chunks to give while it walks a drive only.
TodoOK ==
  \A p \in Producers :
    pc[p] \in {"off", "begin", "dequeuing", "created", "announce", "collect",
               "continuing"} => todo[p] = <<>>

ChunksInv == TodoOK /\ \A k \in Chunks : Waits(k) \/ Found(k)

LEMMA GivenDoesNotWait ==
  ChunksInv => ChunkNotForgotten
<1>1. ASSUME NEW k \in Given PROVE k \in Chunks /\ ~Waits(k)
  <2>1. k \in Chunks /\ \A p \in Producers : k \notin ToSet(todo[p])
    BY <1>1 DEF Given
  <2>2. \A q \in Queues :
          k \notin UNION {ToSet(drives[q][d]) : d \in DOMAIN drives[q]}
    <3> DEFINE U(q) == UNION {ToSet(drives[q][d]) : d \in DOMAIN drives[q]}
    <3> DEFINE T == UNION {ToSet(todo[p]) : p \in Producers}
    <3> DEFINE V == UNION {U(q) : q \in Queues}
    <3>1. Given = Chunks \ (T \cup V)
      BY DEF Given
    <3> HIDE DEF T, V
    <3>2. k \notin V
      BY <1>1, <3>1
    <3> HIDE DEF U
    <3>3. \A q \in Queues : k \notin U(q)
      BY <3>2 DEF V
    <3>4. QED
      BY <3>3 DEF U
  <2>3. \A q \in Queues : \A d \in DOMAIN drives[q] : k \notin ToSet(drives[q][d])
    BY <2>2
  <2>4. \A q \in Queues : \A D \in ToSet(drives[q]) : k \notin ToSet(D)
    BY <2>3 DEF ToSet
  <2>5. QED
    BY <2>1, <2>4 DEF Waits
<1>2. QED
  BY <1>1 DEF ChunksInv, ChunkNotForgotten, Found

\* What most steps leave alone.
ChunksStay ==
  /\ UNCHANGED <<todo, drives, buffer, processing, indexFeed, index>>
  /\ reported \subseteq reported'
  /\ cancelled => cancelled'

LEMMA StayFound ==
  ASSUME ChunksInv, ChunksStay, TodoOK'
  PROVE  ChunksInv'
BY DEF ChunksInv, ChunksStay, Waits, Found

\* The labels of the producers do not change.
LEMMA OthersTodo ==
  ASSUME ChunksInv, todo' = todo, \A p \in Producers : pc'[p] = pc[p]
  PROVE  TodoOK'
BY DEF ChunksInv, TodoOK

LEMMA ProduceChunks ==
  ASSUME TypeInv, ChunksInv, NEW p \in Producers, Produce(p)
  PROVE  ChunksInv'
<1> USE ConstantsAssumption
    DEF At, Goto, production, feedState, working, storage, tasks, underway,
        indexing, asked, ending, counters
<1>1. PlacesOK /\ ProductionOK /\ WorkOK /\ TodoOK
  BY DEF TypeInv, ChunksInv
<1>2. CASE \/ Dequeues(p) \/ DequeueFails(p) \/ Dequeued(p) \/ Announces(p)
           \/ OfferCancelled(p) \/ ClosesFeed(p)
  <2>1. ChunksStay
    BY <1>2 DEF Dequeues, DequeueFails, Dequeued, Announces, OfferCancelled,
       ClosesFeed, ChunksStay
  <2>2. /\ \A x \in Producers \ {p} : pc'[x] = pc[x]
        /\ \/ pc[p] \in {"begin", "dequeuing", "announce"}
           \/ pc'[p] \in {"faulted", "ended"}
    BY <1>1, <1>2 DEF Dequeues, DequeueFails, Dequeued, Announces,
       OfferCancelled, ClosesFeed, PlacesOK, Threads
  <2>3. TodoOK'
    BY <1>1, <2>1, <2>2 DEF TodoOK, ChunksStay
  <2>4. QED
    BY <2>1, <2>3, StayFound
<1>3. CASE Continues(p) \/ Continued(p)
  <2>1. ChunksStay
    BY <1>3 DEF Continues, Continued, ChunksStay
  <2>2. PICK n \in Producers :
          /\ pc[n] \in {"off", "created"} /\ n # p
          /\ \A x \in Producers \ {n, p} : pc'[x] = pc[x]
    BY <1>1, <1>3 DEF Continues, Continued, PlacesOK, Threads
  <2>3. todo[p] = <<>>
    BY <1>1, <1>3 DEF Continues, Continued, TodoOK
  <2>4. TodoOK'
    BY <1>1, <2>1, <2>2, <2>3 DEF TodoOK, ChunksStay
  <2>5. QED
    BY <2>1, <2>4, StayFound
<1>4. CASE DriveEnds(p)
  <2>1. /\ todo' = [todo EXCEPT ![p] = <<>>]
        /\ UNCHANGED <<drives, buffer, processing, indexFeed, index, reported,
                       cancelled>>
        /\ pc' = [pc EXCEPT ![p] = "collect"]
        /\ todo[p] = <<>> \/ cancelled
    BY <1>4 DEF DriveEnds
  <2>2. TodoOK'
    BY <1>1, <2>1 DEF TodoOK, PlacesOK, ProductionOK, Threads
  <2>3. CASE cancelled
    BY <2>1, <2>2, <2>3 DEF ChunksInv, Found
  <2>4. CASE todo[p] = <<>>
    <3>1. todo' = todo
      BY <1>1, <2>1, <2>4 DEF ProductionOK
    <3>2. QED
      BY <2>1, <2>2, <3>1, StayFound DEF ChunksStay
  <2>5. QED
    BY <2>1, <2>3, <2>4
<1>5. CASE NextDrive(p)
  <2> DEFINE q0 == mine[p]
  <2>1. /\ pc[p] = "collect" /\ drives[q0] # <<>>
        /\ todo' = [todo EXCEPT ![p] = Head(drives[q0])]
        /\ drives' = [drives EXCEPT ![q0] = Tail(@)]
        /\ UNCHANGED <<buffer, processing, indexFeed, index, reported, cancelled>>
        /\ pc' = [pc EXCEPT ![p] = "offer"]
    BY <1>5 DEF NextDrive
  <2>2. q0 \in Queues /\ todo[p] = <<>>
    BY <1>1, <2>1 DEF WorkOK, TodoOK
  <2> HIDE DEF q0
  <2>3. TodoOK'
    BY <1>1, <2>1 DEF TodoOK, PlacesOK, ProductionOK, Threads
  <2>4. /\ todo'[p] = Head(drives[q0]) /\ drives'[q0] = Tail(drives[q0])
        /\ \A x \in Producers \ {p} : todo'[x] = todo[x]
        /\ \A q \in Queues \ {q0} : drives'[q] = drives[q]
        /\ drives[q0] \in Seq(Seq(Chunks))
    BY <1>1, <2>1, <2>2 DEF ProductionOK
  <2>5. ASSUME NEW k \in Chunks, Waits(k) PROVE Waits(k)'
    <3>1. ASSUME NEW x \in Producers, k \in ToSet(todo[x]) PROVE Waits(k)'
      <4>1. x # p
        BY <2>2, <3>1 DEF ToSet
      <4>2. QED
        BY <2>4, <3>1, <4>1 DEF Waits
    <3>2. ASSUME NEW q \in Queues, NEW D \in ToSet(drives[q]), k \in ToSet(D)
          PROVE  Waits(k)'
      <4>1. CASE q # q0
        BY <2>4, <3>2, <4>1 DEF Waits
      <4>2. CASE q = q0
        <5>1. D = Head(drives[q0]) \/ D \in ToSet(Tail(drives[q0]))
          BY <2>1, <2>4, <3>2, <4>2, HoldsHead
        <5>2. QED
          BY <2>2, <2>4, <3>2, <5>1 DEF Waits
      <4>3. QED
        BY <4>1, <4>2
    <3>3. QED
      BY <2>5, <3>1, <3>2 DEF Waits
  <2>6. \A k \in Chunks : Found(k) => Found(k)'
    BY <2>1 DEF Found
  <2>7. QED
    BY <2>3, <2>5, <2>6 DEF ChunksInv
<1>6. CASE Offers(p)
  <2> DEFINE k0 == Head(todo[p])
  <2>1. /\ pc[p] = "offer" /\ pc' = pc /\ todo[p] # <<>> /\ buffer[p] = <<>>
        /\ todo' = [todo EXCEPT ![p] = Tail(@)]
        /\ buffer' = [buffer EXCEPT ![p] = <<k0>>]
        /\ UNCHANGED <<drives, processing, indexFeed, index, reported, cancelled>>
    BY <1>6 DEF Offers
  <2>2. /\ todo[p] \in Seq(Chunks) /\ todo'[p] = Tail(todo[p])
        /\ \A x \in Producers \ {p} : todo'[x] = todo[x]
    BY <1>1, <2>1 DEF ProductionOK
  <2>3. /\ buffer'[p] = <<k0>>
        /\ \A x \in Producers \ {p} : buffer'[x] = buffer[x]
    BY <2>1 DEF TypeInv, FeedsOK
  <2>4. \A k \in ToSet(todo[p]) : k = k0 \/ k \in ToSet(Tail(todo[p]))
    BY <2>1, <2>2, HoldsHead
  <2>5. TodoOK'
    BY <1>1, <2>1, <2>2 DEF TodoOK
  <2> HIDE DEF k0
  <2>6. \A k \in Chunks : Waits(k) => Waits(k)' \/ k = k0
    BY <2>1, <2>2, <2>4 DEF Waits
  <2>7. \A k \in Chunks : k = k0 => Found(k)'
    BY <2>3 DEF Found
  <2>8. ASSUME NEW k \in Chunks, Found(k) PROVE Found(k)'
    <3>1. ASSUME NEW x \in Producers, buffer[x] = <<k>>
          PROVE  x # p /\ buffer'[x] = <<k>>
      BY <2>1, <2>3, <3>1, OneOnFeed
    <3>2. QED
      BY <2>1, <2>8, <3>1 DEF Found
  <2>9. QED
    BY <2>5, <2>6, <2>7, <2>8 DEF ChunksInv
<1>7. QED
  BY <1>2, <1>3, <1>4, <1>5, <1>6 DEF Produce

\* The thread of a session's consumer.
LEMMA SessionChunks ==
  ASSUME TypeInv, ChunksInv, NEW s \in Sessions,
         \/ Consume(s) \/ AfterTask(s) \/ Read(s)
         \/ SessionFails(s) \/ SendBreaks(s) \/ SendFails(s)
         \/ TimesOut(s) \/ EndFails(s) \/ SessionBreaks(s)
  PROVE  ChunksInv'
<1> USE ConstantsAssumption
    DEF At, Goto, production, feedState, working, storage, tasks, underway,
        indexing, asked, ending, counters
<1>1. PlacesOK /\ FeedsOK /\ WorkOK /\ UnderwayOK /\ IndexingOK
  BY DEF TypeInv
<1>2. \A p \in Producers : pc'[p] = pc[p]
  BY <1>1
  DEF Consume, ConsumeReturns, ConsumeBegins, TakesFeed, CancelledOutside,
      CancelledInside, LeavesLoop, TakesChunk, Sends, SendRefused, Confirmed,
      Retries, GivesUp, HandsBack, AfterTask, Sweeps, AsksAgain, EndsSession,
      SeesNoFeeds, DataBackupDone, Read, ManageChunkSent, ConfirmationIgnored,
      HandsToIndexer, IndexerRefuses, SessionFails, SendBreaks, SendFails,
      TimesOut, EndFails, SessionBreaks, PlacesOK, Threads
<1>3. CASE ChunksStay
  BY <1>2, <1>3, OthersTodo, StayFound DEF ChunksStay
<1>4. CASE TakesChunk(s)
  <2> DEFINE k0 == Head(buffer[feed[s]])
  <2>1. /\ UNCHANGED <<todo, drives, indexFeed, index, reported, cancelled>>
        /\ buffer' = [buffer EXCEPT ![feed[s]] = <<>>]
        /\ processing' = [processing EXCEPT ![k0] = @ + 1]
        /\ buffer[feed[s]] # <<>> /\ feed[s] \in Producers
    BY <1>1, <1>4 DEF TakesChunk, WorkOK
  <2>2. k0 \in Chunks /\ buffer[feed[s]] = <<k0>>
    BY <1>1, <2>1 DEF FeedsOK
  <2> HIDE DEF k0
  <2>3. /\ processing'[k0] > 0
        /\ \A k \in Chunks : processing[k] > 0 => processing'[k] > 0
    BY <1>1, <2>1, <2>2 DEF UnderwayOK
  <2>4. \A p \in Producers : p # feed[s] => buffer'[p] = buffer[p]
    BY <1>1, <2>1 DEF FeedsOK
  <2>5. ASSUME NEW k \in Chunks, Found(k) PROVE Found(k)'
    <3>1. ASSUME NEW x \in Producers, buffer[x] = <<k>>
          PROVE  processing'[k] > 0 \/ buffer'[x] = <<k>>
      BY <2>2, <2>3, <2>4, <3>1, OneOnFeed
    <3>2. QED
      BY <2>1, <2>3, <2>5, <3>1 DEF Found
  <2>6. QED
    BY <1>2, <2>1, <2>5, OthersTodo DEF ChunksInv, Waits
<1>5. CASE Retries(s)
  <2>1. /\ UNCHANGED <<todo, drives, indexFeed, index, reported, cancelled,
                       processing>>
        /\ buffer' = [buffer EXCEPT ![feed[s]] = <<held[s]>>]
        /\ buffer[feed[s]] = <<>>
    BY <1>5 DEF Retries
  <2>2. \A p \in Producers, k \in Chunks :
          buffer[p] = <<k>> => buffer'[p] = <<k>>
    <3>1. \A p \in Producers : p # feed[s] => buffer'[p] = buffer[p]
      BY <1>1, <2>1 DEF FeedsOK
    <3>2. QED
      BY <2>1, <3>1, OneOnFeed
  <2>3. \A k \in Chunks : Found(k) => Found(k)'
    BY <2>1, <2>2 DEF Found
  <2>4. QED
    BY <1>2, <2>1, <2>3, OthersTodo DEF ChunksInv, Waits
<1>6. CASE SendBreaks(s)
  <2>1. /\ UNCHANGED <<todo, drives, buffer, indexFeed, index, cancelled>>
        /\ processing' = [processing EXCEPT ![held[s]] = 0]
        /\ reported' = reported \cup {held[s]}
    BY <1>6 DEF SendBreaks, Removed, Reported
  <2>2. \A k \in Chunks : k # held[s] => processing'[k] = processing[k]
    BY <1>1, <2>1 DEF UnderwayOK
  <2>3. \A k \in Chunks : Found(k) => Found(k)'
    BY <2>1, <2>2 DEF Found
  <2>4. QED
    BY <1>2, <2>1, <2>3, OthersTodo DEF ChunksInv, Waits
<1>7. CASE HandsToIndexer(s)
  <2> DEFINE k0 == reading[s]
  <2>1. /\ UNCHANGED <<todo, drives, buffer, index, reported, cancelled>>
        /\ processing' = [processing EXCEPT ![k0] = @ - 1]
        /\ indexFeed' = Append(indexFeed, k0)
        /\ k0 \in Chunks
    BY <1>1, <1>7 DEF HandsToIndexer, UnderwayOK
  <2> HIDE DEF k0
  <2>2. \A k \in Chunks : k # k0 => processing'[k] = processing[k]
    BY <1>1, <2>1 DEF UnderwayOK
  <2>3. k0 \in ToSet(indexFeed') /\ ToSet(indexFeed) \subseteq ToSet(indexFeed')
    BY <1>1, <2>1, HoldsAppended DEF IndexingOK
  <2>4. \A k \in Chunks : Found(k) => Found(k)'
    BY <2>1, <2>2, <2>3 DEF Found
  <2>5. QED
    BY <1>2, <2>1, <2>4, OthersTodo DEF ChunksInv, Waits
<1>8. CASE \/ ConsumeReturns(s) \/ ConsumeBegins(s) \/ TakesFeed(s)
           \/ CancelledOutside(s) \/ CancelledInside(s) \/ LeavesLoop(s)
           \/ Sends(s) \/ SendRefused(s) \/ Confirmed(s) \/ GivesUp(s)
           \/ HandsBack(s) \/ AfterTask(s)
           \/ SessionFails(s) \/ SendFails(s) \/ TimesOut(s) \/ EndFails(s)
           \/ SessionBreaks(s) \/ ManageChunkSent(s) \/ ConfirmationIgnored(s)
           \/ IndexerRefuses(s)
  <2>1. ChunksStay
    BY <1>8
    DEF ChunksStay, ConsumeReturns, ConsumeBegins, TakesFeed, CancelledOutside,
        CancelledInside, LeavesLoop, Sends, SendRefused, Confirmed, GivesUp,
        HandsBack, AfterTask, Sweeps, AsksAgain, EndsSession, SeesNoFeeds,
        DataBackupDone, SessionFails, SendFails, TimesOut, EndFails,
        SessionBreaks, ManageChunkSent, ConfirmationIgnored, IndexerRefuses,
        Reported
  <2>2. QED
    BY <1>3, <2>1
<1>9. QED
  BY <1>4, <1>5, <1>6, <1>7, <1>8 DEF Consume, Read

\* All other threads.
LEMMA RestChunks ==
  ASSUME TypeInv, ChunksInv,
         \/ \E s \in Sessions : SessionReceived(s)
         \/ \E w \in Producers \cup Sessions : UnexpectedError(w) \/ ErrorEnds(w)
         \/ Index \/ SendIndex \/ IndexSessionFails \/ IndexNotSent
         \/ Registers \/ CancelTask \/ CancelEnds
  PROVE  ChunksInv'
<1> USE ConstantsAssumption
    DEF At, Goto, production, feedState, working, storage, tasks, underway,
        indexing, asked, ending, counters, CancelsAndWaits
<1>1. PlacesOK /\ IndexingOK /\ TodoOK
  BY DEF TypeInv, ChunksInv
<1>2. CASE \E w \in Producers \cup Sessions : UnexpectedError(w) \/ ErrorEnds(w)
  <2>1. PICK w \in Producers \cup Sessions : UnexpectedError(w) \/ ErrorEnds(w)
    BY <1>2
  <2>2. ChunksStay
    BY <2>1 DEF UnexpectedError, ErrorEnds, ChunksStay
  <2>3. /\ pc'[w] \in {"failing", "dead"}
        /\ \A x \in Producers : x # w => pc'[x] = pc[x]
    BY <1>1, <2>1 DEF UnexpectedError, ErrorEnds, PlacesOK, Threads
  <2>4. TodoOK'
    BY <1>1, <2>2, <2>3 DEF TodoOK, ChunksStay
  <2>5. QED
    BY <2>2, <2>4, StayFound
<1>3. CASE Indexes
  <2>1. /\ UNCHANGED <<pc, todo, drives, buffer, processing, reported, cancelled>>
        /\ indexFeed # <<>>
        /\ index' = Append(index, Head(indexFeed))
        /\ indexFeed' = Tail(indexFeed)
    BY <1>3 DEF Indexes
  <2>2. ToSet(index') = ToSet(index) \cup {Head(indexFeed)}
    <3>1. Head(indexFeed) \in Chunks /\ index \in Seq(Chunks)
      BY <1>1, <2>1 DEF IndexingOK
    <3>2. QED
      BY <2>1, <3>1, HoldsAppended
  <2>3. \A k \in ToSet(indexFeed) : k = Head(indexFeed) \/ k \in ToSet(Tail(indexFeed))
    BY <1>1, <2>1, HoldsHead DEF IndexingOK
  <2>4. \A k \in Chunks : Found(k) => Found(k)'
    BY <2>1, <2>2, <2>3 DEF Found
  <2>5. QED
    BY <2>1, <2>4, OthersTodo DEF ChunksInv, Waits
<1>4. CASE \/ \E s \in Sessions : SessionReceived(s)
           \/ IndexerStarts \/ IndexerEnds \/ ProcessIndex \/ BackupDone
           \/ SendIndex \/ IndexSessionFails \/ IndexNotSent
           \/ Registers \/ CancelTask \/ CancelEnds
  <2>1. ChunksStay
    BY <1>4
    DEF ChunksStay, SessionReceived, IndexerStarts, IndexerEnds, ProcessIndex,
        BackupDone, SendIndex, IndexSessionFails, IndexNotSent, Registers,
        CancelTask, CancelEnds
  <2>2. \A p \in Producers : pc'[p] = pc[p]
    BY <1>1, <1>4
    DEF SessionReceived, IndexerStarts, IndexerEnds, ProcessIndex, BackupDone,
        SendIndex, IndexSessionFails, IndexNotSent, Registers, CancelTask,
        CancelEnds, PlacesOK, Threads
  <2>3. QED
    BY <2>1, <2>2, OthersTodo, StayFound DEF ChunksStay
<1>5. QED
  BY <1>2, <1>3, <1>4 DEF Index

LEMMA ChunksInvCorrect == Spec => []ChunksInv
<1>1. Init => ChunksInv
  <2>1. SUFFICES ASSUME Init PROVE ChunksInv
    OBVIOUS
  <2>2. drives = Drives /\ todo = [p \in Producers |-> <<>>]
    BY <2>1 DEF Init
  <2>3. ASSUME NEW k \in Chunks PROVE Waits(k)
    <3> DEFINE U(q) == UNION {ToSet(Drives[q][d]) : d \in DOMAIN Drives[q]}
    <3>1. k \in UNION {U(q) : q \in Queues}
      BY <2>3 DEF Chunks
    <3> HIDE DEF U
    <3>2. PICK q \in Queues : k \in U(q)
      BY <3>1
    <3>3. PICK d \in DOMAIN Drives[q] : k \in ToSet(Drives[q][d])
      BY <3>2 DEF U
    <3>4. QED
      BY <2>2, <3>3 DEF Waits, ToSet
  <2>4. QED
    BY <2>2, <2>3 DEF ChunksInv, TodoOK
<1>2. TypeInv /\ ChunksInv /\ [Next]_vars => ChunksInv'
  <2>1. SUFFICES ASSUME TypeInv, ChunksInv, [Next]_vars PROVE ChunksInv'
    OBVIOUS
  <2>2. CASE UNCHANGED vars
    BY <2>1, <2>2, OthersTodo, StayFound
    DEF vars, production, feedState, underway, indexing, ending, counters,
        ChunksStay
  <2>3. CASE Works
    BY <2>1, <2>3, ProduceChunks, SessionChunks, RestChunks DEF Works
  <2>4. CASE HubAnswers
    BY <2>1, <2>4, RestChunks DEF HubAnswers
  <2>5. CASE Disturbs
    BY <2>1, <2>5, SessionChunks, RestChunks DEF Disturbs
  <2>6. QED
    BY <2>1, <2>2, <2>3, <2>4, <2>5 DEF Next
<1>3. QED
  BY TypeInvCorrect, <1>1, <1>2, PTL DEF Spec

\* A chunk that has left its producer is never forgotten: it is on a feed,
\* listed as under way, with the indexer, in the index, or was reported to the
\* hub, whatever fails, until the job is cancelled.
THEOREM NoChunkForgotten == Spec => []ChunkNotForgotten
BY ChunksInvCorrect, GivenDoesNotWait, PTL
=============================================================================
