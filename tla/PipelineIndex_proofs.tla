------------------------ MODULE PipelineIndex_proofs ------------------------
(***************************************************************************)
(* As long as no confirmation is late, BackupPipeline indexes no chunk     *)
(* twice, for any drives without a chunk in common and whatever fails.     *)
(***************************************************************************)
EXTENDS BackupPipeline_proofs

\* No chunk is twice in a drive, nor in two drives of a queue.
NoneTwice(f) == \A i, j \in 1..Len(f) : f[i] = f[j] => i = j
InDrives(k, g) == \E D \in ToSet(g) : k \in ToSet(D)
DrivesApart(g) ==
  /\ \A d \in 1..Len(g) : NoneTwice(g[d])
  /\ \A d, e \in 1..Len(g) : \A k :
       k \in ToSet(g[d]) /\ k \in ToSet(g[e]) => d = e

\* BackupRootDriveHandler gives each chunk a name of its own.
DistinctChunks ==
  /\ \A q \in Queues : DrivesApart(Drives[q])
  /\ \A q, r \in Queues, k \in Chunks :
       InDrives(k, Drives[q]) /\ InDrives(k, Drives[r]) => q = r

-----------------------------------------------------------------------------
\* Where a chunk is before it is sent, and once it is sent.
OnFeed(k) == \E p \in Producers : buffer[p] = <<k>>
Sending(s) == pc[s] \in {"send", "resend"}
Indexed(k) == k \in ToSet(index) \/ k \in ToSet(indexFeed)
Gone(k) == Indexed(k) \/ \E s \in Sessions : k \in wire[s] \/ reading[s] = k

\* What is still to come from the drives comes once.
SourcesOK ==
  /\ \A p \in Producers : NoneTwice(todo[p])
  /\ \A p, r \in Producers, k \in Chunks :
       k \in ToSet(todo[p]) /\ k \in ToSet(todo[r]) => p = r
  /\ \A q \in Queues : DrivesApart(drives[q])
  /\ \A q, r \in Queues, k \in Chunks :
       InDrives(k, drives[q]) /\ InDrives(k, drives[r]) => q = r
  /\ \A p \in Producers, q \in Queues, k \in Chunks :
       ~(k \in ToSet(todo[p]) /\ InDrives(k, drives[q]))

\* Before it is sent a chunk is in one place, and neither under way nor
\* indexed; what is listed as under way is listed once and not indexed.
UnsentOK ==
  /\ \A k \in Chunks :
       /\ Waits(k) => processing[k] = 0 /\ ~Gone(k)
       /\ OnFeed(k) => ~Waits(k) /\ processing[k] = 0 /\ ~Gone(k)
       /\ processing[k] > 0 => processing[k] = 1 /\ ~Indexed(k)
  /\ \A p, r \in Producers, k \in Chunks :
       buffer[p] = <<k>> /\ buffer[r] = <<k>> => p = r
SendingOK ==
  /\ \A s \in Sessions, k \in Chunks : Sending(s) /\ held[s] = k =>
       /\ ~Waits(k) /\ ~OnFeed(k) /\ ~Gone(k)
       /\ pc[s] = "resend" => processing[k] = 0
  /\ \A s \in Sessions : pc[s] # "requeue"
  /\ \A s, r \in Sessions :
       Sending(s) /\ Sending(r) /\ held[s] = held[r] => s = r
IndexOK ==
  /\ \A i, j \in 1..Len(index) : index[i] = index[j] => i = j
  /\ \A i, j \in 1..Len(indexFeed) : indexFeed[i] = indexFeed[j] => i = j
  /\ \A i \in 1..Len(index), j \in 1..Len(indexFeed) : index[i] # indexFeed[j]

OnceInv == timeouts = 0 => SourcesOK /\ UnsentOK /\ SendingOK /\ IndexOK

LEMMA OnceInvIndex ==
  ASSUME TypeInv, OnceInv
  PROVE  IndexedOnce
<1> DEFINE all == index \o indexFeed
<1>1. /\ Len(all) = Len(index) + Len(indexFeed)
      /\ Len(index) \in Nat /\ Len(indexFeed) \in Nat
      /\ DOMAIN all = 1..Len(all)
      /\ \A i \in 1..Len(all) :
           all[i] = IF i <= Len(index) THEN index[i] ELSE indexFeed[i - Len(index)]
  BY DEF TypeInv, IndexingOK
<1> HIDE DEF all
<1>2. SUFFICES ASSUME IndexOK, NEW i \in DOMAIN all, NEW j \in DOMAIN all,
                      all[i] = all[j]
               PROVE  i = j
  BY DEF OnceInv, IndexedOnce, all
<1>3. ASSUME NEW x \in DOMAIN all
      PROVE  \/ x \in 1..Len(index) /\ all[x] = index[x]
             \/ /\ x - Len(index) \in 1..Len(indexFeed)
                /\ all[x] = indexFeed[x - Len(index)]
                /\ x \in Int
  BY <1>1
<1>4. CASE i \in 1..Len(index) /\ j \in 1..Len(index)
  BY <1>1, <1>2, <1>4 DEF IndexOK
<1>5. CASE i \notin 1..Len(index) /\ j \notin 1..Len(index)
  <2>1. i - Len(index) = j - Len(index) /\ i \in Int /\ j \in Int
    BY <1>2, <1>3, <1>5 DEF IndexOK
  <2>2. QED
    BY <1>1, <2>1
<1>6. CASE i \in 1..Len(index) /\ j \notin 1..Len(index)
  BY <1>1, <1>2, <1>3, <1>6 DEF IndexOK
<1>7. CASE i \notin 1..Len(index) /\ j \in 1..Len(index)
  BY <1>1, <1>2, <1>3, <1>7 DEF IndexOK
<1>8. QED
  BY <1>4, <1>5, <1>6, <1>7

-----------------------------------------------------------------------------
\* What most steps do: no chunk gets to a new place.
ChunksMoveNot ==
  /\ timeouts' = 0 =>
       timeouts = 0 /\ SourcesOK' /\ \A s \in Sessions : pc'[s] # "requeue"
  /\ UNCHANGED <<processing, indexFeed, index>>
  /\ \A k \in Chunks : Waits(k)' => Waits(k)
  /\ \A p \in Producers : buffer'[p] = buffer[p]
  /\ \A s \in Sessions : wire'[s] \subseteq wire[s]
  /\ \A s \in Sessions : \A k \in Chunks :
       reading'[s] = k => reading[s] = k \/ \E r \in Sessions : k \in wire[r]
  /\ \A s \in Sessions :
       /\ Sending(s)' => Sending(s) /\ held'[s] = held[s]
       /\ pc'[s] = "resend" => pc[s] = "resend"

LEMMA StayOnce ==
  ASSUME TypeInv, OnceInv, ChunksMoveNot
  PROVE  OnceInv'
<1>1. SUFFICES ASSUME timeouts' = 0
               PROVE  (SourcesOK /\ UnsentOK /\ SendingOK /\ IndexOK)'
  BY DEF OnceInv
<1>2. SourcesOK' /\ SourcesOK /\ UnsentOK /\ SendingOK /\ IndexOK
  BY <1>1 DEF OnceInv, ChunksMoveNot
<1>3. \A k \in Chunks : Indexed(k)' = Indexed(k)
  BY DEF Indexed, ChunksMoveNot
<1>4. \A k \in Chunks : Gone(k)' => Gone(k)
  BY <1>3 DEF Gone, ChunksMoveNot
<1>5. \A k \in Chunks : OnFeed(k)' = OnFeed(k)
  BY DEF OnFeed, ChunksMoveNot
<1>6. UnsentOK'
  BY <1>2, <1>3, <1>4, <1>5 DEF UnsentOK, ChunksMoveNot
<1>7. SendingOK'
  <2>2. \A s \in Sessions, k \in Chunks : Sending(s)' /\ held'[s] = k =>
          ~Waits(k)' /\ ~OnFeed(k)' /\ ~Gone(k)'
    BY <1>2, <1>4, <1>5 DEF SendingOK, ChunksMoveNot
  <2>3. \A s \in Sessions, k \in Chunks :
          Sending(s)' /\ held'[s] = k /\ pc'[s] = "resend" => processing'[k] = 0
    BY <1>2 DEF SendingOK, ChunksMoveNot
  <2>4. \A s, r \in Sessions :
          Sending(s)' /\ Sending(r)' /\ held'[s] = held'[r] => s = r
    BY <1>2 DEF SendingOK, ChunksMoveNot
  <2>5. QED
    BY <1>1, <2>2, <2>3, <2>4 DEF SendingOK, ChunksMoveNot
<1>8. IndexOK'
  BY <1>2 DEF IndexOK, ChunksMoveNot
<1>9. QED
  BY <1>2, <1>6, <1>7, <1>8

\* What is left of a drive, or of a queue of drives, without its head.
LEMMA WithoutHead ==
  ASSUME NEW S, NEW f \in Seq(S), f # <<>>
  PROVE  /\ DOMAIN f = 1..Len(f) /\ DOMAIN Tail(f) = 1..Len(Tail(f))
         /\ 1 \in 1..Len(f) /\ Head(f) = f[1]
         /\ \A i \in 1..Len(Tail(f)) :
              i \in Nat /\ i + 1 \in 1..Len(f) /\ i + 1 # 1 /\ Tail(f)[i] = f[i + 1]
         /\ \A i, j \in 1..Len(Tail(f)) : i + 1 = j + 1 => i = j
<1>1. /\ Len(f) \in Nat /\ Len(f) >= 1 /\ Len(Tail(f)) = Len(f) - 1
      /\ DOMAIN f = 1..Len(f) /\ DOMAIN Tail(f) = 1..Len(Tail(f))
      /\ \A i \in 1..Len(Tail(f)) : Tail(f)[i] = f[i + 1]
      /\ Head(f) = f[1]
  OBVIOUS
<1>2. QED
  BY <1>1

LEMMA DriveWithoutHead ==
  ASSUME NEW S, NEW f \in Seq(S), f # <<>>, NoneTwice(f)
  PROVE  /\ NoneTwice(Tail(f))
         /\ Head(f) \in ToSet(f) /\ Head(f) \notin ToSet(Tail(f))
         /\ ToSet(Tail(f)) \subseteq ToSet(f)
<1> DEFINE g == Tail(f)
<1>1. /\ DOMAIN f = 1..Len(f) /\ DOMAIN g = 1..Len(g)
      /\ 1 \in 1..Len(f) /\ Head(f) = f[1]
      /\ \A i \in 1..Len(g) : i + 1 \in 1..Len(f) /\ i + 1 # 1 /\ g[i] = f[i + 1]
      /\ \A i, j \in 1..Len(g) : i + 1 = j + 1 => i = j
  BY WithoutHead
<1> HIDE DEF g
<1>2. NoneTwice(g)
  BY <1>1 DEF NoneTwice
<1>3. Head(f) \in ToSet(f)
  BY <1>1 DEF ToSet
<1>4. \A i \in 1..Len(g) : g[i] # Head(f)
  BY <1>1 DEF NoneTwice
<1>5. Head(f) \notin ToSet(g)
  BY <1>1, <1>4 DEF ToSet
<1>6. ToSet(g) \subseteq ToSet(f)
  <2>1. \A i \in 1..Len(g) : g[i] \in ToSet(f)
    BY <1>1 DEF ToSet
  <2>2. QED
    BY <1>1, <2>1 DEF ToSet
<1>7. QED
  BY <1>2, <1>3, <1>5, <1>6 DEF g

LEMMA QueueWithoutHead ==
  ASSUME NEW S, NEW f \in Seq(Seq(S)), f # <<>>, DrivesApart(f)
  PROVE  /\ DrivesApart(Tail(f)) /\ NoneTwice(Head(f))
         /\ \A k : k \in ToSet(Head(f)) => InDrives(k, f) /\ ~InDrives(k, Tail(f))
         /\ \A k : InDrives(k, Tail(f)) => InDrives(k, f)
<1> DEFINE g == Tail(f)
<1>1. /\ DOMAIN f = 1..Len(f) /\ DOMAIN g = 1..Len(g)
      /\ 1 \in 1..Len(f) /\ Head(f) = f[1]
      /\ \A i \in 1..Len(g) : i + 1 \in 1..Len(f) /\ i + 1 # 1 /\ g[i] = f[i + 1]
      /\ \A i, j \in 1..Len(g) : i + 1 = j + 1 => i = j
  BY WithoutHead
<1>2. /\ \A d \in 1..Len(f) : NoneTwice(f[d])
      /\ \A d, e \in 1..Len(f) : \A k :
           k \in ToSet(f[d]) /\ k \in ToSet(f[e]) => d = e
  BY DEF DrivesApart
<1> HIDE DEF g
<1>3. DrivesApart(g)
  <2>1. \A d \in 1..Len(g) : NoneTwice(g[d])
    BY <1>1, <1>2
  <2>2. ASSUME NEW d \in 1..Len(g), NEW e \in 1..Len(g), NEW k,
               k \in ToSet(g[d]), k \in ToSet(g[e])
        PROVE  d = e
    <3>1. d + 1 = e + 1
      BY <1>1, <1>2, <2>2
    <3>2. QED
      BY <1>1, <3>1
  <2>3. QED
    BY <2>1, <2>2 DEF DrivesApart
<1>4. NoneTwice(Head(f))
  BY <1>1, <1>2
<1>5. \A k : k \in ToSet(Head(f)) => InDrives(k, f)
  <2>1. Head(f) \in ToSet(f)
    BY <1>1 DEF ToSet
  <2>2. QED
    BY <2>1 DEF InDrives
<1>6. ASSUME NEW k, k \in ToSet(Head(f)), InDrives(k, g) PROVE FALSE
  <2>1. PICK D \in ToSet(g) : k \in ToSet(D)
    BY <1>6 DEF InDrives
  <2>2. PICK d \in 1..Len(g) : D = g[d]
    BY <1>1, <2>1 DEF ToSet
  <2>3. k \in ToSet(f[d + 1]) /\ k \in ToSet(f[1]) /\ d + 1 \in 1..Len(f)
    BY <1>1, <1>6, <2>1, <2>2
  <2>4. QED
    BY <1>1, <1>2, <2>3
<1>7. \A k : InDrives(k, g) => InDrives(k, f)
  <2>1. \A i \in 1..Len(g) : g[i] \in ToSet(f)
    BY <1>1 DEF ToSet
  <2>2. ToSet(g) \subseteq ToSet(f)
    BY <1>1, <2>1 DEF ToSet
  <2>3. QED
    BY <2>2 DEF InDrives
<1>8. QED
  BY <1>3, <1>4, <1>5, <1>6, <1>7 DEF g

\* The chunks still to come are those of the drives.
LEMMA WaitsInDrives ==
  \A k : Waits(k) <=> \/ \E p \in Producers : k \in ToSet(todo[p])
                      \/ \E q \in Queues : InDrives(k, drives[q])
BY DEF Waits, InDrives

\* A producer's steps: a chunk goes from a drive onto a feed, once.
LEMMA ProduceOnce ==
  ASSUME TypeInv, OnceInv, NEW p \in Producers, Produce(p)
  PROVE  OnceInv'
<1> USE ConstantsAssumption
    DEF At, Goto, production, feedState, working, storage, tasks, underway,
        indexing, asked, ending, counters
<1>1. PlacesOK /\ ProductionOK /\ FeedsOK /\ WorkOK
  BY DEF TypeInv
<1>2. SUFFICES ASSUME timeouts' = 0 PROVE OnceInv'
  BY DEF OnceInv
<1>3. timeouts = 0 /\ UNCHANGED <<processing, indexFeed, index, wire, reading, held>>
  BY <1>2
  DEF Produce, Dequeues, DequeueFails, Dequeued, Announces, NextDrive, Offers,
      OfferCancelled, DriveEnds, Continues, Continued, ClosesFeed
<1>4. SourcesOK /\ UnsentOK /\ SendingOK /\ IndexOK
  BY <1>3 DEF OnceInv
<1>5. \A s \in Sessions : pc'[s] = pc[s]
  BY <1>1
  DEF Produce, Dequeues, DequeueFails, Dequeued, Announces, NextDrive, Offers,
      OfferCancelled, DriveEnds, Continues, Continued, ClosesFeed, PlacesOK,
      Threads
<1>6. CASE \/ Dequeues(p) \/ DequeueFails(p) \/ Dequeued(p) \/ Announces(p)
           \/ OfferCancelled(p) \/ Continues(p) \/ Continued(p) \/ ClosesFeed(p)
  <2>1. UNCHANGED <<todo, drives, buffer>>
    BY <1>6
    DEF Dequeues, DequeueFails, Dequeued, Announces, OfferCancelled, Continues,
        Continued, ClosesFeed
  <2>2. SourcesOK' /\ \A k : Waits(k)' = Waits(k)
    BY <1>4, <2>1 DEF SourcesOK, Waits
  <2>3. ChunksMoveNot
    BY <1>3, <1>4, <1>5, <2>1, <2>2 DEF ChunksMoveNot, Sending, SendingOK
  <2>4. QED
    BY <2>3, StayOnce
<1>7. CASE DriveEnds(p)
  <2>1. UNCHANGED <<drives, buffer>> /\ todo' = [todo EXCEPT ![p] = <<>>]
    BY <1>7 DEF DriveEnds
  <2>2. todo'[p] = <<>> /\ \A r \in Producers \ {p} : todo'[r] = todo[r]
    BY <1>1, <2>1 DEF ProductionOK
  <2>3. ToSet(todo'[p]) = {} /\ NoneTwice(todo'[p])
    BY <2>2 DEF ToSet, NoneTwice
  <2>4. SourcesOK'
    BY <1>4, <2>1, <2>2, <2>3 DEF SourcesOK
  <2>6. \A k : Waits(k)' => Waits(k)
    BY <2>1, <2>2, <2>3 DEF Waits
  <2>7. ChunksMoveNot
    BY <1>3, <1>4, <1>5, <2>1, <2>4, <2>6 DEF ChunksMoveNot, Sending, SendingOK
  <2>8. QED
    BY <2>7, StayOnce
<1>8. CASE NextDrive(p)
  <2> DEFINE q0 == mine[p]
  <2>1. /\ buffer' = buffer /\ drives[q0] # <<>> /\ pc[p] = "collect"
        /\ todo' = [todo EXCEPT ![p] = Head(drives[q0])]
        /\ drives' = [drives EXCEPT ![q0] = Tail(@)]
    BY <1>8 DEF NextDrive
  <2>2. q0 \in Queues
    BY <1>1, <2>1 DEF WorkOK
  <2> HIDE DEF q0
  <2>3. /\ todo'[p] = Head(drives[q0]) /\ drives'[q0] = Tail(drives[q0])
        /\ \A x \in Producers \ {p} : todo'[x] = todo[x]
        /\ \A q \in Queues \ {q0} : drives'[q] = drives[q]
        /\ drives[q0] \in Seq(Seq(Chunks))
    BY <1>1, <2>1, <2>2 DEF ProductionOK
  <2>4. /\ DrivesApart(drives'[q0]) /\ NoneTwice(todo'[p])
        /\ \A k : k \in ToSet(todo'[p]) =>
                    InDrives(k, drives[q0]) /\ ~InDrives(k, drives'[q0])
        /\ \A k : InDrives(k, drives'[q0]) => InDrives(k, drives[q0])
    BY <1>4, <2>1, <2>2, <2>3, QueueWithoutHead DEF SourcesOK
  <2>5. SourcesOK'
    <3>1. \A x \in Producers : NoneTwice(todo'[x])
      BY <1>4, <2>3, <2>4 DEF SourcesOK
    <3>2. \A q \in Queues : DrivesApart(drives'[q])
      BY <1>4, <2>3, <2>4 DEF SourcesOK
    <3>3. \A q \in Queues : \A k : InDrives(k, drives'[q]) => InDrives(k, drives[q])
      BY <2>3, <2>4
    <3>4. \A x, r \in Producers, k \in Chunks :
            k \in ToSet(todo'[x]) /\ k \in ToSet(todo'[r]) => x = r
      BY <1>4, <2>2, <2>3, <2>4 DEF SourcesOK
    <3>5. \A q, r \in Queues, k \in Chunks :
            InDrives(k, drives'[q]) /\ InDrives(k, drives'[r]) => q = r
      BY <1>4, <3>3 DEF SourcesOK
    <3>6. \A x \in Producers, q \in Queues, k \in Chunks :
            ~(k \in ToSet(todo'[x]) /\ InDrives(k, drives'[q]))
      BY <1>4, <2>2, <2>3, <2>4, <3>3 DEF SourcesOK
    <3>7. QED
      BY <3>1, <3>2, <3>4, <3>5, <3>6 DEF SourcesOK
  <2>6. \A k : Waits(k)' => Waits(k)
    <3>1. \A k : Waits(k)' <=> \/ \E x \in Producers : k \in ToSet(todo'[x])
                               \/ \E q \in Queues : InDrives(k, drives'[q])
      BY DEF Waits, InDrives
    <3>2. QED
      BY <2>2, <2>3, <2>4, <3>1, WaitsInDrives
  <2>7. ChunksMoveNot
    BY <1>3, <1>4, <1>5, <2>1, <2>5, <2>6 DEF ChunksMoveNot, Sending, SendingOK
  <2>8. QED
    BY <2>7, StayOnce
<1>9. CASE Offers(p)
  <2>0. PICK k0 : k0 = Head(todo[p])
    OBVIOUS
  <2>1. /\ drives' = drives /\ todo[p] # <<>> /\ buffer[p] = <<>>
        /\ todo' = [todo EXCEPT ![p] = Tail(@)]
        /\ buffer' = [buffer EXCEPT ![p] = <<k0>>]
    BY <1>9, <2>0 DEF Offers
  <2>2. /\ todo'[p] = Tail(todo[p]) /\ todo[p] \in Seq(Chunks)
        /\ \A x \in Producers \ {p} : todo'[x] = todo[x]
        /\ buffer'[p] = <<k0>>
        /\ \A x \in Producers \ {p} : buffer'[x] = buffer[x]
    BY <1>1, <2>1 DEF ProductionOK, FeedsOK
  <2>3. /\ NoneTwice(todo'[p])
        /\ k0 \in ToSet(todo[p]) /\ k0 \notin ToSet(todo'[p])
        /\ ToSet(todo'[p]) \subseteq ToSet(todo[p])
    BY <1>4, <2>0, <2>1, <2>2, DriveWithoutHead DEF SourcesOK
  <2>4. k0 \in Chunks
    BY <2>0, <2>1, <2>2
  <2>5. \A x \in Producers : \A k : k \in ToSet(todo'[x]) => k \in ToSet(todo[x])
    BY <2>2, <2>3
  <2>6. SourcesOK'
    <3>1. \A x \in Producers : NoneTwice(todo'[x])
      BY <1>4, <2>2, <2>3 DEF SourcesOK
    <3>2. \A x, r \in Producers, k \in Chunks :
            k \in ToSet(todo'[x]) /\ k \in ToSet(todo'[r]) => x = r
      BY <1>4, <2>5 DEF SourcesOK
    <3>3. QED
      BY <1>4, <2>1, <2>5, <3>1, <3>2 DEF SourcesOK
  <2>7. \A k : Waits(k)' => Waits(k)
    BY <2>1, <2>5 DEF Waits
  <2>10. ~Waits(k0)'
    <3>1. \A x \in Producers : k0 \notin ToSet(todo'[x])
      BY <1>4, <2>2, <2>3, <2>4 DEF SourcesOK
    <3>2. \A q \in Queues : ~InDrives(k0, drives'[q])
      BY <1>4, <2>1, <2>3, <2>4 DEF SourcesOK
    <3>3. Waits(k0)' <=> \/ \E x \in Producers : k0 \in ToSet(todo'[x])
                         \/ \E q \in Queues : InDrives(k0, drives'[q])
      BY DEF Waits, InDrives
    <3>4. QED
      BY <3>1, <3>2, <3>3
  <2>11. Waits(k0)
    BY <2>3 DEF Waits
  <2>12. /\ processing[k0] = 0 /\ ~Gone(k0) /\ ~OnFeed(k0)
         /\ \A s \in Sessions : Sending(s) => held[s] # k0
    BY <1>4, <2>4, <2>11 DEF UnsentOK, SendingOK
  <2>13. \A k \in Chunks : Gone(k)' = Gone(k) /\ Indexed(k)' = Indexed(k)
    BY <1>3 DEF Gone, Indexed
  <2>14. /\ \A k \in Chunks : OnFeed(k)' => OnFeed(k) \/ k = k0
         /\ \A x \in Producers, k \in Chunks :
              buffer'[x] = <<k>> => IF x = p THEN k = k0 ELSE buffer[x] = <<k>>
    BY <2>2, OneOnFeed DEF OnFeed
  <2>15. UnsentOK'
    <3>1. \A x, r \in Producers, k \in Chunks :
            buffer'[x] = <<k>> /\ buffer'[r] = <<k>> => x = r
      <4>1. \A x \in Producers : buffer[x] # <<k0>>
        BY <2>12 DEF OnFeed
      <4>2. \A x, r \in Producers, k \in Chunks :
              buffer[x] = <<k>> /\ buffer[r] = <<k>> => x = r
        BY <1>4 DEF UnsentOK
      <4>3. QED
        BY <2>14, <4>1, <4>2
    <3>2. \A k \in Chunks : Waits(k)' => processing[k]' = 0 /\ ~Gone(k)'
      BY <1>3, <1>4, <2>7, <2>13 DEF UnsentOK
    <3>3. \A k \in Chunks :
            OnFeed(k)' => ~Waits(k)' /\ processing[k]' = 0 /\ ~Gone(k)'
      BY <1>3, <1>4, <2>7, <2>10, <2>12, <2>13, <2>14 DEF UnsentOK
    <3>4. \A k \in Chunks :
            processing[k]' > 0 => processing[k]' = 1 /\ ~Indexed(k)'
      BY <1>3, <1>4, <2>13 DEF UnsentOK
    <3>5. QED
      BY <3>1, <3>2, <3>3, <3>4 DEF UnsentOK
  <2>16. SendingOK'
    <3>1. \A s \in Sessions : Sending(s)' = Sending(s) /\ held[s]' = held[s]
      BY <1>3, <1>5 DEF Sending
    <3>2. \A s \in Sessions : Sending(s) => held[s] \in Chunks
      BY <1>1 DEF WorkOK, Sending
    <3>3. \A s \in Sessions, k \in Chunks : Sending(s)' /\ held'[s] = k =>
            ~Waits(k)' /\ ~OnFeed(k)' /\ ~Gone(k)'
      BY <1>3, <1>4, <2>7, <2>12, <2>13, <2>14, <3>1, <3>2 DEF SendingOK
    <3>4. QED
      <4>1. \A s \in Sessions, k \in Chunks :
              Sending(s)' /\ held'[s] = k /\ pc'[s] = "resend" => processing'[k] = 0
        <5>1. \A s \in Sessions, k \in Chunks :
                Sending(s) /\ held[s] = k /\ pc[s] = "resend" => processing[k] = 0
          BY <1>4 DEF SendingOK
        <5>2. QED
          BY <1>3, <1>5, <5>1 DEF Sending
      <4>2. \A s, r \in Sessions :
              Sending(s)' /\ Sending(r)' /\ held'[s] = held'[r] => s = r
        BY <1>3, <1>4, <3>1 DEF SendingOK
      <4>3. \A s \in Sessions : pc'[s] # "requeue"
        BY <1>4, <1>5 DEF SendingOK
      <4>4. QED
        BY <3>3, <4>1, <4>2, <4>3 DEF SendingOK
  <2>17. IndexOK'
    BY <1>3, <1>4 DEF IndexOK
  <2>18. QED
    BY <2>6, <2>15, <2>16, <2>17 DEF OnceInv
<1>10. QED
  BY <1>6, <1>7, <1>8, <1>9 DEF Produce

\* A consumer's steps: a chunk is taken from a feed, sent, confirmed and handed
\* to the indexer, or put back on the feed after the connection broke.
LEMMA SessionOnce ==
  ASSUME TypeInv, OnceInv, NEW s \in Sessions,
         \/ Consume(s) \/ AfterTask(s) \/ Read(s)
         \/ SessionFails(s) \/ SendBreaks(s) \/ SendFails(s)
         \/ TimesOut(s) \/ EndFails(s) \/ SessionBreaks(s)
  PROVE  OnceInv'
<1> USE ConstantsAssumption
    DEF At, Goto, production, feedState, working, storage, tasks, underway,
        indexing, asked, ending, counters
<1>1. PlacesOK /\ FeedsOK /\ WorkingOK /\ WorkOK /\ UnderwayOK /\ IndexingOK
      /\ StorageOK /\ CountersOK /\ LockOK
  BY DEF TypeInv
<1>2. SUFFICES ASSUME timeouts' = 0 PROVE OnceInv'
  BY DEF OnceInv
<1>3. timeouts = 0 /\ ~TimesOut(s) /\ UNCHANGED <<todo, drives>>
  BY <1>1, <1>2
  DEF Consume, ConsumeReturns, ConsumeBegins, TakesFeed, CancelledOutside,
      CancelledInside, LeavesLoop, TakesChunk, Sends, SendRefused, Confirmed,
      Retries, GivesUp, HandsBack, AfterTask, Sweeps, AsksAgain, EndsSession,
      SeesNoFeeds, DataBackupDone, Read, ManageChunkSent, ConfirmationIgnored,
      HandsToIndexer, IndexerRefuses, SessionFails, SendBreaks, SendFails,
      TimesOut, EndFails, SessionBreaks, CountersOK
<1>4. SourcesOK /\ UnsentOK /\ SendingOK /\ IndexOK
  BY <1>3 DEF OnceInv
<1>5. SourcesOK' /\ \A k : Waits(k)' = Waits(k)
  BY <1>3, <1>4 DEF SourcesOK, Waits
<1>6. \A r \in Sessions \ {s} : pc'[r] = pc[r] /\ held'[r] = held[r]
  BY <1>1
  DEF Consume, ConsumeReturns, ConsumeBegins, TakesFeed, CancelledOutside,
      CancelledInside, LeavesLoop, TakesChunk, Sends, SendRefused, Confirmed,
      Retries, GivesUp, HandsBack, AfterTask, Sweeps, AsksAgain, EndsSession,
      SeesNoFeeds, DataBackupDone, Read, ManageChunkSent, ConfirmationIgnored,
      HandsToIndexer, IndexerRefuses, SessionFails, SendBreaks, SendFails,
      TimesOut, EndFails, SessionBreaks, PlacesOK, WorkingOK, Threads
<1>7. pc[s] # "requeue" /\ \A r \in Sessions : Sending(r) => held[r] \in Chunks
  BY <1>1, <1>4 DEF SendingOK, WorkOK, Sending
<1>8. CASE \/ ConsumeReturns(s) \/ ConsumeBegins(s) \/ TakesFeed(s)
           \/ CancelledOutside(s) \/ CancelledInside(s) \/ LeavesLoop(s)
           \/ SendRefused(s) \/ Confirmed(s) \/ GivesUp(s)
           \/ HandsBack(s) \/ AfterTask(s) \/ SessionFails(s) \/ SendFails(s)
           \/ EndFails(s) \/ SessionBreaks(s) \/ ManageChunkSent(s)
           \/ ConfirmationIgnored(s) \/ IndexerRefuses(s)
  <2>1. UNCHANGED <<processing, indexFeed, index, buffer>>
    BY <1>8
    DEF ConsumeReturns, ConsumeBegins, TakesFeed, CancelledOutside,
        CancelledInside, LeavesLoop, SendRefused, Confirmed, GivesUp,
        HandsBack, AfterTask, Sweeps, AsksAgain, EndsSession, SeesNoFeeds,
        DataBackupDone, SessionFails, SendFails, EndFails,
        SessionBreaks, ManageChunkSent, ConfirmationIgnored, IndexerRefuses
  <2>2. \A r \in Sessions : wire'[r] \subseteq wire[r]
    <3>1. \/ wire' = wire \/ wire' = [wire EXCEPT ![s] = {}]
          \/ \E k : wire' = [wire EXCEPT ![s] = @ \ {k}]
      BY <1>8
      DEF ConsumeReturns, ConsumeBegins, TakesFeed, CancelledOutside,
          CancelledInside, LeavesLoop, SendRefused, Confirmed, GivesUp,
          HandsBack, AfterTask, Sweeps, AsksAgain, EndsSession, SeesNoFeeds,
          DataBackupDone, SessionFails, SendFails, EndFails, Disconnects,
          SessionBreaks, ManageChunkSent, ConfirmationIgnored, IndexerRefuses
    <3>2. QED
      BY <1>1, <3>1 DEF StorageOK
  <2>6. \A r \in Sessions, k \in Chunks :
          reading'[r] = k => reading[r] = k \/ k \in wire[r]
    <3>1. \/ reading' = reading \/ reading' = [reading EXCEPT ![s] = NoChunk]
          \/ \E k \in wire[s] : reading' = [reading EXCEPT ![s] = k]
      BY <1>8
      DEF ConsumeReturns, ConsumeBegins, TakesFeed, CancelledOutside,
          CancelledInside, LeavesLoop, SendRefused, Confirmed, GivesUp,
          HandsBack, AfterTask, Sweeps, AsksAgain, EndsSession, SeesNoFeeds,
          DataBackupDone, SessionFails, SendFails, EndFails,
          SessionBreaks, ManageChunkSent, ConfirmationIgnored, IndexerRefuses
    <3>2. QED
      BY <1>1, <3>1 DEF UnderwayOK
  <2>3. /\ Sending(s)' => Sending(s) /\ held'[s] = held[s]
        /\ pc'[s] = "resend" => pc[s] = "resend"
        /\ pc'[s] # "requeue"
    BY <1>1, <1>7, <1>8
    DEF ConsumeReturns, ConsumeBegins, TakesFeed, CancelledOutside,
        CancelledInside, LeavesLoop, SendRefused, Confirmed, GivesUp,
        HandsBack, AfterTask, Sweeps, AsksAgain, EndsSession, SeesNoFeeds,
        DataBackupDone, SessionFails, SendFails, EndFails,
        SessionBreaks, ManageChunkSent, ConfirmationIgnored, IndexerRefuses,
        PlacesOK, Threads, Sending
  <2>4. ChunksMoveNot
    BY <1>3, <1>4, <1>5, <1>6, <2>1, <2>2, <2>3, <2>6
    DEF ChunksMoveNot, Sending, SendingOK
  <2>5. QED
    BY <2>4, StayOnce
<1>9. CASE TakesChunk(s)
  <2>1. PICK k0 \in Chunks, p \in Producers :
          /\ p = feed[s] /\ buffer[p] = <<k0>>
          /\ buffer' = [buffer EXCEPT ![p] = <<>>]
          /\ held' = [held EXCEPT ![s] = k0]
          /\ processing' = [processing EXCEPT ![k0] = @ + 1]
    <3>1. feed[s] \in Producers /\ buffer[feed[s]] # <<>>
      BY <1>1, <1>9 DEF TakesChunk, WorkOK
    <3>2. PICK k \in Chunks : buffer[feed[s]] = <<k>>
      BY <1>1, <3>1 DEF FeedsOK
    <3>3. Head(buffer[feed[s]]) = k
      BY <3>2
    <3>4. /\ buffer' = [buffer EXCEPT ![feed[s]] = <<>>]
          /\ held' = [held EXCEPT ![s] = k]
          /\ processing' = [processing EXCEPT ![k] = @ + 1]
      BY <1>9, <3>3 DEF TakesChunk
    <3>5. QED
      BY <3>1, <3>2, <3>4
  <2>2. /\ UNCHANGED <<wire, reading, index, indexFeed>>
        /\ pc'[s] = "send" /\ pc[s] = "loop" /\ held'[s] = k0
    BY <1>1, <1>9, <2>1 DEF TakesChunk, PlacesOK, WorkingOK, Threads
  <2>3. OnFeed(k0) /\ ~Waits(k0) /\ processing[k0] = 0 /\ ~Gone(k0)
    BY <1>4, <2>1 DEF OnFeed, UnsentOK
  <2>4. /\ processing'[k0] = 1
        /\ \A k \in Chunks \ {k0} : processing'[k] = processing[k]
    BY <1>1, <2>1, <2>3 DEF UnderwayOK
  <2>5. /\ buffer'[p] = <<>>
        /\ \A x \in Producers \ {p} : buffer'[x] = buffer[x]
    BY <1>1, <2>1 DEF FeedsOK
  <2>6. \A x \in Producers, k \in Chunks : buffer'[x] = <<k>> => buffer[x] = <<k>>
    BY <2>5, OneOnFeed
  <2>7. ~OnFeed(k0)'
    <3>1. \A x \in Producers : buffer[x] = <<k0>> => x = p
      BY <1>4, <2>1 DEF UnsentOK
    <3>2. \A x \in Producers : buffer'[x] # <<k0>>
      BY <2>5, <3>1, OneOnFeed
    <3>3. QED
      BY <3>2 DEF OnFeed
  <2>8. \A k \in Chunks : OnFeed(k)' => OnFeed(k) /\ k # k0
    BY <2>6, <2>7 DEF OnFeed
  <2>9. \A k \in Chunks : Gone(k)' = Gone(k) /\ Indexed(k)' = Indexed(k)
    BY <2>2 DEF Gone, Indexed
  <2>10. UnsentOK'
    <3>1. \A k \in Chunks : Waits(k)' => processing[k]' = 0 /\ ~Gone(k)'
      BY <1>4, <1>5, <2>3, <2>4, <2>9 DEF UnsentOK
    <3>2. \A k \in Chunks :
            OnFeed(k)' => ~Waits(k)' /\ processing[k]' = 0 /\ ~Gone(k)'
      BY <1>4, <1>5, <2>4, <2>8, <2>9 DEF UnsentOK
    <3>3. \A k \in Chunks :
            processing[k]' > 0 => processing[k]' = 1 /\ ~Indexed(k)'
      BY <1>4, <2>3, <2>4, <2>9 DEF UnsentOK, Gone
    <3>4. \A x, r \in Producers, k \in Chunks :
            buffer'[x] = <<k>> /\ buffer'[r] = <<k>> => x = r
      <4>1. \A x, r \in Producers, k \in Chunks :
              buffer[x] = <<k>> /\ buffer[r] = <<k>> => x = r
        BY <1>4 DEF UnsentOK
      <4>2. QED
        BY <2>6, <4>1
    <3>5. QED
      BY <3>1, <3>2, <3>3, <3>4 DEF UnsentOK
  <2>11. SendingOK'
    <3>1. /\ \A r \in Sessions \ {s} : Sending(r)' => Sending(r)
          /\ \A r \in Sessions : Sending(r) => held[r] # k0
          /\ Sending(s)' /\ pc'[s] # "resend"
      BY <1>4, <1>6, <2>2, <2>3 DEF Sending, SendingOK
    <3>2. \A r \in Sessions, k \in Chunks : Sending(r)' /\ held'[r] = k =>
            /\ ~Waits(k)' /\ ~OnFeed(k)' /\ ~Gone(k)'
            /\ pc'[r] = "resend" => processing'[k] = 0
      <4>1. SUFFICES ASSUME NEW r \in Sessions, NEW k \in Chunks, Sending(r)',
                            held'[r] = k
                     PROVE  /\ ~Waits(k)' /\ ~OnFeed(k)' /\ ~Gone(k)'
                            /\ pc'[r] = "resend" => processing'[k] = 0
        OBVIOUS
      <4>2. CASE r = s
        BY <1>5, <2>2, <2>3, <2>7, <2>9, <3>1, <4>1, <4>2
      <4>3. CASE r # s
        <5>1. Sending(r) /\ held[r] = k /\ k # k0 /\ pc'[r] = pc[r]
          BY <1>6, <3>1, <4>1, <4>3
        <5>2. ~Waits(k) /\ ~OnFeed(k) /\ ~Gone(k)
              /\ (pc[r] = "resend" => processing[k] = 0)
          BY <1>4, <5>1 DEF SendingOK
        <5>3. QED
          BY <1>5, <2>4, <2>8, <2>9, <5>1, <5>2
      <4>4. QED
        BY <4>2, <4>3
    <3>3. \A r, q \in Sessions :
            Sending(r)' /\ Sending(q)' /\ held'[r] = held'[q] => r = q
      <4>1. \A r, q \in Sessions :
              Sending(r) /\ Sending(q) /\ held[r] = held[q] => r = q
        BY <1>4 DEF SendingOK
      <4>2. QED
        BY <1>6, <2>2, <3>1, <4>1
    <3>4. \A r \in Sessions : pc'[r] # "requeue"
      BY <1>4, <1>6, <2>2 DEF SendingOK
    <3>5. QED
      BY <3>2, <3>3, <3>4 DEF SendingOK
  <2>12. IndexOK'
    BY <1>4, <2>2 DEF IndexOK
  <2>13. QED
    BY <1>5, <2>10, <2>11, <2>12 DEF OnceInv
<1>10. CASE Sends(s) /\ s \notin open
  <2>1. /\ UNCHANGED <<processing, indexFeed, index, buffer, wire, reading, held>>
        /\ pc'[s] = "wait"
    BY <1>1, <1>10 DEF Sends, PlacesOK, Threads
  <2>2. ChunksMoveNot
    BY <1>3, <1>4, <1>5, <1>6, <2>1 DEF ChunksMoveNot, Sending, SendingOK
  <2>3. QED
    BY <2>2, StayOnce
<1>11. CASE Sends(s) /\ s \in open
  <2>1. PICK k0 \in Chunks :
          /\ held[s] = k0 /\ pc[s] = "send" /\ pc'[s] = "wait"
          /\ wire' = [wire EXCEPT ![s] = @ \cup {k0}]
          /\ UNCHANGED <<processing, indexFeed, index, buffer, reading, held>>
    BY <1>1, <1>11 DEF Sends, PlacesOK, WorkOK, Threads
  <2>2. /\ Sending(s) /\ ~Sending(s)'
        /\ ~Waits(k0) /\ ~OnFeed(k0) /\ ~Gone(k0)
    BY <1>4, <2>1 DEF SendingOK, Sending
  <2>3. \A k \in Chunks : /\ OnFeed(k)' = OnFeed(k) /\ Indexed(k)' = Indexed(k)
                          /\ Gone(k)' => Gone(k) \/ k = k0
    <3>1. \A r \in Sessions, k \in Chunks : k \in wire'[r] => k \in wire[r] \/ k = k0
      BY <1>1, <2>1 DEF StorageOK
    <3>2. QED
      BY <2>1, <3>1 DEF OnFeed, Indexed, Gone
  <2>4. UnsentOK'
    <3>1. \A k \in Chunks : Waits(k)' => processing[k]' = 0 /\ ~Gone(k)'
      BY <1>4, <1>5, <2>1, <2>2, <2>3 DEF UnsentOK
    <3>2. \A k \in Chunks :
            OnFeed(k)' => ~Waits(k)' /\ processing[k]' = 0 /\ ~Gone(k)'
      BY <1>4, <1>5, <2>1, <2>2, <2>3 DEF UnsentOK
    <3>3. \A k \in Chunks :
            processing[k]' > 0 => processing[k]' = 1 /\ ~Indexed(k)'
      BY <1>4, <2>1, <2>3 DEF UnsentOK
    <3>4. \A x, r \in Producers, k \in Chunks :
            buffer'[x] = <<k>> /\ buffer'[r] = <<k>> => x = r
      BY <1>4, <2>1 DEF UnsentOK
    <3>5. QED
      BY <3>1, <3>2, <3>3, <3>4 DEF UnsentOK
  <2>5. SendingOK'
    <3>1. \A r \in Sessions : Sending(r)' =>
            Sending(r) /\ r # s /\ held[r] # k0 /\ pc'[r] = pc[r]
      BY <1>4, <1>6, <2>1, <2>2 DEF Sending, SendingOK
    <3>2. \A r \in Sessions, k \in Chunks : Sending(r)' /\ held'[r] = k =>
            /\ ~Waits(k)' /\ ~OnFeed(k)' /\ ~Gone(k)'
            /\ pc'[r] = "resend" => processing'[k] = 0
      BY <1>4, <1>5, <2>1, <2>3, <3>1 DEF SendingOK
    <3>3. \A r, q \in Sessions :
            Sending(r)' /\ Sending(q)' /\ held'[r] = held'[q] => r = q
      BY <1>4, <2>1, <3>1 DEF SendingOK
    <3>4. \A r \in Sessions : pc'[r] # "requeue"
      BY <1>4, <1>6, <2>1 DEF SendingOK
    <3>5. QED
      BY <3>2, <3>3, <3>4 DEF SendingOK
  <2>6. IndexOK'
    BY <1>4, <2>1 DEF IndexOK
  <2>7. QED
    BY <1>5, <2>4, <2>5, <2>6 DEF OnceInv
<1>12. CASE SendBreaks(s)
  <2>1. PICK k0 \in Chunks :
          /\ held[s] = k0 /\ pc[s] = "send" /\ pc'[s] = "resend"
          /\ processing' = [processing EXCEPT ![k0] = 0]
          /\ UNCHANGED <<wire, indexFeed, index, buffer, reading, held>>
    BY <1>1, <1>12 DEF SendBreaks, Removed, PlacesOK, WorkOK, Threads
  <2>2. /\ processing'[k0] = 0
        /\ \A k \in Chunks : k # k0 => processing'[k] = processing[k]
    BY <1>1, <2>1 DEF UnderwayOK
  <2>3. \A k \in Chunks : /\ OnFeed(k)' = OnFeed(k) /\ Indexed(k)' = Indexed(k)
                          /\ Gone(k)' = Gone(k)
    BY <2>1 DEF OnFeed, Indexed, Gone
  <2>4. UnsentOK'
    <3>1. \A k \in Chunks : Waits(k)' => processing[k]' = 0 /\ ~Gone(k)'
      BY <1>4, <1>5, <2>2, <2>3 DEF UnsentOK
    <3>2. \A k \in Chunks :
            OnFeed(k)' => ~Waits(k)' /\ processing[k]' = 0 /\ ~Gone(k)'
      BY <1>4, <1>5, <2>2, <2>3 DEF UnsentOK
    <3>3. \A k \in Chunks :
            processing[k]' > 0 => processing[k]' = 1 /\ ~Indexed(k)'
      <4>1. \A k \in Chunks : processing[k] > 0 => processing[k] = 1 /\ ~Indexed(k)
        BY <1>4 DEF UnsentOK
      <4>2. QED
        BY <2>2, <2>3, <4>1
    <3>4. \A x, r \in Producers, k \in Chunks :
            buffer'[x] = <<k>> /\ buffer'[r] = <<k>> => x = r
      BY <1>4, <2>1 DEF UnsentOK
    <3>5. QED
      BY <3>1, <3>2, <3>3, <3>4 DEF UnsentOK
  <2>5. SendingOK'
    <3>1. \A r \in Sessions :
            /\ Sending(r)' = Sending(r)
            /\ pc'[r] = "resend" => pc[r] = "resend" \/ r = s
      BY <1>6, <2>1 DEF Sending
    <3>2. \A r \in Sessions, k \in Chunks : Sending(r)' /\ held'[r] = k =>
            /\ ~Waits(k)' /\ ~OnFeed(k)' /\ ~Gone(k)'
            /\ pc'[r] = "resend" => processing'[k] = 0
      BY <1>4, <1>5, <2>1, <2>2, <2>3, <3>1 DEF SendingOK
    <3>3. \A r, q \in Sessions :
            Sending(r)' /\ Sending(q)' /\ held'[r] = held'[q] => r = q
      BY <1>4, <2>1, <3>1 DEF SendingOK
    <3>4. \A r \in Sessions : pc'[r] # "requeue"
      BY <1>4, <1>6, <2>1 DEF SendingOK
    <3>5. QED
      BY <3>2, <3>3, <3>4 DEF SendingOK
  <2>6. IndexOK'
    BY <1>4, <2>1 DEF IndexOK
  <2>7. QED
    BY <1>5, <2>4, <2>5, <2>6 DEF OnceInv
<1>13. CASE Retries(s)
  <2>1. PICK k0 \in Chunks, p \in Producers :
          /\ held[s] = k0 /\ feed[s] = p /\ pc[s] = "resend" /\ pc'[s] = "loop"
          /\ buffer' = [buffer EXCEPT ![p] = <<k0>>]
          /\ UNCHANGED <<wire, indexFeed, index, processing, reading, held>>
    BY <1>1, <1>7, <1>13 DEF Retries, PlacesOK, WorkOK, Threads
  <2>2. /\ Sending(s) /\ ~Sending(s)'
        /\ ~Waits(k0) /\ ~OnFeed(k0) /\ ~Gone(k0) /\ processing[k0] = 0
    BY <1>4, <2>1 DEF SendingOK, Sending
  <2>3. /\ buffer'[p] = <<k0>>
        /\ \A x \in Producers \ {p} : buffer'[x] = buffer[x]
    BY <1>1, <2>1 DEF FeedsOK
  <2>4. \A k \in Chunks : /\ Indexed(k)' = Indexed(k) /\ Gone(k)' = Gone(k)
                          /\ OnFeed(k)' => OnFeed(k) \/ k = k0
    BY <2>1, <2>3, OneOnFeed DEF OnFeed, Indexed, Gone
  <2>5. UnsentOK'
    <3>1. \A k \in Chunks : Waits(k)' => processing[k]' = 0 /\ ~Gone(k)'
      BY <1>4, <1>5, <2>1, <2>4 DEF UnsentOK
    <3>2. \A k \in Chunks :
            OnFeed(k)' => ~Waits(k)' /\ processing[k]' = 0 /\ ~Gone(k)'
      BY <1>4, <1>5, <2>1, <2>2, <2>4 DEF UnsentOK
    <3>3. \A k \in Chunks :
            processing[k]' > 0 => processing[k]' = 1 /\ ~Indexed(k)'
      BY <1>4, <2>1, <2>4 DEF UnsentOK
    <3>4. \A x, r \in Producers, k \in Chunks :
            buffer'[x] = <<k>> /\ buffer'[r] = <<k>> => x = r
      <4>1. \A x \in Producers : buffer[x] # <<k0>>
        BY <2>2 DEF OnFeed
      <4>2. \A x, r \in Producers, k \in Chunks :
              buffer[x] = <<k>> /\ buffer[r] = <<k>> => x = r
        BY <1>4 DEF UnsentOK
      <4>3. QED
        BY <2>3, <4>1, <4>2, OneOnFeed
    <3>5. QED
      BY <3>1, <3>2, <3>3, <3>4 DEF UnsentOK
  <2>6. SendingOK'
    <3>1. \A r \in Sessions : Sending(r)' =>
            Sending(r) /\ r # s /\ held[r] # k0 /\ pc'[r] = pc[r]
      BY <1>4, <1>6, <2>1, <2>2 DEF Sending, SendingOK
    <3>2. \A r \in Sessions, k \in Chunks : Sending(r)' /\ held'[r] = k =>
            /\ ~Waits(k)' /\ ~OnFeed(k)' /\ ~Gone(k)'
            /\ pc'[r] = "resend" => processing'[k] = 0
      <4>1. \A r \in Sessions, k \in Chunks : Sending(r) /\ held[r] = k =>
              /\ ~Waits(k) /\ ~OnFeed(k) /\ ~Gone(k)
              /\ pc[r] = "resend" => processing[k] = 0
        BY <1>4 DEF SendingOK
      <4>2. QED
        BY <1>5, <2>1, <2>4, <3>1, <4>1
    <3>3. \A r, q \in Sessions :
            Sending(r)' /\ Sending(q)' /\ held'[r] = held'[q] => r = q
      BY <1>4, <2>1, <3>1 DEF SendingOK
    <3>4. \A r \in Sessions : pc'[r] # "requeue"
      BY <1>4, <1>6, <2>1 DEF SendingOK
    <3>5. QED
      BY <3>2, <3>3, <3>4 DEF SendingOK
  <2>7. IndexOK'
    BY <1>4, <2>1 DEF IndexOK
  <2>8. QED
    BY <1>5, <2>5, <2>6, <2>7 DEF OnceInv
<1>14. CASE HandsToIndexer(s)
  <2>1. PICK k0 \in Chunks :
          /\ reading[s] = k0
          /\ indexFeed' = Append(indexFeed, k0)
          /\ processing' = [processing EXCEPT ![k0] = @ - 1]
          /\ reading' = IF processing[k0] > 1 THEN reading
                        ELSE [reading EXCEPT ![s] = NoChunk]
          /\ UNCHANGED <<wire, index, buffer, held, pc>>
    BY <1>1, <1>14 DEF HandsToIndexer, UnderwayOK
  <2>2. processing[k0] = 1 /\ ~Indexed(k0) /\ Gone(k0) /\ ~Waits(k0) /\ ~OnFeed(k0)
    BY <1>1, <1>4, <2>1 DEF LockOK, UnsentOK, UnderwayOK, Gone
  <2>3. /\ processing'[k0] = 0
        /\ \A k \in Chunks : k # k0 => processing'[k] = processing[k]
        /\ \A r \in Sessions, k \in Chunks : reading'[r] = k => reading[r] = k
    BY <1>1, <2>1, <2>2 DEF UnderwayOK
  <2>4. ToSet(indexFeed') = ToSet(indexFeed) \cup {k0}
    BY <1>1, <2>1, HoldsAppended DEF IndexingOK
  <2>5. \A k \in Chunks : /\ OnFeed(k)' = OnFeed(k)
                          /\ Indexed(k)' => Indexed(k) \/ k = k0
                          /\ Gone(k)' => Gone(k)
    <3>1. \A k \in Chunks : Indexed(k)' => Indexed(k) \/ k = k0
      BY <2>1, <2>4 DEF Indexed
    <3>2. QED
      BY <2>1, <2>2, <2>3, <3>1 DEF OnFeed, Gone
  <2>6. UnsentOK'
    <3>1. \A k \in Chunks : Waits(k)' => processing[k]' = 0 /\ ~Gone(k)'
      BY <1>4, <1>5, <2>3, <2>5 DEF UnsentOK
    <3>2. \A k \in Chunks :
            OnFeed(k)' => ~Waits(k)' /\ processing[k]' = 0 /\ ~Gone(k)'
      BY <1>4, <1>5, <2>3, <2>5 DEF UnsentOK
    <3>3. \A k \in Chunks :
            processing[k]' > 0 => processing[k]' = 1 /\ ~Indexed(k)'
      BY <1>4, <2>3, <2>5 DEF UnsentOK
    <3>4. \A x, r \in Producers, k \in Chunks :
            buffer'[x] = <<k>> /\ buffer'[r] = <<k>> => x = r
      BY <1>4, <2>1 DEF UnsentOK
    <3>5. QED
      BY <3>1, <3>2, <3>3, <3>4 DEF UnsentOK
  <2>7. SendingOK'
    <3>1. \A r \in Sessions : Sending(r)' = Sending(r)
      BY <2>1 DEF Sending
    <3>2. \A r \in Sessions, k \in Chunks : Sending(r)' /\ held'[r] = k =>
            /\ ~Waits(k)' /\ ~OnFeed(k)' /\ ~Gone(k)'
            /\ pc'[r] = "resend" => processing'[k] = 0
      BY <1>4, <1>5, <2>1, <2>3, <2>5, <3>1 DEF SendingOK
    <3>3. \A r, q \in Sessions :
            Sending(r)' /\ Sending(q)' /\ held'[r] = held'[q] => r = q
      BY <1>4, <2>1, <3>1 DEF SendingOK
    <3>4. \A r \in Sessions : pc'[r] # "requeue"
      BY <1>4, <2>1 DEF SendingOK
    <3>5. QED
      BY <3>2, <3>3, <3>4 DEF SendingOK
  <2>8. IndexOK'
    <3>1. /\ indexFeed \in Seq(Chunks) /\ DOMAIN indexFeed = 1..Len(indexFeed)
          /\ index \in Seq(Chunks) /\ DOMAIN index = 1..Len(index)
      BY <1>1 DEF IndexingOK
    <3>2. /\ \A i \in 1..Len(indexFeed) : indexFeed[i] # k0
          /\ \A i \in 1..Len(index) : index[i] # k0
      BY <2>2, <3>1 DEF Indexed, ToSet
    <3>3. /\ Len(indexFeed) \in Nat /\ Len(indexFeed') = Len(indexFeed) + 1
          /\ indexFeed'[Len(indexFeed) + 1] = k0
          /\ \A i \in 1..Len(indexFeed) : indexFeed'[i] = indexFeed[i]
      BY <2>1, <3>1
    <3>4. \A i \in 1..Len(indexFeed') :
            i \in 1..Len(indexFeed) \/ i = Len(indexFeed) + 1
      BY <3>3
    <3>5. \A i, j \in 1..Len(indexFeed') : indexFeed'[i] = indexFeed'[j] => i = j
      BY <1>4, <3>2, <3>3, <3>4 DEF IndexOK
    <3>6. \A i \in 1..Len(index), j \in 1..Len(indexFeed') : index[i] # indexFeed'[j]
      BY <1>4, <3>2, <3>3, <3>4 DEF IndexOK
    <3>7. QED
      BY <1>4, <2>1, <3>5, <3>6 DEF IndexOK
  <2>9. QED
    BY <1>5, <2>6, <2>7, <2>8 DEF OnceInv
<1>15. QED
  BY <1>3, <1>8, <1>9, <1>10, <1>11, <1>12, <1>13, <1>14
  DEF Consume, Read

\* The indexer moves a chunk from its feed to the index.
LEMMA IndexesOnce ==
  ASSUME TypeInv, OnceInv, Indexes
  PROVE  OnceInv'
<1> USE DEF production, feedState, working, storage, tasks, underway, asked,
            ending, counters
<1>1. SUFFICES ASSUME timeouts' = 0
               PROVE  (SourcesOK /\ UnsentOK /\ SendingOK /\ IndexOK)'
  BY DEF OnceInv
<1>2. /\ index' = Append(index, Head(indexFeed)) /\ indexFeed' = Tail(indexFeed)
      /\ indexFeed # <<>> /\ indexFeed \in Seq(Chunks) /\ index \in Seq(Chunks)
      /\ UNCHANGED <<pc, todo, drives, buffer, processing, wire, reading, held, timeouts>>
  BY DEF Indexes, TypeInv, IndexingOK
<1>3. SourcesOK /\ UnsentOK /\ SendingOK /\ IndexOK
  BY <1>1, <1>2 DEF OnceInv
<1>4. PICK k0 \in Chunks : Head(indexFeed) = k0
  BY <1>2
<1>5. /\ DOMAIN indexFeed = 1..Len(indexFeed) /\ indexFeed[1] = k0
      /\ 1 \in 1..Len(indexFeed) /\ DOMAIN indexFeed' = 1..Len(indexFeed')
      /\ \A i \in 1..Len(indexFeed') :
           /\ i \in Nat /\ i + 1 \in 1..Len(indexFeed) /\ i + 1 # 1
           /\ indexFeed'[i] = indexFeed[i + 1]
      /\ \A i, j \in 1..Len(indexFeed') : i + 1 = j + 1 => i = j
  BY <1>2, <1>4, WithoutHead
<1>6. /\ DOMAIN index = 1..Len(index) /\ DOMAIN index' = 1..Len(index')
      /\ Len(index) + 1 \in 1..Len(index') /\ index'[Len(index) + 1] = k0
      /\ \A i \in 1..Len(index) : index'[i] = index[i]
      /\ \A i \in 1..Len(index') : i \in 1..Len(index) \/ i = Len(index) + 1
  <2>1. Len(index) \in Nat /\ Len(index') = Len(index) + 1
    BY <1>2, <1>4
  <2>2. QED
    BY <1>2, <1>4, <2>1
<1>7. \A k : Indexed(k)' => Indexed(k)
  <2>1. ToSet(index') = ToSet(index) \cup {k0}
    BY <1>2, <1>4, HoldsAppended
  <2>2. k0 \in ToSet(indexFeed)
    BY <1>5 DEF ToSet
  <2>3. \A i \in 1..Len(indexFeed') : indexFeed'[i] \in ToSet(indexFeed)
    BY <1>5 DEF ToSet
  <2>4. ToSet(indexFeed') \subseteq ToSet(indexFeed)
    BY <1>5, <2>3 DEF ToSet
  <2>5. QED
    BY <2>1, <2>2, <2>4 DEF Indexed
<1>8. \A k : /\ Waits(k)' = Waits(k) /\ OnFeed(k)' = OnFeed(k)
             /\ Gone(k)' => Gone(k)
  BY <1>2, <1>7 DEF Waits, OnFeed, Gone
<1>9. SourcesOK'
  BY <1>2, <1>3 DEF SourcesOK
<1>10. UnsentOK'
  BY <1>2, <1>3, <1>7, <1>8 DEF UnsentOK
<1>11. SendingOK'
  BY <1>2, <1>3, <1>8 DEF SendingOK, Sending
<1>12. IndexOK'
  <2>1. \A i, j \in 1..Len(index') : index'[i] = index'[j] => i = j
    BY <1>3, <1>5, <1>6 DEF IndexOK
  <2>2. \A i, j \in 1..Len(indexFeed') : indexFeed'[i] = indexFeed'[j] => i = j
    <3>1. SUFFICES ASSUME NEW i \in 1..Len(indexFeed'),
                          NEW j \in 1..Len(indexFeed'),
                          indexFeed'[i] = indexFeed'[j]
                   PROVE  i = j
      OBVIOUS
    <3>2. i + 1 = j + 1
      BY <1>3, <1>5, <3>1 DEF IndexOK
    <3>3. QED
      BY <1>5, <3>2
  <2>3. \A i \in 1..Len(index'), j \in 1..Len(indexFeed') : index'[i] # indexFeed'[j]
    <3>1. \A j \in 1..Len(indexFeed') : indexFeed'[j] # k0
      BY <1>3, <1>5 DEF IndexOK
    <3>2. QED
      BY <1>3, <1>5, <1>6, <3>1 DEF IndexOK
  <2>4. QED
    BY <2>1, <2>2, <2>3 DEF IndexOK
<1>13. QED
  BY <1>9, <1>10, <1>11, <1>12

\* The other threads move no chunk.
LEMMA OthersOnce ==
  ASSUME TypeInv, OnceInv,
         \/ \E s \in Sessions : SessionReceived(s)
         \/ \E w \in Producers \cup Sessions : UnexpectedError(w) \/ ErrorEnds(w)
         \/ Index \/ SendIndex \/ IndexSessionFails \/ IndexNotSent
         \/ Registers \/ CancelTask \/ CancelEnds
  PROVE  OnceInv'
<1> USE ConstantsAssumption
    DEF At, Goto, production, feedState, working, storage, tasks, underway,
        indexing, asked, ending, counters, CancelsAndWaits, Threads
<1>1. PlacesOK /\ AskedOK /\ WorkOK
  BY DEF TypeInv
<1>2. CASE Indexes
  BY <1>2, IndexesOnce
<1>3. CASE ~Indexes
  <2>1. UNCHANGED <<todo, drives, buffer, processing, indexFeed, index, wire,
                    reading, held, timeouts>>
    BY <1>3
    DEF SessionReceived, UnexpectedError, ErrorEnds, Index, IndexerStarts,
        IndexerEnds, ProcessIndex, BackupDone, SendIndex,
        IndexSessionFails, IndexNotSent, Registers, CancelTask, CancelEnds
  <2>2. \A s \in Sessions :
          pc'[s] = pc[s] \/ pc'[s] \in {"start", "failing", "dead"}
    BY <1>1, <1>3
    DEF SessionReceived, UnexpectedError, ErrorEnds, Index, IndexerStarts,
        IndexerEnds, ProcessIndex, BackupDone, SendIndex, IndexSessionFails,
        IndexNotSent, Registers, CancelTask, CancelEnds, PlacesOK
  <2>3. timeouts' = 0 => SourcesOK' /\ SendingOK
    BY <2>1 DEF OnceInv, SourcesOK
  <2>4. ChunksMoveNot
    BY <2>1, <2>2, <2>3 DEF ChunksMoveNot, Sending, SendingOK, Waits
  <2>5. QED
    BY <2>4, StayOnce
<1>4. QED
  BY <1>2, <1>3

\* As long as no confirmation is late, no chunk is twice in the index, however
\* often a broken connection makes it be sent again, provided that the drives
\* give each chunk once.
THEOREM NoChunkIndexedTwice ==
  ASSUME DistinctChunks
  PROVE  Spec => []IndexedOnce
<1>1. Init => OnceInv
  <2>1. SUFFICES ASSUME Init PROVE OnceInv
    OBVIOUS
  <2>2. /\ drives = Drives /\ todo = [p \in Producers |-> <<>>]
        /\ buffer = [p \in Producers |-> <<>>]
        /\ processing = [k \in Chunks |-> 0]
        /\ wire = [s \in Sessions |-> {}]
        /\ reading = [s \in Sessions |-> NoChunk]
        /\ index = <<>> /\ indexFeed = <<>>
        /\ \A s \in Sessions : pc[s] = "none"
    BY <2>1, ConstantsAssumption DEF Init, Threads
  <2>3. ToSet(<<>>) = {} /\ Len(<<>>) = 0 /\ 1..0 = {}
    BY DEF ToSet
  <2>4. SourcesOK
    <3>1. \A p \in Producers : ToSet(todo[p]) = {} /\ NoneTwice(todo[p])
      BY <2>2, <2>3 DEF NoneTwice
    <3>2. QED
      BY <2>2, <3>1 DEF SourcesOK, DistinctChunks
  <2>5. \A k \in Chunks : ~OnFeed(k) /\ ~Indexed(k) /\ ~Gone(k)
    BY <2>2, <2>3, OneOnFeed, ConstantsAssumption DEF OnFeed, Indexed, Gone
  <2>6. UnsentOK
    BY <2>2, <2>5, OneOnFeed DEF UnsentOK
  <2>7. SendingOK
    BY <2>2 DEF SendingOK, Sending
  <2>8. IndexOK
    BY <2>2, <2>3 DEF IndexOK
  <2>9. QED
    BY <2>4, <2>6, <2>7, <2>8 DEF OnceInv
<1>2. TypeInv /\ OnceInv /\ [Next]_vars => OnceInv'
  <2>1. SUFFICES ASSUME TypeInv, OnceInv, [Next]_vars PROVE OnceInv'
    OBVIOUS
  <2>2. CASE UNCHANGED vars
    <3>1. UNCHANGED <<pc, todo, drives, buffer, processing, indexFeed, index,
                      wire, reading, held, timeouts>>
      BY <2>2
      DEF vars, production, feedState, working, storage, underway, indexing,
          counters
    <3>2. timeouts' = 0 => SourcesOK' /\ SendingOK
      BY <2>1, <3>1 DEF OnceInv, SourcesOK
    <3>3. ChunksMoveNot
      BY <3>1, <3>2 DEF ChunksMoveNot, Sending, SendingOK, Waits
    <3>4. QED
      BY <2>1, <3>3, StayOnce
  <2>3. CASE Works
    BY <2>1, <2>3, ProduceOnce, SessionOnce, OthersOnce DEF Works
  <2>4. CASE HubAnswers
    BY <2>1, <2>4, OthersOnce DEF HubAnswers
  <2>5. CASE Disturbs
    BY <2>1, <2>5, SessionOnce, OthersOnce DEF Disturbs
  <2>6. QED
    BY <2>1, <2>2, <2>3, <2>4, <2>5 DEF Next
<1>3. QED
  BY TypeInvCorrect, OnceInvIndex, <1>1, <1>2, PTL DEF Spec
=============================================================================
