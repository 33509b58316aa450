-------------------------- MODULE PipelineJob_proofs --------------------------
(***************************************************************************)
(* BackupPipeline implements BackupJob, for every value of its constants   *)
(* for which a producer is started for each queue of drives at once        *)
(* (Parallelism is "auto"), the short windows are left undisturbed and the *)
(* first sessions come after the first feeds.                              *)
(***************************************************************************)
EXTENDS BackupPipeline_proofs, FiniteSetTheorems

-----------------------------------------------------------------------------
\* The feeds: none is lost or shared.

\* A consumer that has a feed, one that has none, and a producer that has not
\* put its feed on chunksFeeds.
AtWork(s) == pc[s] \in {"loop", "send", "wait", "requeue", "resend", "handback"}
Without(s) ==
  pc[s] \in {"none", "start", "take", "swept", "closing", "emptied", "idle"}
Early == {"off", "begin", "dequeuing", "created", "announce"}
Unannounced(p) == pc[p] \in Early

\* A feed is in one place, once, and in none before its producer announces it.
\* It leaves chunksFeeds and its consumer for good only when it is completed or
\* the job is interrupted.
OnePlace ==
  /\ \A i, j \in 1..Len(feeds) : feeds[i] = feeds[j] => i = j
  /\ \A s, r \in Sessions : AtWork(s) /\ AtWork(r) /\ feed[s] = feed[r] => s = r
  /\ \A s \in Sessions, i \in 1..Len(feeds) : AtWork(s) => feeds[i] # feed[s]
NotTooEarly ==
  /\ \A i \in 1..Len(feeds) : ~Unannounced(feeds[i])
  /\ \A s \in Sessions : AtWork(s) => ~Unannounced(feed[s])
SomePlace ==
  Interrupted \/ \A p \in Producers : Announced(p) /\ ~Completed(p) =>
    \/ \E i \in 1..Len(feeds) : feeds[i] = p
    \/ \E s \in Sessions : AtWork(s) /\ feed[s] = p
LabelsOK ==
  /\ \A s \in Sessions : Without(s) => feed[s] = 0
  /\ \A p \in closed : pc[p] = "ended"

FeedsInv == OnePlace /\ NotTooEarly /\ SomePlace /\ LabelsOK

\* The invariant in terms of the numbers FeedNotForgotten counts.
LEMMA FeedsInvCounts ==
  ASSUME TypeInv, FeedsInv
  PROVE  FeedNotForgotten
<1> USE ConstantsAssumption
<1>1. SUFFICES ASSUME NEW p \in Producers, Announced(p), ~Completed(p),
                      ~Interrupted
               PROVE  Cardinality({i \in DOMAIN feeds : feeds[i] = p})
                        + Cardinality({s \in Holders(p) : Running(s)}) = 1
  BY DEF FeedNotForgotten
<1> DEFINE F == {i \in DOMAIN feeds : feeds[i] = p}
           H == {s \in Holders(p) : Running(s)}
<1>2. H = {s \in Sessions : AtWork(s) /\ feed[s] = p}
  <2>1. p # 0
    BY FS_CardinalityType
  <2>2. ASSUME NEW s \in Sessions, feed[s] = p, Running(s) PROVE AtWork(s)
    <3>1. ~Without(s)
      BY <2>1, <2>2 DEF FeedsInv, LabelsOK
    <3>2. QED
      BY <2>2, <3>1 DEF Running, Without, AtWork
  <2>3. \A s \in Sessions : AtWork(s) => Running(s)
    BY DEF AtWork, Running
  <2>4. QED
    BY <2>2, <2>3 DEF Holders
<1>3. DOMAIN feeds = 1..Len(feeds)
  BY DEF TypeInv, FeedsOK
<1>4. CASE \E i \in 1..Len(feeds) : feeds[i] = p
  <2>1. PICK i \in 1..Len(feeds) : feeds[i] = p
    BY <1>4
  <2>2. F = {i}
    BY <1>3, <2>1 DEF FeedsInv, OnePlace
  <2>3. H = {}
    BY <1>2, <2>1 DEF FeedsInv, OnePlace
  <2> HIDE DEF F, H
  <2>4. Cardinality(F) = 1 /\ Cardinality(H) = 0
    BY <2>2, <2>3, FS_Singleton, FS_EmptySet
  <2>5. QED
    BY <2>4 DEF F, H
<1>5. CASE ~\E i \in 1..Len(feeds) : feeds[i] = p
  <2>1. PICK s \in Sessions : AtWork(s) /\ feed[s] = p
    BY <1>1, <1>5 DEF FeedsInv, SomePlace
  <2>2. F = {}
    BY <1>3, <1>5
  <2>3. H = {s}
    BY <1>2, <2>1 DEF FeedsInv, OnePlace
  <2> HIDE DEF F, H
  <2>4. Cardinality(F) = 0 /\ Cardinality(H) = 1
    BY <2>2, <2>3, FS_Singleton, FS_EmptySet
  <2>5. QED
    BY <2>4 DEF F, H
<1>6. QED
  BY <1>4, <1>5

-----------------------------------------------------------------------------
\* What most steps do: no feed changes its place, except that a consumer may
\* leave a completed one, or any when the job is interrupted.
FeedsStay ==
  /\ UNCHANGED <<feeds, feed>>
  /\ \A s \in Sessions : (AtWork(s)' => AtWork(s)) /\ (Without(s)' => Without(s))
  /\ \A p \in Producers : Unannounced(p)' => Unannounced(p)
  /\ \A p \in closed' : pc'[p] = "ended"
  /\ Interrupted => Interrupted'
  /\ ~Interrupted' =>
       /\ \A p \in Producers :
            Announced(p)' /\ ~Completed(p)' => Announced(p) /\ ~Completed(p)
       /\ \A s \in Sessions : AtWork(s) /\ ~Completed(feed[s])' => AtWork(s)'

LEMMA StayInPlace ==
  ASSUME TypeInv, FeedsInv, FeedsStay
  PROVE  FeedsInv'
<1>1. feeds \in Seq(Producers) /\ \A s \in Sessions : AtWork(s) => feed[s] \in Producers
  BY DEF TypeInv, FeedsOK, WorkOK, AtWork
<1>2. OnePlace'
  BY DEF FeedsInv, FeedsStay, OnePlace
<1>3. NotTooEarly'
  BY <1>1 DEF FeedsInv, FeedsStay, NotTooEarly
<1>4. SomePlace'
  <2>1. SUFFICES ASSUME ~Interrupted', NEW p \in Producers, Announced(p)',
                        ~Completed(p)'
                 PROVE  \/ \E i \in 1..Len(feeds') : feeds'[i] = p
                        \/ \E s \in Sessions : AtWork(s)' /\ feed'[s] = p
    BY DEF SomePlace
  <2>2. Announced(p) /\ ~Completed(p) /\ ~Interrupted
    BY <2>1 DEF FeedsStay
  <2>3. \/ \E i \in 1..Len(feeds) : feeds[i] = p
        \/ \E s \in Sessions : AtWork(s) /\ feed[s] = p
    BY <2>2 DEF FeedsInv, SomePlace
  <2>4. ASSUME NEW s \in Sessions, AtWork(s), feed[s] = p
        PROVE  AtWork(s)' /\ feed'[s] = p
    BY <2>1, <2>4 DEF FeedsStay
  <2>5. QED
    BY <2>3, <2>4 DEF FeedsStay
<1>5. LabelsOK'
  BY DEF FeedsInv, FeedsStay, LabelsOK
<1>6. QED
  BY <1>2, <1>3, <1>4, <1>5 DEF FeedsInv


\* A thread's move that changes neither what is cancelled nor completed, and
\* keeps a consumer at work, or without a feed, and a producer announced, or
\* not, or makes the thread fail.
LEMMA MovesInPlace ==
  ASSUME TypeInv, FeedsInv, NEW w \in Threads,
         UNCHANGED <<feeds, feed, closed, cancelled>>,
         \A x \in Threads \ {w} : pc'[x] = pc[x],
         pc[w] # "faulted",
         w \in Sessions =>
           /\ AtWork(w) => \/ AtWork(w)' \/ pc'[w] = "faulted" \/ cancelled
                           \/ Completed(feed[w])
           /\ AtWork(w)' => AtWork(w)
           /\ Without(w)' => Without(w),
         w \in Producers =>
           /\ Announced(w)' => Announced(w)
           /\ Unannounced(w)' => Unannounced(w)
           /\ pc[w] = "ended" => pc'[w] = "ended",
         \A p \in Producers : Completed(p) => buffer'[p] = <<>>
  PROVE  FeedsInv'
<1> USE ConstantsAssumption DEF Threads
<1>1. \A p \in closed : p \in Producers /\ pc[p] = "ended"
  BY DEF TypeInv, FeedsOK, FeedsInv, LabelsOK
<1>2. Interrupted => Interrupted'
  BY DEF Interrupted
<1>3. ~Interrupted' => ~cancelled /\ (w \in Sessions => pc'[w] # "faulted")
  BY DEF Interrupted
<1>4. \A p \in Producers : Completed(p) => Completed(p)'
  BY DEF Completed
<1>5. \A s \in Sessions :
        /\ AtWork(s)' => AtWork(s)
        /\ Without(s)' => Without(s)
        /\ ~Interrupted' /\ AtWork(s) => AtWork(s)' \/ Completed(feed[s])
  BY <1>3 DEF AtWork, Without
<1>feed. \A s \in Sessions : AtWork(s) => feed[s] \in Producers
  BY DEF TypeInv, WorkOK, AtWork
<1>6. \A p \in Producers :
        (Unannounced(p)' => Unannounced(p)) /\ (Announced(p)' => Announced(p))
  BY DEF Unannounced, Announced, Early
<1>7. \A p \in closed' : pc'[p] = "ended"
  BY <1>1
<1>8. FeedsStay
  BY <1>2, <1>4, <1>5, <1>feed, <1>6, <1>7 DEF FeedsStay, Completed
<1>9. QED
  BY <1>8, StayInPlace

\* What an addition to chunksFeeds, or a Take, leaves there.
LEMMA FeedAdded ==
  ASSUME NEW f \in Seq(Producers), NEW p \in Producers
  PROVE  /\ 1..Len(Append(f, p)) = (1..Len(f)) \cup {Len(f) + 1}
         /\ Len(f) + 1 \notin 1..Len(f)
         /\ Append(f, p)[Len(f) + 1] = p
         /\ \A i \in 1..Len(f) : Append(f, p)[i] = f[i]
<1>1. /\ Len(Append(f, p)) = Len(f) + 1 /\ Len(f) \in Nat
      /\ Append(f, p)[Len(f) + 1] = p
      /\ \A i \in 1..Len(f) : Append(f, p)[i] = f[i]
  OBVIOUS
<1>2. /\ 1..(Len(f) + 1) = (1..Len(f)) \cup {Len(f) + 1}
      /\ Len(f) + 1 \notin 1..Len(f)
  BY <1>1
<1>3. QED
  BY <1>1, <1>2

LEMMA FeedTaken ==
  ASSUME NEW f \in Seq(Producers), f # <<>>, NEW g, g = Tail(f)
  PROVE  /\ Head(f) = f[1] /\ 1 \in 1..Len(f)
         /\ \A i \in 1..Len(g) :
              i + 1 \in 1..Len(f) /\ i + 1 # 1 /\ g[i] = f[i + 1]
         /\ \A i, j \in 1..Len(g) : i + 1 = j + 1 => i = j
         /\ \A i \in 1..Len(f) : i # 1 => i - 1 \in 1..Len(g) /\ g[i - 1] = f[i]
<1>1. /\ Len(f) \in Nat /\ Len(f) >= 1 /\ Len(g) = Len(f) - 1
      /\ \A i \in 1..Len(g) : g[i] = f[i + 1]
      /\ Head(f) = f[1]
  OBVIOUS
<1>2. QED
  BY <1>1

\* A producer's steps: it announces its feed, and closes it, once.
LEMMA ProduceFeeds ==
  ASSUME TypeInv, FeedsInv, NEW p \in Producers, Produce(p)
  PROVE  FeedsInv'
<1> USE ConstantsAssumption
    DEF At, Goto, production, feedState, working, storage, tasks, underway,
        indexing, asked, ending, counters, Threads
<1>1. PlacesOK /\ FeedsOK /\ WorkingOK
  BY DEF TypeInv
<1>2. \A x \in closed : pc[x] = "ended"
  BY DEF FeedsInv, LabelsOK
<1>3. CASE \/ Dequeues(p) \/ DequeueFails(p) \/ Dequeued(p) \/ NextDrive(p)
           \/ OfferCancelled(p) \/ DriveEnds(p) \/ Offers(p)
  <2>1. /\ UNCHANGED <<feeds, feed, closed, cancelled>>
        /\ \A x \in Threads \ {p} : pc'[x] = pc[x]
    BY <1>1, <1>3
    DEF Dequeues, DequeueFails, Dequeued, NextDrive, OfferCancelled, DriveEnds,
        Offers, PlacesOK
  <2>2. /\ pc[p] # "faulted" /\ pc[p] # "ended"
        /\ Announced(p)' => Announced(p)
        /\ Unannounced(p)' => Unannounced(p)
    BY <1>1, <1>3
    DEF Dequeues, DequeueFails, Dequeued, NextDrive, OfferCancelled, DriveEnds,
        Offers, PlacesOK, Announced, Unannounced, Early
  <2>3. \A x \in Producers : Completed(x) => buffer'[x] = <<>>
    <3>1. p \notin closed
      BY <1>2, <2>2
    <3>2. \A x \in Producers \ {p} : buffer'[x] = buffer[x]
      BY <1>1, <1>3
      DEF Dequeues, DequeueFails, Dequeued, NextDrive, OfferCancelled,
          DriveEnds, Offers, FeedsOK
    <3>3. QED
      BY <3>1, <3>2 DEF Completed
  <2>4. p \notin Sessions
    OBVIOUS
  <2>5. QED
    BY <2>1, <2>2, <2>3, <2>4, MovesInPlace
<1>4. CASE Continues(p) \/ Continued(p)
  <2>1. UNCHANGED <<feeds, feed, closed, buffer, cancelled>>
    BY <1>4 DEF Continues, Continued
  <2>2. PICK n \in Producers :
          /\ \A x \in Threads \ {n, p} : pc'[x] = pc[x]
          /\ Unannounced(n) /\ ~Announced(n)' /\ pc[n] \notin {"ended", "faulted"}
          /\ Announced(p) /\ ~Unannounced(p)' /\ pc[p] \notin {"ended", "faulted"}
    <3>1. PICK n \in Producers :
            /\ \A x \in Threads \ {n, p} : pc'[x] = pc[x]
            /\ pc[n] \in {"off", "created"} /\ pc'[n] \in {"created", "announce"}
            /\ pc[p] \in {"offer", "continuing"}
            /\ pc'[p] \in {"collect", "continuing"}
      BY <1>1, <1>4 DEF Continues, Continued, PlacesOK
    <3>2. QED
      BY <3>1 DEF Announced, Unannounced, Early
  <2>3. \A s \in Sessions : pc'[s] = pc[s]
    BY <2>2
  <2>4. /\ \A x \in Producers : Unannounced(x)' => Unannounced(x)
        /\ \A x \in Producers : Announced(x)' => Announced(x)
    BY <2>2 DEF Announced, Unannounced, Early
  <2>5. \A x \in closed' : pc'[x] = "ended"
    BY <1>1, <1>2, <2>1, <2>2 DEF FeedsOK
  <2>6. Interrupted => Interrupted'
    BY <2>1, <2>2 DEF Interrupted
  <2>7. FeedsStay
    BY <2>1, <2>3, <2>4, <2>5, <2>6
    DEF FeedsStay, AtWork, Without, Completed
  <2>8. QED
    BY <2>7, StayInPlace
<1>5. CASE ClosesFeed(p)
  <2>1. /\ UNCHANGED <<feeds, feed, buffer, cancelled>>
        /\ closed' = closed \cup {p}
        /\ pc[p] = "collect" /\ pc'[p] = "ended"
        /\ \A x \in Threads \ {p} : pc'[x] = pc[x]
    BY <1>1, <1>5 DEF ClosesFeed, PlacesOK
  <2>2. \A s \in Sessions : pc'[s] = pc[s]
    BY <2>1
  <2>3. \A x \in Producers :
          (Unannounced(x)' => Unannounced(x)) /\ (Announced(x)' => Announced(x))
    BY <2>1 DEF Announced, Unannounced, Early
  <2>4. \A x \in closed' : pc'[x] = "ended"
    BY <1>1, <1>2, <2>1 DEF FeedsOK
  <2>5. Interrupted => Interrupted'
    BY <2>1 DEF Interrupted
  <2>6. \A x : Completed(x) => Completed(x)'
    BY <2>1 DEF Completed
  <2>7. FeedsStay
    BY <2>1, <2>2, <2>3, <2>4, <2>5, <2>6 DEF FeedsStay, AtWork, Without
  <2>8. QED
    BY <2>7, StayInPlace
<1>6. CASE Announces(p)
  <2>1. /\ feeds' = Append(feeds, p) /\ UNCHANGED <<feed, buffer, closed, cancelled>>
        /\ pc[p] = "announce" /\ pc'[p] = "collect"
        /\ \A x \in Threads \ {p} : pc'[x] = pc[x]
    BY <1>1, <1>6 DEF Announces, PlacesOK
  <2>2. \A s \in Sessions : pc'[s] = pc[s]
    BY <2>1
  <2>3. /\ \A i \in 1..Len(feeds) : feeds[i] # p
        /\ \A s \in Sessions : AtWork(s) => feed[s] # p
    <3>1. Unannounced(p)
      BY <2>1 DEF Unannounced, Early
    <3>2. QED
      BY <3>1 DEF FeedsInv, NotTooEarly
  <2>4. feeds \in Seq(Producers)
    BY <1>1 DEF FeedsOK
  <2> DEFINE old == 1..Len(feeds)
             new == 1..Len(feeds')
  <2>5. PICK n : /\ new = old \cup {n} /\ n \notin old
                 /\ feeds'[n] = p
                 /\ \A i \in old : feeds'[i] = feeds[i]
    <3>1. /\ new = old \cup {Len(feeds) + 1} /\ Len(feeds) + 1 \notin old
          /\ feeds'[Len(feeds) + 1] = p
          /\ \A i \in old : feeds'[i] = feeds[i]
      <4>1. feeds' = Append(feeds, p)
        BY <2>1
      <4>2. QED
        BY <2>4, <4>1, FeedAdded
    <3>2. QED
      BY <3>1
  <2>inv. /\ \A i, j \in old : feeds[i] = feeds[j] => i = j
          /\ \A s \in Sessions, i \in old : AtWork(s) => feeds[i] # feed[s]
          /\ \A i \in old : ~Unannounced(feeds[i])
          /\ \A s \in Sessions : AtWork(s) => ~Unannounced(feed[s])
          /\ Interrupted \/ \A x \in Producers : Announced(x) /\ ~Completed(x) =>
               (\E i \in old : feeds[i] = x) \/ \E s \in Sessions : AtWork(s) /\ feed[s] = x
    BY DEF FeedsInv, OnePlace, NotTooEarly, SomePlace
  <2>old. (\A i \in old : feeds[i] \in Producers) /\ \A i \in old : feeds[i] # p
    BY <2>3, <2>4
  <2> HIDE DEF old, new
  <2>place. OnePlace'
    <3>1. ASSUME NEW i \in new, NEW j \in new, feeds'[i] = feeds'[j]
          PROVE  i = j
      <4>1. CASE i \in old /\ j \in old
        BY <2>5, <2>inv, <3>1, <4>1
      <4>2. CASE i = n \/ j = n
        BY <2>5, <2>old, <3>1, <4>2
      <4>3. QED
        BY <2>5, <4>1, <4>2
    <3>2. \A s \in Sessions, i \in new : AtWork(s) => feeds'[i] # feed[s]
      BY <2>3, <2>5, <2>inv
    <3>3. QED
      BY <2>1, <2>2, <3>1, <3>2 DEF FeedsInv, OnePlace, AtWork, new
  <2>6. NotTooEarly'
    <3>1. \A x \in Producers :
            pc'[x] \in Early => Unannounced(x) /\ x # p
      BY <2>1 DEF Unannounced, Early
    <3>2. \A s \in Sessions : AtWork(s) => feed[s] \in Producers
      BY DEF TypeInv, WorkOK, AtWork
    <3>3. \A i \in new : pc'[feeds'[i]] \notin Early
      BY <2>5, <2>inv, <2>old, <3>1
    <3>4. \A s \in Sessions : AtWork(s) => pc'[feed[s]] \notin Early
      BY <2>inv, <3>1, <3>2
    <3>5. QED
      BY <2>1, <2>2, <3>3, <3>4 DEF NotTooEarly, AtWork, Unannounced, new
  <2>7. SomePlace'
    <3>1. Interrupted => Interrupted'
      BY <2>1 DEF Interrupted
    <3>2. \A x \in Producers : Announced(x)' => Announced(x) \/ x = p
      BY <2>1 DEF Announced
    <3>3. \A x : Completed(x)' = Completed(x)
      BY <2>1 DEF Completed
    <3>4. \A s \in Sessions : AtWork(s)' = AtWork(s)
      BY <2>2 DEF AtWork
    <3>5. SUFFICES ASSUME ~Interrupted', NEW x \in Producers, Announced(x)',
                          ~Completed(x)'
                   PROVE  \/ \E i \in new : feeds'[i] = x
                          \/ \E s \in Sessions : AtWork(s)' /\ feed'[s] = x
      BY DEF SomePlace, new
    <3>6. CASE x = p
      BY <2>5, <3>6
    <3>7. CASE x # p
      BY <2>1, <2>5, <2>inv, <3>1, <3>2, <3>3, <3>4, <3>5, <3>7
    <3>8. QED
      BY <3>6, <3>7
  <2>8. LabelsOK'
    BY <1>1, <2>1, <2>2 DEF FeedsInv, LabelsOK, Without, FeedsOK
  <2>9. QED
    BY <2>place, <2>6, <2>7, <2>8 DEF FeedsInv
<1>7. QED
  BY <1>3, <1>4, <1>5, <1>6 DEF Produce

\* A consumer's steps: it takes a feed, and hands it back.
LEMMA ConsumeFeeds ==
  ASSUME TypeInv, FeedsInv, NEW s \in Sessions,
         \/ Consume(s) \/ AfterTask(s) \/ Read(s)
         \/ SessionFails(s) \/ SendBreaks(s) \/ SendFails(s)
         \/ TimesOut(s) \/ EndFails(s) \/ SessionBreaks(s)
  PROVE  FeedsInv'
<1> USE ConstantsAssumption
    DEF At, Goto, production, feedState, working, storage, tasks, underway,
        indexing, asked, ending, counters, Threads
<1>1. PlacesOK /\ FeedsOK /\ WorkingOK /\ WorkOK
  BY DEF TypeInv
<1>2. CASE Read(s) \/ SessionFails(s) \/ SessionBreaks(s)
  <2>1. UNCHANGED <<pc, feeds, feed, closed, buffer, cancelled>>
    BY <1>2
    DEF Read, ManageChunkSent, ConfirmationIgnored, HandsToIndexer,
        IndexerRefuses, SessionFails, SessionBreaks
  <2>2. FeedsStay
    BY <2>1
    DEF FeedsStay, AtWork, Without, Unannounced, Announced, Completed,
        Interrupted, FeedsInv, LabelsOK
  <2>3. QED
    BY <2>2, StayInPlace
<1>3. CASE \/ ConsumeReturns(s) \/ ConsumeBegins(s) \/ CancelledOutside(s)
           \/ CancelledInside(s) \/ LeavesLoop(s) \/ TakesChunk(s) \/ Sends(s)
           \/ SendRefused(s) \/ Confirmed(s) \/ Retries(s) \/ GivesUp(s)
           \/ AsksAgain(s) \/ EndsSession(s) \/ SeesNoFeeds(s)
           \/ DataBackupDone(s) \/ SendBreaks(s) \/ SendFails(s) \/ TimesOut(s)
           \/ EndFails(s)
  <2>1. /\ UNCHANGED <<feeds, feed, closed, cancelled>>
        /\ \A x \in Threads \ {s} : pc'[x] = pc[x]
    BY <1>1, <1>3
    DEF ConsumeReturns, ConsumeBegins, CancelledOutside, CancelledInside,
        LeavesLoop, TakesChunk, Sends, SendRefused, Confirmed, Retries, GivesUp,
        AsksAgain, EndsSession, SeesNoFeeds, DataBackupDone, SendBreaks,
        SendFails, TimesOut, EndFails, PlacesOK
  <2>2. /\ pc[s] # "faulted"
        /\ AtWork(s) => \/ AtWork(s)' \/ pc'[s] = "faulted" \/ cancelled
                        \/ Completed(feed[s])
        /\ AtWork(s)' => AtWork(s)
        /\ Without(s)' => Without(s)
    BY <1>1, <1>3
    DEF ConsumeReturns, ConsumeBegins, CancelledOutside, CancelledInside,
        LeavesLoop, TakesChunk, Sends, SendRefused, Confirmed, Retries, GivesUp,
        AsksAgain, EndsSession, SeesNoFeeds, DataBackupDone, SendBreaks,
        SendFails, TimesOut, EndFails, PlacesOK, AtWork, Without, ReAdds,
        Cancellable
  <2>3. \A x \in Producers : Completed(x) => buffer'[x] = <<>>
    <3>1. \/ buffer' = buffer
          \/ buffer' = [buffer EXCEPT ![feed[s]] = <<>>]
          \/ /\ \E b : buffer' = [buffer EXCEPT ![feed[s]] = b]
             /\ feed[s] \notin closed
      BY <1>3
      DEF ConsumeReturns, ConsumeBegins, CancelledOutside, CancelledInside,
          LeavesLoop, TakesChunk, Sends, SendRefused, Confirmed, Retries,
          GivesUp, AsksAgain, EndsSession, SeesNoFeeds, DataBackupDone,
          SendBreaks, SendFails, TimesOut, EndFails
    <3>2. QED
      BY <1>1, <3>1 DEF FeedsOK, Completed
  <2>4. s \in Threads /\ s \notin Producers
    OBVIOUS
  <2>5. QED
    BY <2>1, <2>2, <2>3, <2>4, MovesInPlace
<1>4. CASE Sweeps(s)
  <2>1. /\ UNCHANGED <<feeds, closed, buffer, cancelled>>
        /\ pc[s] = "after" /\ pc'[s] = "swept" /\ feed'[s] = 0
        /\ \A x \in Threads \ {s} : pc'[x] = pc[x]
        /\ \A r \in Sessions \ {s} : feed'[r] = feed[r]
    BY <1>1, <1>4 DEF Sweeps, PlacesOK, WorkingOK
  <2>2. \A r \in Sessions : AtWork(r)' => AtWork(r) /\ feed'[r] = feed[r]
    BY <2>1 DEF AtWork
  <2>3. \A r \in Sessions : AtWork(r) => AtWork(r)' /\ feed'[r] = feed[r]
    BY <2>1 DEF AtWork
  <2>4. /\ \A p \in Producers : pc'[p] = pc[p]
        /\ Interrupted => Interrupted'
        /\ \A p : Completed(p)' = Completed(p)
    BY <2>1 DEF Interrupted, Completed
  <2>5. OnePlace'
    BY <2>1, <2>2 DEF FeedsInv, OnePlace
  <2>6. NotTooEarly'
    <3>1. (\A i \in 1..Len(feeds) : feeds[i] \in Producers)
          /\ \A r \in Sessions : AtWork(r) => feed[r] \in Producers
      BY <1>1 DEF FeedsOK, WorkOK, AtWork
    <3>2. QED
      BY <2>1, <2>2, <2>4, <3>1 DEF FeedsInv, NotTooEarly, Unannounced
  <2>7. SomePlace'
    BY <2>1, <2>3, <2>4 DEF FeedsInv, SomePlace, Announced
  <2>8. LabelsOK'
    BY <1>1, <2>1, <2>4 DEF FeedsInv, LabelsOK, Without, FeedsOK
  <2>9. QED
    BY <2>5, <2>6, <2>7, <2>8 DEF FeedsInv
<1>5. CASE TakesFeed(s)
  <2> DEFINE p == Head(feeds)
             old == 1..Len(feeds)
             new == 1..Len(feeds')
  <2>1. /\ UNCHANGED <<closed, buffer, cancelled>>
        /\ feeds # <<>> /\ feeds' = Tail(feeds) /\ feeds \in Seq(Producers)
        /\ pc[s] = "take" /\ pc'[s] = "loop" /\ feed'[s] = p
        /\ \A x \in Threads \ {s} : pc'[x] = pc[x]
        /\ \A r \in Sessions \ {s} : feed'[r] = feed[r]
    BY <1>1, <1>5 DEF TakesFeed, PlacesOK, WorkingOK, FeedsOK
  <2>2. /\ p = feeds[1] /\ 1 \in old
        /\ \A i \in new : i + 1 \in old /\ i + 1 # 1 /\ feeds'[i] = feeds[i + 1]
        /\ \A i, j \in new : i + 1 = j + 1 => i = j
        /\ \A i \in old : i # 1 => i - 1 \in new /\ feeds'[i - 1] = feeds[i]
    BY <2>1, FeedTaken
  <2>3. /\ \A i \in old : feeds[i] \in Producers
        /\ \A r \in Sessions : AtWork(r) => feed[r] \in Producers
    BY <1>1, <2>1 DEF WorkOK, AtWork
  <2>4. /\ \A i, j \in old : feeds[i] = feeds[j] => i = j
        /\ \A r, q \in Sessions :
             AtWork(r) /\ AtWork(q) /\ feed[r] = feed[q] => r = q
        /\ \A r \in Sessions, i \in old : AtWork(r) => feeds[i] # feed[r]
        /\ \A i \in old : pc[feeds[i]] \notin Early
        /\ \A r \in Sessions : AtWork(r) => pc[feed[r]] \notin Early
        /\ Interrupted \/ \A x \in Producers : Announced(x) /\ ~Completed(x) =>
             \/ \E i \in old : feeds[i] = x
             \/ \E r \in Sessions : AtWork(r) /\ feed[r] = x
    BY DEF FeedsInv, OnePlace, NotTooEarly, SomePlace, Unannounced
  <2> HIDE DEF p, old, new
  <2>5. /\ \A r \in Sessions : AtWork(r)' => r = s \/ AtWork(r)
        /\ \A r \in Sessions : AtWork(r) => AtWork(r)' /\ r # s
        /\ AtWork(s)'
    BY <2>1 DEF AtWork
  <2>6. /\ \A x \in Producers : pc'[x] = pc[x]
        /\ Interrupted => Interrupted'
        /\ \A x : Completed(x)' = Completed(x)
    BY <2>1 DEF Interrupted, Completed
  <2>7. OnePlace'
    <3>1. \A i, j \in new : feeds'[i] = feeds'[j] => i = j
      BY <2>2, <2>4
    <3>2. \A r, q \in Sessions :
            AtWork(r)' /\ AtWork(q)' /\ feed'[r] = feed'[q] => r = q
      BY <2>1, <2>2, <2>4, <2>5
    <3>3. ASSUME NEW r \in Sessions, NEW i \in new, AtWork(r)'
          PROVE  feeds'[i] # feed'[r]
      <4>1. i + 1 \in old /\ i + 1 # 1 /\ feeds'[i] = feeds[i + 1]
        BY <2>2
      <4>2. CASE r = s
        <5>1. feed'[r] = feeds[1]
          BY <2>1, <2>2, <4>2
        <5>2. \A j \in old : feeds[i + 1] = feeds[j] => i + 1 = j
          BY <2>4, <4>1
        <5>3. 1 \in old
          BY <2>2
        <5>4. QED
          BY <4>1, <5>1, <5>2, <5>3
      <4>3. CASE r # s
        <5>1. AtWork(r) /\ feed'[r] = feed[r]
          BY <2>1, <2>5, <3>3, <4>3
        <5>2. feeds[i + 1] # feed[r]
          BY <2>4, <4>1, <5>1
        <5>3. QED
          BY <4>1, <5>1, <5>2
      <4>4. QED
        BY <4>2, <4>3
    <3>4. QED
      BY <3>1, <3>2, <3>3 DEF OnePlace, new
  <2>8. NotTooEarly'
    <3>1. ASSUME NEW i \in new PROVE pc'[feeds'[i]] \notin Early
      <4>1. PICK j \in old : feeds'[i] = feeds[j]
        BY <2>2
      <4>2. feeds'[i] \in Producers /\ pc[feeds'[i]] \notin Early
        BY <2>3, <2>4, <4>1
      <4>3. QED
        BY <2>6, <4>2
    <3>2. ASSUME NEW r \in Sessions, AtWork(r)'
          PROVE  pc'[feed'[r]] \notin Early
      <4>1. feed'[r] \in Producers /\ pc[feed'[r]] \notin Early
        <5>1. CASE r = s
          BY <2>1, <2>2, <2>3, <2>4, <5>1
        <5>2. CASE r # s
          BY <2>1, <2>3, <2>4, <2>5, <3>2, <5>2
        <5>3. QED
          BY <5>1, <5>2
      <4>2. QED
        BY <2>6, <4>1
    <3>3. QED
      BY <3>1, <3>2 DEF NotTooEarly, Unannounced, new
  <2>9. SomePlace'
    <3>1. SUFFICES ASSUME ~Interrupted', NEW x \in Producers, Announced(x)',
                          ~Completed(x)'
                   PROVE  \/ \E i \in new : feeds'[i] = x
                          \/ \E r \in Sessions : AtWork(r)' /\ feed'[r] = x
      BY DEF SomePlace, new
    <3>2. Announced(x) /\ ~Completed(x) /\ ~Interrupted
      BY <2>6, <3>1 DEF Announced
    <3>3. CASE x = p
      BY <2>1, <2>5, <3>3
    <3>4. CASE \E i \in old : feeds[i] = x /\ x # p
      BY <2>2, <3>4
    <3>5. CASE \E r \in Sessions : AtWork(r) /\ feed[r] = x
      BY <2>1, <2>5, <3>5
    <3>6. QED
      BY <2>4, <3>2, <3>3, <3>4, <3>5
  <2>10. LabelsOK'
    BY <1>1, <2>1, <2>6 DEF FeedsInv, LabelsOK, Without, FeedsOK
  <2>11. QED
    BY <2>7, <2>8, <2>9, <2>10 DEF FeedsInv
<1>6. CASE HandsBack(s)
  <2> DEFINE p == feed[s]
             old == 1..Len(feeds)
             new == 1..Len(feeds')
  <2>1. /\ UNCHANGED <<feed, closed, buffer, cancelled>>
        /\ feeds' = Append(feeds, p) /\ feeds \in Seq(Producers) /\ p \in Producers
        /\ pc[s] = "handback" /\ pc'[s] = "after"
        /\ \A x \in Threads \ {s} : pc'[x] = pc[x]
    BY <1>1, <1>6 DEF HandsBack, PlacesOK, WorkOK, FeedsOK
  <2>2. PICK n : /\ new = old \cup {n} /\ n \notin old
                 /\ feeds'[n] = p
                 /\ \A i \in old : feeds'[i] = feeds[i]
    <3>1. /\ new = old \cup {Len(feeds) + 1} /\ Len(feeds) + 1 \notin old
          /\ feeds'[Len(feeds) + 1] = p
          /\ \A i \in old : feeds'[i] = feeds[i]
      BY <2>1, FeedAdded
    <3>2. QED
      BY <3>1
  <2>3. /\ \A i \in old : feeds[i] \in Producers
        /\ \A r \in Sessions : AtWork(r) => feed[r] \in Producers
    BY <1>1, <2>1 DEF WorkOK, AtWork
  <2>4. /\ \A i, j \in old : feeds[i] = feeds[j] => i = j
        /\ \A r, q \in Sessions :
             AtWork(r) /\ AtWork(q) /\ feed[r] = feed[q] => r = q
        /\ \A r \in Sessions, i \in old : AtWork(r) => feeds[i] # feed[r]
        /\ \A i \in old : pc[feeds[i]] \notin Early
        /\ \A r \in Sessions : AtWork(r) => pc[feed[r]] \notin Early
        /\ Interrupted \/ \A x \in Producers : Announced(x) /\ ~Completed(x) =>
             \/ \E i \in old : feeds[i] = x
             \/ \E r \in Sessions : AtWork(r) /\ feed[r] = x
    BY DEF FeedsInv, OnePlace, NotTooEarly, SomePlace, Unannounced
  <2> HIDE DEF old, new
  <2>5. /\ \A r \in Sessions : AtWork(r)' => r # s /\ AtWork(r)
        /\ \A r \in Sessions : AtWork(r) => AtWork(r)' \/ r = s
        /\ AtWork(s)
    BY <2>1 DEF AtWork
  <2>6. /\ \A x \in Producers : pc'[x] = pc[x]
        /\ Interrupted => Interrupted'
        /\ \A x : Completed(x)' = Completed(x)
    BY <2>1 DEF Interrupted, Completed
  <2>7. OnePlace'
    <3>1. \A i, j \in new : feeds'[i] = feeds'[j] => i = j
      BY <2>2, <2>4, <2>5
    <3>2. \A r \in Sessions, i \in new : AtWork(r)' => feeds'[i] # feed[r]
      BY <2>2, <2>4, <2>5
    <3>3. QED
      BY <2>1, <2>4, <2>5, <3>1, <3>2 DEF OnePlace, new
  <2>8. NotTooEarly'
    <3>1. ASSUME NEW i \in new PROVE pc'[feeds'[i]] \notin Early
      <4>1. feeds'[i] \in Producers /\ pc[feeds'[i]] \notin Early
        BY <2>1, <2>2, <2>3, <2>4, <2>5
      <4>2. QED
        BY <2>6, <4>1
    <3>2. \A r \in Sessions : AtWork(r)' => pc'[feed'[r]] \notin Early
      BY <2>1, <2>3, <2>4, <2>5, <2>6
    <3>3. QED
      BY <3>1, <3>2 DEF NotTooEarly, Unannounced, new
  <2>9. SomePlace'
    <3>1. SUFFICES ASSUME ~Interrupted', NEW x \in Producers, Announced(x)',
                          ~Completed(x)'
                   PROVE  \/ \E i \in new : feeds'[i] = x
                          \/ \E r \in Sessions : AtWork(r)' /\ feed'[r] = x
      BY DEF SomePlace, new
    <3>2. Announced(x) /\ ~Completed(x) /\ ~Interrupted
      BY <2>6, <3>1 DEF Announced
    <3>3. CASE x = p
      BY <2>2, <3>3
    <3>4. CASE \E i \in old : feeds[i] = x
      BY <2>2, <3>4
    <3>5. CASE \E r \in Sessions : AtWork(r) /\ feed[r] = x /\ x # p
      BY <2>1, <2>5, <3>5
    <3>6. QED
      BY <2>4, <3>2, <3>3, <3>4, <3>5
  <2>10. LabelsOK'
    BY <1>1, <2>1, <2>6 DEF FeedsInv, LabelsOK, Without, FeedsOK
  <2>11. QED
    BY <2>7, <2>8, <2>9, <2>10 DEF FeedsInv
<1>7. QED
  BY <1>2, <1>3, <1>4, <1>5, <1>6 DEF Consume, AfterTask

\* The other threads take and give no feeds.
LEMMA OthersFeeds ==
  ASSUME TypeInv, FeedsInv,
         \/ \E s \in Sessions : SessionReceived(s)
         \/ \E w \in Producers \cup Sessions : UnexpectedError(w) \/ ErrorEnds(w)
         \/ Index \/ SendIndex \/ IndexSessionFails \/ IndexNotSent
         \/ Registers \/ CancelTask \/ CancelEnds
  PROVE  FeedsInv'
<1> USE ConstantsAssumption
    DEF At, Goto, production, feedState, working, storage, tasks, underway,
        indexing, asked, ending, counters, CancelsAndWaits, Threads
<1>1. PlacesOK /\ FeedsOK /\ AskedOK /\ WorkOK /\ LabelsOK
  BY DEF TypeInv, FeedsInv
<1>2. UNCHANGED <<feeds, feed, closed, buffer>> /\ (cancelled => cancelled')
  BY DEF SessionReceived, UnexpectedError, ErrorEnds, Index, IndexerStarts,
     Indexes, IndexerEnds, ProcessIndex, BackupDone, SendIndex,
     IndexSessionFails, IndexNotSent, Registers, CancelTask, CancelEnds
<1>3. PICK w \in Threads :
        /\ \A x \in Threads \ {w, HubReader} : pc'[x] = pc[x]
        /\ pc[w] = "faulted" => cancelled'
        /\ w \in Sessions =>
             \/ pc[w] \in {"none", "idle"} /\ pc'[w] = "start"
             \/ pc'[w] \in {"failing", "dead"} /\ pc[w] \in {"faulted", "failing"}
        /\ w \in Producers => pc'[w] \in {"failing", "dead"}
                              /\ pc[w] \in {"faulted", "failing"}
  <2>1. CASE \E s \in Sessions : SessionReceived(s)
    <3>1. PICK s \in Sessions : SessionReceived(s)
      BY <2>1
    <3>2. pc[s] \in {"none", "idle"} /\ pc'[s] = "start"
      BY <1>1, <3>1 DEF SessionReceived, Answers, WorkOK, PlacesOK
    <3>3. \A x \in Threads \ {s, HubReader} : pc'[x] = pc[x]
      BY <1>1, <3>1 DEF SessionReceived, PlacesOK
    <3>4. QED
      BY <3>2, <3>3
  <2>2. CASE \E w \in Producers \cup Sessions : UnexpectedError(w) \/ ErrorEnds(w)
    <3>1. PICK w \in Producers \cup Sessions : UnexpectedError(w) \/ ErrorEnds(w)
      BY <2>2
    <3>2. /\ \A x \in Threads \ {w} : pc'[x] = pc[x]
          /\ pc[w] = "faulted" => cancelled'
          /\ pc'[w] \in {"failing", "dead"} /\ pc[w] \in {"faulted", "failing"}
      BY <1>1, <3>1 DEF UnexpectedError, ErrorEnds, PlacesOK
    <3>3. QED
      BY <3>1, <3>2
  <2>3. CASE \/ Index \/ SendIndex \/ IndexSessionFails \/ IndexNotSent
             \/ Registers \/ CancelTask \/ CancelEnds
    <3>1. /\ \A x \in Threads \ {Indexer, HubReader} : pc'[x] = pc[x]
          /\ pc[Indexer] # "faulted"
      BY <1>1, <2>3
      DEF Index, IndexerStarts, Indexes, IndexerEnds, ProcessIndex, BackupDone,
          SendIndex, IndexSessionFails, IndexNotSent, Registers, CancelTask,
          CancelEnds, PlacesOK, IndexerPlaces
    <3>2. QED
      BY <3>1
  <2>4. QED
    BY <2>1, <2>2, <2>3
<1>4. \A x \in Producers \cup Sessions : x # w => pc'[x] = pc[x]
  BY <1>3
<1>5. \A s \in Sessions :
        /\ AtWork(s)' <=> AtWork(s)
        /\ Without(s)' => Without(s)
  BY <1>3, <1>4 DEF AtWork, Without
<1>6. \A p \in Producers :
        /\ Unannounced(p)' => Unannounced(p)
        /\ Announced(p)' => Announced(p)
        /\ pc[p] = "ended" => pc'[p] = "ended"
  BY <1>3, <1>4 DEF Unannounced, Announced, Early
<1>7. \A p \in closed' : pc'[p] = "ended"
  BY <1>1, <1>2, <1>6 DEF LabelsOK, FeedsOK
<1>8. Interrupted => Interrupted'
  BY <1>2, <1>3, <1>4 DEF Interrupted
<1>9. FeedsStay
  BY <1>2, <1>5, <1>6, <1>7, <1>8 DEF FeedsStay, Completed
<1>10. QED
  BY <1>9, StayInPlace

LEMMA FeedsInvCorrect == Spec => []FeedsInv
<1> USE ConstantsAssumption
<1>1. Init => FeedsInv
  <2>1. SUFFICES ASSUME Init PROVE FeedsInv
    OBVIOUS
  <2>2. /\ feeds = <<>> /\ closed = {} /\ feed = [s \in Sessions |-> 0]
        /\ \A s \in Sessions : pc[s] = "none"
        /\ \A p \in Producers : pc[p] \in {"begin", "off"}
    BY <2>1 DEF Init, Threads
  <2>3. Len(feeds) = 0 /\ 1..Len(feeds) = {}
    BY <2>2
  <2>4. QED
    BY <2>2, <2>3
    DEF FeedsInv, OnePlace, NotTooEarly, SomePlace, LabelsOK, AtWork, Announced
<1>2. TypeInv /\ FeedsInv /\ [Next]_vars => FeedsInv'
  <2>1. SUFFICES ASSUME TypeInv, FeedsInv, [Next]_vars PROVE FeedsInv'
    OBVIOUS
  <2>2. CASE UNCHANGED vars
    <3>1. UNCHANGED <<pc, feeds, feed, closed, buffer, cancelled>>
      BY <2>2 DEF vars, feedState, working, ending
    <3>2. FeedsStay
      BY <2>1, <3>1
      DEF FeedsStay, AtWork, Without, Unannounced, Announced, Completed,
          Interrupted, FeedsInv, LabelsOK
    <3>3. QED
      BY <2>1, <3>2, StayInPlace
  <2>3. CASE Works
    BY <2>1, <2>3, ProduceFeeds, ConsumeFeeds, OthersFeeds DEF Works
  <2>4. CASE HubAnswers
    BY <2>1, <2>4, OthersFeeds DEF HubAnswers
  <2>5. CASE Disturbs
    BY <2>1, <2>5, ConsumeFeeds, OthersFeeds DEF Disturbs
  <2>6. QED
    BY <2>1, <2>2, <2>3, <2>4, <2>5 DEF Next
<1>3. QED
  BY TypeInvCorrect, <1>1, <1>2, PTL DEF Spec

\* A feed from which chunks may still come is with exactly one running consumer
\* or once on chunksFeeds, whatever fails and whoever takes or announces feeds
\* meanwhile, until the job is interrupted.
THEOREM NoFeedForgotten == Spec => []FeedNotForgotten
BY TypeInvCorrect, FeedsInvCorrect, FeedsInvCounts, PTL

-----------------------------------------------------------------------------
(* The invariant.                                                          *)

\* The short windows: at most one thread is in one, and no confirmation is
\* being read then.
Alone ==
  /\ \A v, w \in Threads : pc[v] \in Windows /\ pc[w] \in Windows => v = w
  /\ \A v \in Threads, s \in Sessions : pc[v] \in Windows => reading[s] = NoChunk

\* A consumer that has seen no feed is undisturbed, a running one is listed or
\* about to be, and who handles an error has cancelled the job.
PlaceOK ==
  /\ \A s \in Sessions : pc[s] = "emptied" => feeds = <<>>
  /\ \A s \in Sessions :
       Running(s) => s \in consumers \/ (pc[HubReader] = "registering" /\ serving = s)
  /\ \A w \in Producers \cup Sessions : pc[w] \in {"failing", "dead"} => cancelled
  /\ pc[HubReader] = "cancelling" \/ job = "cancelled" => cancelled
  /\ job = "done" => pc[Indexer] = "done"

\* The first producers have announced their feeds when there is a session.
FirstOK ==
  \A p \in 1..Parallelism :
    /\ pc[p] \notin {"off", "created"}
    /\ (\E s \in Sessions : pc[s] # "none") =>
         pc[p] \notin {"begin", "dequeuing", "announce"}

\* The queues of drives that producers have taken are not in megaQueue any more
\* and each is one producer's.
Taken(p) == pc[p] \in {"announce", "collect", "offer", "continuing", "ended"}
Taking(p) == pc[p] \in {"dequeuing", "created"}
TakersOK ==
  /\ \A p, r \in Producers : Taken(p) /\ Taken(r) /\ mine[p] = mine[r] => p = r
  /\ \A p \in Producers : Taken(p) => mine[p] \in Queues
  /\ \A p \in Producers, i \in 1..Len(mega) : Taken(p) => mega[i] # mine[p]
  /\ \A i, j \in 1..Len(mega) : mega[i] = mega[j] => i = j
  /\ \A p \in Producers : Taking(p) => mega # <<>> /\ mine[p] = Head(mega)
  /\ \A p \in Producers : pc[p] = "created" => \E r \in Producers : pc[r] = "continuing"
  /\ \A p, r \in Producers : pc[p] = "created" /\ pc[r] = "created" => p = r

\* A producer that has closed its feed has nothing left, and one that has not
\* announced its feed has put nothing on it.
DrainedOK ==
  /\ \A p \in closed : drives[mine[p]] = <<>> /\ todo[p] = <<>> /\ Taken(p)
  /\ \A p \in Producers : Unannounced(p) => buffer[p] = <<>>

\* A chunk that is listed is being sent, confirmed, or done with; one whose
\* event is set is being confirmed or done with.
Over(k) == k \in ToSet(index) \cup ToSet(indexFeed) \cup reported
InHand(k) == \E s \in Sessions : reading[s] = k
OnItsWay(s) == pc[s] \in {"send", "wait"}
SentOK ==
  /\ \A s \in Sessions : pc[s] = "requeue" => held[s] \in reported
  /\ \/ Interrupted \/ indexClosed
     \/ /\ \A k \in sent \cup disposed : Over(k) \/ InHand(k)
        /\ \A k \in Chunks : processing[k] > 0 =>
             Over(k) \/ InHand(k) \/ \E s \in Sessions : OnItsWay(s) /\ held[s] = k

ClosedOK == indexClosed => Interrupted \/ \A k \in Chunks : Over(k)

JobInv ==
  /\ Alone /\ PlaceOK /\ FirstOK /\ TakersOK
  /\ DrainedOK /\ SentOK /\ ClosedOK

-----------------------------------------------------------------------------
(* What the steps leave alone.                                             *)

SessionStep(s) ==
  \/ Consume(s) \/ AfterTask(s) \/ Read(s) \/ SessionFails(s) \/ SendBreaks(s)
  \/ SendFails(s) \/ TimesOut(s) \/ EndFails(s) \/ SessionBreaks(s)

RestStep ==
  \/ \E s \in Sessions : SessionReceived(s)
  \/ \E w \in Producers \cup Sessions : UnexpectedError(w) \/ ErrorEnds(w)
  \/ Index \/ SendIndex \/ IndexSessionFails \/ IndexNotSent
  \/ Registers \/ CancelTask \/ CancelEnds

LEMMA NextSteps ==
  Next => \/ \E p \in Producers : Produce(p)
          \/ \E s \in Sessions : SessionStep(s)
          \/ RestStep
BY DEF Next, Works, HubAnswers, Disturbs, SessionStep, RestStep

LEMMA ProduceFrame ==
  ASSUME TypeInv, NEW p \in Producers, Produce(p)
  PROVE  /\ UNCHANGED <<feed, held, consumers, serving, processing, sent, disposed,
                        reading, indexFeed, indexClosed, index, cancelled, job, reported>>
         /\ \A w \in Threads \ Producers : pc'[w] = pc[w]
         /\ \A r \in Producers : pc'[r] \notin {"failing", "dead"} \/ pc'[r] = pc[r]
         /\ pc[p] # "faulted"
<1> USE ConstantsAssumption
    DEF At, Goto, feedState, working, storage, tasks, underway, indexing, asked, ending,
        counters, Threads
<1>1. PlacesOK
  BY DEF TypeInv
<1>2. CASE Dequeues(p) \/ DequeueFails(p) \/ Dequeued(p) \/ Announces(p) \/ NextDrive(p)
  BY <1>1, <1>2
  DEF Dequeues, DequeueFails, Dequeued, Announces, NextDrive, PlacesOK
<1>3. CASE Offers(p) \/ OfferCancelled(p) \/ DriveEnds(p) \/ ClosesFeed(p)
  BY <1>1, <1>3 DEF Offers, OfferCancelled, DriveEnds, ClosesFeed, PlacesOK
<1>4. CASE Continues(p) \/ Continued(p)
  BY <1>1, <1>4 DEF Continues, Continued, PlacesOK
<1>5. QED
  BY <1>2, <1>3, <1>4 DEF Produce

LEMMA SessionFrame ==
  ASSUME TypeInv, NEW s \in Sessions, SessionStep(s)
  PROVE  /\ UNCHANGED <<mega, drives, mine, todo, closed, serving, cancelled, job>>
         /\ \A w \in Threads \ {s} : pc'[w] = pc[w]
         /\ pc[s] = "none" => pc'[s] = "none"
         /\ Running(s)' => Running(s)
         /\ pc'[s] \in {"failing", "dead"} => pc'[s] = pc[s]
         /\ pc'[s] \in Windows => pc'[s] = pc[s] \/ SeesNoFeeds(s)
         /\ pc[s] = "faulted" => pc'[s] = pc[s]
<1> USE ConstantsAssumption
    DEF At, Goto, production, feedState, working, storage, tasks, underway, indexing,
        asked, ending, counters, Threads
<1>1. PlacesOK
  BY DEF TypeInv
<1>2. CASE ConsumeReturns(s) \/ ConsumeBegins(s) \/ TakesFeed(s) \/ CancelledOutside(s)
  BY <1>1, <1>2
  DEF ConsumeReturns, ConsumeBegins, TakesFeed, CancelledOutside, PlacesOK, Running, Windows
<1>3. CASE CancelledInside(s) \/ LeavesLoop(s) \/ TakesChunk(s) \/ HandsBack(s)
  BY <1>1, <1>3
  DEF CancelledInside, LeavesLoop, TakesChunk, HandsBack, PlacesOK, Running, Windows,
      Disconnects, Cancellable
<1>4. CASE Sends(s) \/ SendRefused(s) \/ SendBreaks(s) \/ SendFails(s)
  BY <1>1, <1>4
  DEF Sends, SendRefused, SendBreaks, SendFails, PlacesOK, Running, Windows
<1>5. CASE Confirmed(s) \/ TimesOut(s) \/ Retries(s) \/ GivesUp(s)
  BY <1>1, <1>5
  DEF Confirmed, TimesOut, Retries, GivesUp, PlacesOK, Running, Windows
<1>6. CASE AfterTask(s) \/ EndFails(s)
  BY <1>1, <1>6
  DEF AfterTask, Sweeps, AsksAgain, EndsSession, SeesNoFeeds, DataBackupDone, EndFails,
      PlacesOK, Running, Windows, Disconnects
<1>7. CASE Read(s) \/ SessionFails(s) \/ SessionBreaks(s)
  <2>1. pc' = pc /\ UNCHANGED <<mega, drives, mine, todo, closed, serving, cancelled, job>>
    BY <1>7
    DEF Read, ManageChunkSent, ConfirmationIgnored, HandsToIndexer, IndexerRefuses,
        SessionFails, SessionBreaks
  <2>2. QED
    BY <2>1 DEF Running
<1>8. QED
  BY <1>2, <1>3, <1>4, <1>5, <1>6, <1>7 DEF SessionStep, Consume

LEMMA RestFrame ==
  ASSUME TypeInv, RestStep
  PROVE  /\ UNCHANGED <<mega, drives, mine, todo, closed, feeds, feed, held, buffer,
                        processing, sent, disposed, reading, reported>>
         /\ cancelled => cancelled'
         /\ \A w \in Producers \cup Sessions :
              \/ pc'[w] = pc[w]
              \/ /\ pc[w] \in {"faulted", "failing"} /\ pc'[w] \in {"failing", "dead"}
                 /\ pc[w] = "faulted" => cancelled'
              \/ w \in Sessions /\ SessionReceived(w)
         /\ Interrupted => Interrupted'
<1> USE ConstantsAssumption
    DEF At, Goto, production, feedState, working, storage, tasks, underway, indexing,
        asked, ending, counters, Threads
<1>1. PlacesOK
  BY DEF TypeInv
<1>2. CASE \E s \in Sessions : SessionReceived(s)
  <2>1. PICK s \in Sessions : SessionReceived(s)
    BY <1>2
  <2>2. \A w \in Producers \cup Sessions : w = s \/ pc'[w] = pc[w]
    BY <1>1, <2>1 DEF SessionReceived, PlacesOK
  <2>3. pc[s] # "faulted"
    BY <1>1, <2>1 DEF SessionReceived, Answers, TypeInv, WorkOK
  <2>4. QED
    BY <2>1, <2>2, <2>3 DEF SessionReceived, Interrupted
<1>3. CASE \E w \in Producers \cup Sessions : UnexpectedError(w) \/ ErrorEnds(w)
  <2>1. PICK w \in Producers \cup Sessions : UnexpectedError(w) \/ ErrorEnds(w)
    BY <1>3
  <2>2. \A x \in Producers \cup Sessions : x = w \/ pc'[x] = pc[x]
    BY <1>1, <2>1 DEF UnexpectedError, ErrorEnds, PlacesOK, CancelsAndWaits
  <2>3. pc[w] \in {"faulted", "failing"} /\ pc'[w] \in {"failing", "dead"}
    BY <1>1, <2>1 DEF UnexpectedError, ErrorEnds, PlacesOK, CancelsAndWaits
  <2>4. QED
    BY <2>1, <2>2, <2>3 DEF UnexpectedError, ErrorEnds, CancelsAndWaits, Interrupted
<1>4. CASE \/ Index \/ SendIndex \/ IndexSessionFails \/ IndexNotSent
           \/ Registers \/ CancelTask \/ CancelEnds
  <2>1. \A w \in Producers \cup Sessions : pc'[w] = pc[w]
    BY <1>1, <1>4
    DEF Index, IndexerStarts, Indexes, IndexerEnds, ProcessIndex, BackupDone, SendIndex,
        IndexSessionFails, IndexNotSent, Registers, CancelTask, CancelEnds, PlacesOK,
        CancelsAndWaits
  <2>2. /\ UNCHANGED <<mega, drives, mine, todo, closed, feeds, feed, held, buffer,
                       processing, sent, disposed, reading, reported>>
        /\ cancelled => cancelled'
    BY <1>4
    DEF Index, IndexerStarts, Indexes, IndexerEnds, ProcessIndex, BackupDone, SendIndex,
        IndexSessionFails, IndexNotSent, Registers, CancelTask, CancelEnds, CancelsAndWaits
  <2>3. QED
    BY <2>1, <2>2 DEF Interrupted
<1>5. QED
  BY <1>2, <1>3, <1>4 DEF RestStep

-----------------------------------------------------------------------------
(* The windows.                                                            *)

LEMMA AloneStays ==
  ASSUME Alone,
         \A v \in Threads : pc'[v] \in Windows => pc[v] \in Windows,
         \A s \in Sessions : reading'[s] # NoChunk => reading[s] # NoChunk
  PROVE  Alone'
BY DEF Alone

\* A thread enters a window when it is undisturbed.
LEMMA AloneEnters ==
  ASSUME NEW w \in Threads, Undisturbed(w), Prompt, reading' = reading,
         \A v \in Threads \ {w} : pc'[v] \in Windows => pc[v] \in Windows
  PROVE  Alone'
BY DEF Alone, Undisturbed

LEMMA ProduceAlone ==
  ASSUME TypeInv, JobInv, Prompt, NEW p \in Producers, Produce(p)
  PROVE  Alone'
<1> USE DEF At, Goto, Threads
<1>1. PlacesOK /\ Alone /\ reading' = reading /\ p \in Threads
  BY ProduceFrame DEF TypeInv, JobInv
<1>2. CASE Dequeues(p) \/ Continues(p)
  <2>1. \A v \in Threads \ {p} : pc'[v] \in Windows => pc[v] \in Windows
    BY <1>1, <1>2 DEF Dequeues, Continues, PlacesOK, Windows
  <2>2. Undisturbed(p)
    BY <1>2 DEF Dequeues, Continues
  <2>3. QED
    BY <1>1, <2>1, <2>2, AloneEnters
<1>3. CASE ~(Dequeues(p) \/ Continues(p))
  <2>1. \A v \in Threads : pc'[v] \in Windows => pc[v] \in Windows
    BY <1>1, <1>3
    DEF Produce, DequeueFails, Dequeued, Announces, NextDrive, Offers, OfferCancelled,
        DriveEnds, Continued, ClosesFeed, PlacesOK, Windows
  <2>2. QED
    BY <1>1, <2>1, AloneStays
<1>4. QED
  BY <1>2, <1>3

LEMMA SessionAlone ==
  ASSUME TypeInv, JobInv, Prompt, NEW s \in Sessions, SessionStep(s)
  PROVE  Alone'
<1> USE DEF At, Goto, Threads, production, feedState, working, storage, tasks, underway,
            indexing, asked, ending, counters
<1>1. PlacesOK /\ Alone /\ UnderwayOK
  BY DEF TypeInv, JobInv
<1>2. CASE SeesNoFeeds(s)
  <2>1. \A v \in Threads \ {s} : pc'[v] = pc[v]
    BY SessionFrame
  <2>2. Undisturbed(s) /\ reading' = reading
    BY <1>2 DEF SeesNoFeeds
  <2>3. QED
    BY <2>1, <2>2, AloneEnters
<1>3. CASE ManageChunkSent(s)
  <2>1. pc[s] \notin Windows
    BY <1>3 DEF ManageChunkSent, Listening, Running, Windows
  <2>2. \A v \in Threads : pc'[v] = pc[v] /\ pc[v] \notin Windows
    BY <1>3, <2>1 DEF ManageChunkSent, Undisturbed
  <2>3. QED
    BY <2>2 DEF Alone
<1>4. CASE ~SeesNoFeeds(s) /\ ~ManageChunkSent(s)
  <2>1. \A v \in Threads : pc'[v] \in Windows => pc[v] \in Windows
    BY <1>4, SessionFrame
  <2>2. \A r \in Sessions : reading'[r] # NoChunk => reading[r] # NoChunk
    BY <1>1, <1>4
    DEF SessionStep, Consume, AfterTask, Read, ConsumeReturns, ConsumeBegins, TakesFeed,
        CancelledOutside, CancelledInside, LeavesLoop, TakesChunk, HandsBack, Sends,
        SendRefused, SendBreaks, SendFails, Confirmed, TimesOut, Retries, GivesUp,
        Sweeps, AsksAgain, EndsSession, DataBackupDone, EndFails,
        ConfirmationIgnored, HandsToIndexer, IndexerRefuses, SessionFails, SessionBreaks,
        UnderwayOK
  <2>3. QED
    BY <1>1, <2>1, <2>2, AloneStays
<1>5. QED
  BY <1>2, <1>3, <1>4

LEMMA RestAlone ==
  ASSUME TypeInv, JobInv, Prompt, RestStep
  PROVE  Alone'
<1> USE DEF At, Goto, Threads
<1>1. PlacesOK /\ Alone /\ reading' = reading
  BY RestFrame DEF TypeInv, JobInv
<1>2. CASE \E s \in Sessions : SessionReceived(s)
  <2>1. \A v \in Threads \ {HubReader} : pc'[v] \in Windows => pc[v] \in Windows
    BY <1>1, <1>2 DEF SessionReceived, PlacesOK, Windows
  <2>2. Undisturbed(HubReader)
    BY <1>2 DEF SessionReceived
  <2>3. QED
    BY <1>1, <2>1, <2>2, AloneEnters
<1>3. CASE ~\E s \in Sessions : SessionReceived(s)
  <2>1. \A v \in Threads : pc'[v] \in Windows => pc[v] \in Windows
    BY <1>1, <1>3
    DEF RestStep, UnexpectedError, ErrorEnds, Index, IndexerStarts, Indexes, IndexerEnds,
        ProcessIndex, BackupDone, SendIndex, IndexSessionFails, IndexNotSent, Registers,
        CancelTask, CancelEnds, CancelsAndWaits, PlacesOK, Windows, indexing
  <2>2. QED
    BY <1>1, <2>1, AloneStays
<1>4. QED
  BY <1>2, <1>3

-----------------------------------------------------------------------------
(* Consumers and their list.                                               *)

LEMMA ProducePlace ==
  ASSUME TypeInv, JobInv, Prompt, NEW p \in Producers, Produce(p)
  PROVE  PlaceOK'
<1> USE ConstantsAssumption DEF At, Goto, Threads
<1>1. PlacesOK /\ PlaceOK /\ feed' = feed
  BY ProduceFrame DEF TypeInv, JobInv
<1>2. /\ UNCHANGED <<consumers, serving, cancelled, job>>
      /\ \A w \in Threads \ Producers : pc'[w] = pc[w]
      /\ \A r \in Producers : pc'[r] \notin {"failing", "dead"} \/ pc'[r] = pc[r]
  BY ProduceFrame
<1>3. \A s \in Sessions : pc'[s] = pc[s] /\ Running(s)' = Running(s)
  BY <1>2 DEF Running
<1>4. ASSUME NEW s \in Sessions, pc'[s] = "emptied" PROVE feeds' = <<>>
  <2>1. ~Announces(p)
    BY <1>3, <1>4 DEF Announces, Undisturbed, Windows
  <2>2. feeds' = feeds
    BY <2>1
    DEF Produce, Dequeues, DequeueFails, Dequeued, NextDrive, Offers, OfferCancelled,
        DriveEnds, Continues, Continued, ClosesFeed, feedState
  <2>3. QED
    BY <1>1, <1>3, <1>4, <2>2 DEF PlaceOK
<1>5. QED
  BY <1>1, <1>2, <1>3, <1>4 DEF PlaceOK

LEMMA SessionPlace ==
  ASSUME TypeInv, JobInv, Prompt, NEW s \in Sessions, SessionStep(s)
  PROVE  PlaceOK'
<1> USE ConstantsAssumption DEF At, Goto, Threads
<1>1. PlacesOK /\ PlaceOK /\ TasksOK
  BY DEF TypeInv, JobInv
<1>2. /\ UNCHANGED <<serving, cancelled, job>>
      /\ \A w \in Threads \ {s} : pc'[w] = pc[w]
      /\ Running(s)' => Running(s)
      /\ pc'[s] \in {"failing", "dead"} => pc'[s] = pc[s]
      /\ pc'[s] \in Windows => pc'[s] = pc[s] \/ SeesNoFeeds(s)
  BY SessionFrame
<1>3. \A r \in Sessions : Running(r)' => Running(r)
  BY <1>2 DEF Running
<1>4. ASSUME NEW r \in Sessions, pc'[r] = "emptied" PROVE feeds' = <<>>
  <2>1. CASE SeesNoFeeds(s)
    <3>1. r = s
      BY <1>2, <1>4, <2>1 DEF SeesNoFeeds, Undisturbed, Windows
    <3>2. QED
      BY <1>1, <1>4, <2>1, <3>1 DEF SeesNoFeeds, PlacesOK, feedState
  <2>2. CASE ~SeesNoFeeds(s)
    <3>1. pc[r] = "emptied"
      BY <1>2, <1>4, <2>2 DEF Windows
    <3>2. ~TakesFeed(s) /\ ~HandsBack(s)
      BY <3>1 DEF TakesFeed, HandsBack, Undisturbed, Windows
    <3>3. feeds' = feeds
      BY <2>2, <3>2
      DEF SessionStep, Consume, AfterTask, Read, ConsumeReturns, ConsumeBegins,
          CancelledOutside, CancelledInside, LeavesLoop, TakesChunk, Sends,
          SendRefused, SendBreaks, SendFails, Confirmed, TimesOut, Retries, GivesUp,
          Sweeps, AsksAgain, EndsSession, DataBackupDone, EndFails, ManageChunkSent,
          ConfirmationIgnored, HandsToIndexer, IndexerRefuses, SessionFails,
          SessionBreaks, feedState
    <3>4. QED
      BY <1>1, <3>1, <3>3 DEF PlaceOK
  <2>3. QED
    BY <2>1, <2>2
<1>5. ASSUME NEW r \in Sessions, Running(r)'
      PROVE  r \in consumers' \/ (pc'[HubReader] = "registering" /\ serving' = r)
  <2>1. Running(r) /\ pc'[HubReader] = pc[HubReader]
    BY <1>2, <1>3, <1>5
  <2>2. CASE Sweeps(s)
    BY <1>1, <1>2, <2>1, <2>2 DEF Sweeps, PlaceOK
  <2>3. CASE ~Sweeps(s)
    <3>1. consumers' = consumers
      BY <2>3
      DEF SessionStep, Consume, AfterTask, Read, ConsumeReturns, ConsumeBegins, TakesFeed,
          CancelledOutside, CancelledInside, LeavesLoop, TakesChunk, HandsBack, Sends,
          SendRefused, SendBreaks, SendFails, Confirmed, TimesOut, Retries, GivesUp,
          SeesNoFeeds, AsksAgain, EndsSession, DataBackupDone, EndFails, ManageChunkSent,
          ConfirmationIgnored, HandsToIndexer, IndexerRefuses, SessionFails,
          SessionBreaks, tasks
    <3>2. QED
      BY <1>1, <1>2, <2>1, <3>1 DEF PlaceOK
  <2>4. QED
    BY <2>2, <2>3
<1>6. QED
  BY <1>1, <1>2, <1>4, <1>5 DEF PlaceOK

LEMMA RestPlace ==
  ASSUME TypeInv, JobInv, Prompt, RestStep
  PROVE  PlaceOK'
<1> USE ConstantsAssumption DEF At, Goto, Threads
<1>1. PlacesOK /\ PlaceOK /\ TasksOK
  BY DEF TypeInv, JobInv
<1>2. /\ feeds' = feeds /\ (cancelled => cancelled')
      /\ \A w \in Producers \cup Sessions :
              \/ pc'[w] = pc[w]
              \/ /\ pc[w] \in {"faulted", "failing"} /\ pc'[w] \in {"failing", "dead"}
                 /\ pc[w] = "faulted" => cancelled'
              \/ w \in Sessions /\ SessionReceived(w)
  BY RestFrame
<1>3. \A s \in Sessions : SessionReceived(s) => pc'[s] = "start"
  BY <1>1 DEF SessionReceived, PlacesOK
<1>4. /\ \A s \in Sessions : pc'[s] = "emptied" => pc[s] = "emptied"
      /\ \A w \in Producers \cup Sessions : pc'[w] \in {"failing", "dead"} => cancelled'
  BY <1>1, <1>2, <1>3 DEF PlaceOK
<1>5. /\ pc'[HubReader] = "cancelling" \/ job' = "cancelled" => cancelled'
      /\ job' = "done" => pc'[Indexer] = "done"
  BY <1>1, <1>2
  DEF RestStep, SessionReceived, UnexpectedError, ErrorEnds, Index, IndexerStarts, Indexes,
      IndexerEnds, ProcessIndex, BackupDone, SendIndex, IndexSessionFails, IndexNotSent,
      Registers, CancelTask, CancelEnds, CancelsAndWaits, PlacesOK, indexing, ending,
      PlaceOK
<1>6. ASSUME NEW r \in Sessions, Running(r)'
      PROVE  r \in consumers' \/ (pc'[HubReader] = "registering" /\ serving' = r)
  <2>1. CASE SessionReceived(r)
    BY <1>1, <2>1 DEF SessionReceived, PlacesOK
  <2>2. CASE ~SessionReceived(r)
    <3>1. Running(r)
      BY <1>2, <1>6, <2>2 DEF Running
    <3>2. r \in consumers \/ (pc[HubReader] = "registering" /\ serving = r)
      BY <1>1, <3>1 DEF PlaceOK
    <3>3. CASE \E s \in Sessions : SessionReceived(s)
      BY <2>2, <3>2, <3>3 DEF SessionReceived
    <3>4. CASE Registers
      BY <3>2, <3>4 DEF Registers
    <3>5. CASE ~Registers /\ ~\E s \in Sessions : SessionReceived(s)
      <4>1. UNCHANGED <<consumers, serving>>
        BY <3>5
        DEF RestStep, UnexpectedError, ErrorEnds, Index, IndexerStarts, Indexes,
            IndexerEnds, ProcessIndex, BackupDone, SendIndex, IndexSessionFails,
            IndexNotSent, CancelTask, CancelEnds, tasks, asked
      <4>2. pc[HubReader] = "registering" => pc'[HubReader] = "registering"
        BY <1>1, <3>5
        DEF RestStep, UnexpectedError, ErrorEnds, Index, IndexerStarts, Indexes,
            IndexerEnds, ProcessIndex, BackupDone, SendIndex, IndexSessionFails,
            IndexNotSent, CancelTask, CancelEnds, CancelsAndWaits, PlacesOK, indexing
      <4>3. QED
        BY <3>2, <4>1, <4>2
    <3>6. QED
      BY <3>3, <3>4, <3>5
  <2>3. QED
    BY <2>1, <2>2
<1>7. QED
  BY <1>1, <1>2, <1>4, <1>5, <1>6 DEF PlaceOK

-----------------------------------------------------------------------------
(* The first producers.                                                    *)

LEMMA FirstStays ==
  ASSUME TypeInv, JobInv, FeedsFirst,
         \/ \E p \in Producers : Produce(p)
         \/ \E s \in Sessions : SessionStep(s)
         \/ RestStep
  PROVE  FirstOK'
<1> USE ConstantsAssumption DEF At, Goto, Threads
<1>1. PlacesOK /\ FirstOK
  BY DEF TypeInv, JobInv
<1>2. 1..Parallelism \subseteq Producers
  BY FS_CardinalityType
<1>3. CASE \E p \in Producers : Produce(p)
  <2>1. PICK p \in Producers : Produce(p)
    BY <1>3
  <2>2. \A s \in Sessions : pc'[s] = pc[s]
    BY <2>1, ProduceFrame
  <2>3. \A r \in Producers :
          \/ pc'[r] = pc[r]
          \/ pc[r] \in {"off", "created"}
          \/ pc[r] = "begin" /\ pc'[r] = "faulted"
          \/ /\ pc[r] \in {"begin", "dequeuing", "announce"}
             /\ pc'[r] \in {"dequeuing", "announce", "collect"}
          \/ pc'[r] \in {"collect", "offer", "continuing", "ended"}
    BY <1>1, <2>1
    DEF Produce, Dequeues, DequeueFails, Dequeued, Announces, NextDrive, Offers,
        OfferCancelled, DriveEnds, Continues, Continued, ClosesFeed, PlacesOK
  <2>4. QED
    BY <1>1, <1>2, <2>2, <2>3 DEF FirstOK
<1>4. CASE \E s \in Sessions : SessionStep(s)
  <2>1. PICK s \in Sessions : SessionStep(s)
    BY <1>4
  <2>2. /\ \A w \in Threads \ {s} : pc'[w] = pc[w]
        /\ pc[s] = "none" => pc'[s] = "none"
    BY <2>1, SessionFrame
  <2>3. QED
    BY <1>1, <1>2, <2>2 DEF FirstOK
<1>5. CASE RestStep
  <2>1. \A w \in Producers \cup Sessions :
              \/ pc'[w] = pc[w]
              \/ pc[w] \in {"faulted", "failing"} /\ pc'[w] \in {"failing", "dead"}
              \/ w \in Sessions /\ SessionReceived(w)
    BY <1>5, RestFrame
  <2>2. (\E s \in Sessions : SessionReceived(s)) =>
          \A p \in 1..Parallelism : pc[p] \notin {"begin", "dequeuing", "announce"}
    BY DEF SessionReceived, FirstFeedsAnnounced
  <2>3. \A p \in Producers : p \notin Sessions
    OBVIOUS
  <2>4. QED
    BY <1>1, <1>2, <2>1, <2>2, <2>3 DEF FirstOK
<1>6. QED
  BY <1>3, <1>4, <1>5

-----------------------------------------------------------------------------
(* The queues of drives.                                                   *)

\* A thread has taken the head of megaQueue, and no other is about to.
LEMMA HeadTaken ==
  ASSUME TypeInv, TakersOK, NEW n \in Producers, Taking(n),
         mega' = Tail(mega), mine' = mine,
         \A r \in Producers : Taken(r)' => Taken(r) \/ r = n,
         \A r \in Producers : ~Taking(r)'
  PROVE  TakersOK'
<1>1. mega \in Seq(Queues) /\ mega # <<>> /\ mine[n] = Head(mega)
  BY DEF TypeInv, ProductionOK, TakersOK
<1> DEFINE m == mega'
<1>2. /\ Len(mega) \in Nat /\ Len(mega) > 0 /\ Len(m) = Len(mega) - 1
      /\ \A i \in 1..Len(m) : m[i] = mega[i + 1] /\ i + 1 \in 1..Len(mega) /\ i + 1 # 1
      /\ mine[n] = mega[1] /\ 1 \in 1..Len(mega) /\ mine[n] \in Queues
  BY <1>1
<1>3. \A r \in Producers : Taken(r) => mine[r] # mine[n]
  BY <1>2 DEF TakersOK
<1>4. \A p, r \in Producers : Taken(p)' /\ Taken(r)' /\ mine'[p] = mine'[r] => p = r
  BY <1>3 DEF TakersOK
<1>5. \A p \in Producers : Taken(p)' => mine'[p] \in Queues
  BY <1>2 DEF TakersOK
<1>6. \A p \in Producers, i \in 1..Len(m) : Taken(p)' => m[i] # mine'[p]
  <2>1. SUFFICES ASSUME NEW p \in Producers, NEW i \in 1..Len(m), Taken(p)'
                 PROVE  m[i] # mine[p]
    OBVIOUS
  <2>2. CASE Taken(p)
    BY <1>2, <2>2 DEF TakersOK
  <2>3. CASE p = n
    BY <1>2, <2>3 DEF TakersOK
  <2>4. QED
    BY <2>1, <2>2, <2>3
<1>7. ASSUME NEW i \in 1..Len(m), NEW j \in 1..Len(m), m[i] = m[j] PROVE i = j
  <2>1. i + 1 = j + 1
    BY <1>2, <1>7 DEF TakersOK
  <2>2. QED
    BY <1>2, <2>1
<1>8. \A r \in Producers : pc'[r] # "created"
  BY DEF Taking
<1>9. QED
  BY <1>4, <1>5, <1>6, <1>7, <1>8 DEF TakersOK

LEMMA TakersStay ==
  ASSUME TakersOK, mega' = mega, mine' = mine,
         \A r \in Producers : (Taken(r)' => Taken(r)) /\ (Taking(r)' => Taking(r)),
         \A r \in Producers : pc'[r] = "created" => pc[r] = "created",
         \A r \in Producers : pc[r] = "continuing" => pc'[r] = "continuing"
  PROVE  TakersOK'
BY DEF TakersOK

\* A thread is about to take the head, and whoever has a queue keeps it.
LEMMA TakersEnter ==
  ASSUME TakersOK, mega' = mega, mega # <<>>,
         \A r \in Producers : Taken(r)' => Taken(r) /\ mine'[r] = mine[r],
         \A r \in Producers : Taking(r)' => mine'[r] = Head(mega),
         \A r \in Producers : pc'[r] = "created" =>
           \E v \in Producers : pc'[v] = "continuing",
         \A p, r \in Producers : pc'[p] = "created" /\ pc'[r] = "created" => p = r
  PROVE  TakersOK'
<1>1. \A p, r \in Producers : Taken(p)' /\ Taken(r)' /\ mine'[p] = mine'[r] => p = r
  BY DEF TakersOK
<1>2. \A p \in Producers : Taken(p)' => mine'[p] \in Queues
  BY DEF TakersOK
<1>3. \A p \in Producers, i \in 1..Len(mega') : Taken(p)' => mega'[i] # mine'[p]
  BY DEF TakersOK
<1>4. \A i, j \in 1..Len(mega') : mega'[i] = mega'[j] => i = j
  BY DEF TakersOK
<1>5. \A p \in Producers : Taking(p)' => mega' # <<>> /\ mine'[p] = Head(mega')
  OBVIOUS
<1>6. QED
  BY <1>1, <1>2, <1>3, <1>4, <1>5 DEF TakersOK

LEMMA ProduceTakers ==
  ASSUME TypeInv, JobInv, Prompt, NEW p \in Producers, Produce(p)
  PROVE  TakersOK'
<1> USE ConstantsAssumption DEF At, Goto, Threads
<1>1. PlacesOK /\ ProductionOK /\ TakersOK /\ Alone
  BY DEF TypeInv, JobInv
<1>2. CASE Dequeues(p)
  <2>1. /\ mega' = mega /\ mega # <<>>
        /\ pc[p] = "begin" /\ pc'[p] = "dequeuing" /\ mine'[p] = Head(mega)
        /\ \A r \in Producers \ {p} : pc'[r] = pc[r] /\ mine'[r] = mine[r]
    BY <1>1, <1>2 DEF Dequeues, PlacesOK, ProductionOK
  <2>2. /\ \A r \in Producers : Taken(r)' => Taken(r) /\ r # p /\ mine'[r] = mine[r]
        /\ \A r \in Producers : Taking(r)' => mine'[r] = Head(mega)
        /\ \A r \in Producers : pc'[r] = "created" => r # p /\ pc[r] = "created"
        /\ \A r \in Producers : pc[r] = "continuing" => pc'[r] = "continuing"
    BY <1>1, <2>1 DEF Taken, Taking, TakersOK
  <2>3. \A r \in Producers : pc'[r] = "created" =>
          \E v \in Producers : pc'[v] = "continuing"
    BY <1>1, <2>2 DEF TakersOK
  <2>4. \A r, x \in Producers : pc'[r] = "created" /\ pc'[x] = "created" => r = x
    BY <1>1, <2>2 DEF TakersOK
  <2>5. QED
    BY <1>1, <2>1, <2>2, <2>3, <2>4, TakersEnter
<1>3. CASE Dequeued(p)
  <2>1. /\ pc[p] = "dequeuing" /\ Taking(p) /\ mine' = mine
        /\ \A r \in Producers \ {p} : pc'[r] = pc[r]
        /\ pc'[p] = "announce"
    BY <1>1, <1>3 DEF Dequeued, PlacesOK, Taking
  <2>2. mega' = Tail(mega)
    BY <1>1, <1>3, <2>1 DEF Dequeued, MovesHead, TakersOK
  <2>3. ASSUME NEW r \in Producers PROVE ~Taking(r)'
    <3>1. ASSUME Taking(r)' PROVE FALSE
      <4>1. r # p /\ Taking(r)
        BY <2>1, <3>1 DEF Taking
      <4>2. CASE pc[r] = "dequeuing"
        BY <1>1, <2>1, <4>1, <4>2 DEF Alone, Windows
      <4>3. CASE pc[r] = "created"
        <5>1. PICK v \in Producers : pc[v] = "continuing"
          BY <1>1, <4>3 DEF TakersOK
        <5>2. v = p
          BY <1>1, <2>1, <5>1 DEF Alone, Windows
        <5>3. QED
          BY <2>1, <5>1, <5>2
      <4>4. QED
        BY <4>1, <4>2, <4>3 DEF Taking
    <3>2. QED
      BY <3>1
  <2>4. \A r \in Producers : Taken(r)' => Taken(r) \/ r = p
    BY <2>1 DEF Taken
  <2>5. QED
    BY <1>1, <2>1, <2>2, <2>3, <2>4, HeadTaken
<1>4. CASE Continues(p)
  <2>1. PICK n \in Producers :
          /\ pc[n] = "off"
          /\ mine' = [mine EXCEPT ![n] = Head(mega)]
          /\ pc' = [pc EXCEPT ![n] = "created", ![p] = "continuing"]
    BY <1>4 DEF Continues
  <2>2. /\ mega' = mega /\ mega # <<>> /\ pc[p] = "offer" /\ n # p
        /\ pc'[n] = "created" /\ pc'[p] = "continuing" /\ mine'[n] = Head(mega)
        /\ \A r \in Producers \ {n} : mine'[r] = mine[r]
        /\ \A r \in Producers \ {n, p} : pc'[r] = pc[r]
    BY <1>1, <1>4, <2>1 DEF Continues, PlacesOK, ProductionOK
  <2>3. \A r \in Producers : pc[r] # "continuing"
    BY <1>4, <2>2 DEF Continues, Undisturbed, Windows
  <2>4. \A r \in Producers : pc[r] # "created"
    BY <1>1, <2>3 DEF TakersOK
  <2>5. /\ \A r \in Producers : Taken(r)' => Taken(r) /\ r # n
        /\ \A r \in Producers : Taking(r)' => r = n \/ Taking(r)
        /\ \A r \in Producers : pc'[r] = "created" => r = n
    BY <2>2, <2>4 DEF Taken, Taking
  <2>6. \A r \in Producers : Taking(r)' => mine'[r] = Head(mega)
    BY <1>1, <2>2, <2>5 DEF TakersOK
  <2>7. QED
    BY <1>1, <2>2, <2>5, <2>6, TakersEnter
<1>5. CASE Continued(p)
  <2>1. PICK n \in Producers :
          /\ pc[n] = "created"
          /\ MovesHead(mine[n])
          /\ pc' = [pc EXCEPT ![n] = "announce", ![p] = "collect"]
    BY <1>5 DEF Continued
  <2>2. /\ pc[p] = "continuing" /\ mine' = mine /\ n # p /\ Taking(n)
        /\ pc'[n] = "announce" /\ pc'[p] = "collect"
        /\ \A r \in Producers \ {n, p} : pc'[r] = pc[r]
    BY <1>1, <1>5, <2>1 DEF Continued, PlacesOK, Taking
  <2>3. mega' = Tail(mega)
    BY <1>1, <2>1, <2>2 DEF MovesHead, TakersOK
  <2>4. ASSUME NEW r \in Producers, Taking(r)' PROVE FALSE
    <3>1. r # n /\ r # p /\ Taking(r)
      BY <2>2, <2>4 DEF Taking
    <3>2. CASE pc[r] = "dequeuing"
      BY <1>1, <2>2, <3>1, <3>2 DEF Alone, Windows
    <3>3. CASE pc[r] = "created"
      BY <1>1, <2>1, <3>1, <3>3 DEF TakersOK
    <3>4. QED
      BY <3>1, <3>2, <3>3 DEF Taking
  <2>5. \A r \in Producers : Taken(r)' => Taken(r) \/ r = n
    BY <2>2 DEF Taken
  <2>6. QED
    BY <1>1, <2>2, <2>3, <2>4, <2>5, HeadTaken
<1>6. CASE \/ DequeueFails(p) \/ Announces(p) \/ NextDrive(p) \/ Offers(p)
           \/ OfferCancelled(p) \/ DriveEnds(p) \/ ClosesFeed(p)
  <2>1. mega' = mega /\ mine' = mine
    BY <1>6
    DEF DequeueFails, Announces, NextDrive, Offers, OfferCancelled, DriveEnds, ClosesFeed,
        production
  <2>2. /\ \A r \in Producers : (Taken(r)' => Taken(r)) /\ (Taking(r)' => Taking(r))
        /\ \A r \in Producers : pc'[r] = "created" => pc[r] = "created"
        /\ \A r \in Producers : pc[r] = "continuing" => pc'[r] = "continuing"
    BY <1>1, <1>6
    DEF DequeueFails, Announces, NextDrive, Offers, OfferCancelled, DriveEnds, ClosesFeed,
        PlacesOK, Taken, Taking
  <2>3. QED
    BY <1>1, <2>1, <2>2, TakersStay
<1>7. QED
  BY <1>2, <1>3, <1>4, <1>5, <1>6 DEF Produce

LEMMA OthersTakers ==
  ASSUME TypeInv, JobInv, (\E s \in Sessions : SessionStep(s)) \/ RestStep
  PROVE  TakersOK' /\ \A p \in Producers : Unannounced(p) = Unannounced(p)'
                       /\ (Taken(p) = Taken(p)')
<1> USE ConstantsAssumption DEF Threads
<1>1. TakersOK
  BY DEF JobInv
<1>2. /\ mega' = mega /\ mine' = mine
      /\ \A r \in Producers :
           pc'[r] = pc[r]
             \/ (pc[r] \in {"faulted", "failing"} /\ pc'[r] \in {"failing", "dead"})
  <2>1. ASSUME NEW s \in Sessions, SessionStep(s)
        PROVE  mega' = mega /\ mine' = mine /\ \A r \in Producers : pc'[r] = pc[r]
    BY <2>1, SessionFrame
  <2>2. ASSUME RestStep
        PROVE  /\ mega' = mega /\ mine' = mine
               /\ \A r \in Producers :
                    pc'[r] = pc[r]
                      \/ (pc[r] \in {"faulted", "failing"} /\ pc'[r] \in {"failing", "dead"})
    BY <2>2, RestFrame
  <2>3. QED
    BY <2>1, <2>2
<1>3. \A r \in Producers : Taken(r) = Taken(r)' /\ Taking(r) = Taking(r)'
                           /\ Unannounced(r) = Unannounced(r)'
  BY <1>2 DEF Taken, Taking, Unannounced, Early
<1>4. /\ \A r \in Producers : pc'[r] = "created" => pc[r] = "created"
      /\ \A r \in Producers : pc[r] = "continuing" => pc'[r] = "continuing"
  BY <1>2
<1>5. TakersOK'
  BY <1>1, <1>2, <1>3, <1>4, TakersStay
<1>6. QED
  BY <1>3, <1>5

-----------------------------------------------------------------------------
(* Closed feeds.                                                           *)

LEMMA ProduceDrained ==
  ASSUME TypeInv, ChunksInv, FeedsInv, JobInv, NEW p \in Producers, Produce(p)
  PROVE  DrainedOK'
<1> USE ConstantsAssumption DEF At, Goto, Threads
<1>1. /\ PlacesOK /\ ProductionOK /\ FeedsOK /\ WorkOK
      /\ TodoOK /\ LabelsOK /\ TakersOK /\ DrainedOK
  BY DEF TypeInv, ChunksInv, FeedsInv, JobInv
<1>2. pc[p] # "ended"
  BY DEF Produce, Dequeues, DequeueFails, Dequeued, Announces, NextDrive, Offers,
         OfferCancelled, DriveEnds, Continues, Continued, ClosesFeed
<1>3. \A x \in closed : x # p /\ pc[x] = "ended" /\ x \in Producers
  BY <1>1, <1>2 DEF LabelsOK, FeedsOK
<1>4. \A x \in closed : pc'[x] = "ended" /\ mine'[x] = mine[x] /\ todo'[x] = todo[x]
  BY <1>1, <1>3
  DEF Produce, Dequeues, DequeueFails, Dequeued, Announces, NextDrive, Offers,
      OfferCancelled, DriveEnds, Continues, Continued, ClosesFeed, PlacesOK,
      ProductionOK, production
<1>5. \A x \in closed : drives'[mine[x]] = <<>>
  <2>1. CASE NextDrive(p)
    <3>1. /\ Taken(p) /\ \A x \in closed : mine[x] # mine[p] /\ mine[x] \in Queues
      BY <1>1, <1>3, <2>1 DEF NextDrive, Taken, TakersOK, DrainedOK
    <3>2. \A q \in Queues \ {mine[p]} : drives'[q] = drives[q]
      BY <1>1, <2>1 DEF NextDrive, ProductionOK
    <3>3. QED
      BY <1>1, <3>1, <3>2 DEF DrainedOK
  <2>2. CASE ~NextDrive(p)
    <3>1. drives' = drives
      BY <2>2
      DEF Produce, Dequeues, DequeueFails, Dequeued, Announces, Offers,
          OfferCancelled, DriveEnds, Continues, Continued, ClosesFeed, production
    <3>2. QED
      BY <1>1, <3>1 DEF DrainedOK
  <2>3. QED
    BY <2>1, <2>2
<1>6. ASSUME NEW x \in closed'
      PROVE  drives'[mine'[x]] = <<>> /\ todo'[x] = <<>> /\ Taken(x)'
  <2>1. CASE x \in closed
    BY <1>1, <1>4, <1>5, <2>1 DEF DrainedOK, Taken
  <2>2. CASE x \notin closed
    <3>1. ClosesFeed(p) /\ x = p
      BY <1>6, <2>2
      DEF Produce, Dequeues, DequeueFails, Dequeued, Announces, NextDrive, Offers,
          OfferCancelled, DriveEnds, Continues, Continued, ClosesFeed, feedState
    <3>2. QED
      BY <1>1, <3>1 DEF ClosesFeed, TodoOK, PlacesOK, production, Taken
  <2>3. QED
    BY <2>1, <2>2
<1>7. ASSUME NEW x \in Producers, Unannounced(x)' PROVE buffer'[x] = <<>>
  <2>1. Unannounced(x)
    BY <1>1, <1>7
    DEF Produce, Dequeues, DequeueFails, Dequeued, Announces, NextDrive, Offers,
        OfferCancelled, DriveEnds, Continues, Continued, ClosesFeed, PlacesOK,
        Unannounced, Early
  <2>2. buffer'[x] = buffer[x]
    <3>1. CASE Offers(p)
      BY <1>1, <2>1, <3>1 DEF Offers, FeedsOK, Unannounced, Early
    <3>2. CASE ~Offers(p)
      BY <3>2
      DEF Produce, Dequeues, DequeueFails, Dequeued, Announces, NextDrive,
          OfferCancelled, DriveEnds, Continues, Continued, ClosesFeed, feedState
    <3>3. QED
      BY <3>1, <3>2
  <2>3. QED
    BY <1>1, <2>1, <2>2 DEF DrainedOK
<1>8. QED
  BY <1>6, <1>7 DEF DrainedOK

LEMMA SessionDrained ==
  ASSUME TypeInv, FeedsInv, JobInv, NEW s \in Sessions, SessionStep(s)
  PROVE  DrainedOK'
<1> USE ConstantsAssumption DEF At
<1>1. WorkOK /\ FeedsOK /\ NotTooEarly /\ DrainedOK
  BY DEF TypeInv, FeedsInv, JobInv
<1>2. /\ UNCHANGED <<drives, mine, todo, closed>>
      /\ \A x \in Producers : Unannounced(x) = Unannounced(x)' /\ Taken(x) = Taken(x)'
  BY SessionFrame, OthersTakers
<1>3. ASSUME NEW x \in Producers, Unannounced(x) PROVE buffer'[x] = <<>>
  <2>1. buffer[x] = <<>>
    BY <1>1, <1>3 DEF DrainedOK
  <2>2. CASE Retries(s)
    <3>1. feed[s] \in Producers /\ feed[s] # x
      BY <1>1, <1>3, <2>2 DEF Retries, WorkOK, NotTooEarly, AtWork
    <3>2. QED
      BY <1>1, <2>1, <2>2, <3>1 DEF Retries, FeedsOK
  <2>3. CASE TakesChunk(s)
    BY <1>1, <2>1, <2>3 DEF TakesChunk, FeedsOK
  <2>4. CASE ~Retries(s) /\ ~TakesChunk(s)
    <3>1. buffer' = buffer
      BY <2>4
      DEF SessionStep, Consume, AfterTask, Read, ConsumeReturns, ConsumeBegins, TakesFeed,
          CancelledOutside, CancelledInside, LeavesLoop, HandsBack, Sends,
          SendRefused, SendBreaks, SendFails, Confirmed, TimesOut, GivesUp,
          Sweeps, AsksAgain, EndsSession, SeesNoFeeds, DataBackupDone, EndFails,
          ManageChunkSent, ConfirmationIgnored, HandsToIndexer, IndexerRefuses,
          SessionFails, SessionBreaks, feedState
    <3>2. QED
      BY <2>1, <3>1
  <2>5. QED
    BY <2>2, <2>3, <2>4
<1>4. QED
  BY <1>1, <1>2, <1>3 DEF DrainedOK, FeedsOK

LEMMA RestDrained ==
  ASSUME TypeInv, JobInv, RestStep
  PROVE  DrainedOK'
<1>1. DrainedOK /\ FeedsOK
  BY DEF TypeInv, JobInv
<1>2. /\ UNCHANGED <<drives, mine, todo, closed, buffer>>
      /\ \A x \in Producers : Unannounced(x) = Unannounced(x)' /\ Taken(x) = Taken(x)'
  BY RestFrame, OthersTakers
<1>3. QED
  BY <1>1, <1>2 DEF DrainedOK, FeedsOK

-----------------------------------------------------------------------------
(* Chunks on their way.                                                    *)

\* An interruption is not taken back.
LEMMA InterruptedStays ==
  ASSUME TypeInv,
         \/ \E p \in Producers : Produce(p)
         \/ \E s \in Sessions : SessionStep(s)
         \/ RestStep,
         Interrupted
  PROVE  Interrupted'
<1> USE ConstantsAssumption DEF At, Goto, Threads
<1>1. PlacesOK
  BY DEF TypeInv
<1>2. CASE \E p \in Producers : Produce(p)
  <2>1. PICK p \in Producers : Produce(p)
    BY <1>2
  <2>2. cancelled' = cancelled
    BY <2>1, ProduceFrame
  <2>3. \A w \in Producers : pc[w] = "faulted" => pc'[w] = "faulted"
    BY <1>1, <2>1
    DEF Produce, Dequeues, DequeueFails, Dequeued, Announces, NextDrive, Offers,
        OfferCancelled, DriveEnds, Continues, Continued, ClosesFeed, PlacesOK
  <2>4. \A w \in Sessions : pc'[w] = pc[w]
    BY <2>1, ProduceFrame
  <2>5. QED
    BY <2>2, <2>3, <2>4 DEF Interrupted
<1>3. CASE \E s \in Sessions : SessionStep(s)
  <2>1. PICK s \in Sessions : SessionStep(s)
    BY <1>3
  <2>2. cancelled' = cancelled
    BY <2>1, SessionFrame
  <2>3. \A w \in Producers \cup Sessions : pc[w] = "faulted" => pc'[w] = "faulted"
    BY <2>1, SessionFrame
  <2>4. QED
    BY <2>2, <2>3 DEF Interrupted
<1>4. CASE RestStep
  BY <1>4, RestFrame
<1>5. QED
  BY <1>2, <1>3, <1>4

\* Nor is what has been said of a chunk, or written.
LEMMA OverStays ==
  ASSUME TypeInv,
         \/ \E p \in Producers : Produce(p)
         \/ \E s \in Sessions : SessionStep(s)
         \/ RestStep
  PROVE  \A k \in Chunks : Over(k) => Over(k)'
<1> USE DEF production, feedState, working, storage, tasks, underway, indexing, asked,
            ending, counters
<1>1. IndexingOK /\ UnderwayOK
  BY DEF TypeInv
<1>2. CASE \E s \in Sessions : HandsToIndexer(s)
  <2>1. PICK s \in Sessions : HandsToIndexer(s)
    BY <1>2
  <2>2. /\ index' = index /\ reported' = reported
        /\ indexFeed' = Append(indexFeed, reading[s]) /\ reading[s] \in Chunks
    BY <1>1, <2>1 DEF HandsToIndexer, UnderwayOK
  <2>3. ToSet(indexFeed) \subseteq ToSet(indexFeed')
    BY <1>1, <2>2, HoldsAppended DEF IndexingOK
  <2>4. QED
    BY <2>2, <2>3 DEF Over
<1>3. CASE Indexes
  <2>1. /\ reported' = reported /\ indexFeed # <<>>
        /\ index' = Append(index, Head(indexFeed)) /\ indexFeed' = Tail(indexFeed)
    BY <1>3 DEF Indexes
  <2>2. ToSet(index') = ToSet(index) \cup {Head(indexFeed)}
    <3>1. Head(indexFeed) \in Chunks /\ index \in Seq(Chunks)
      BY <1>1, <2>1 DEF IndexingOK
    <3>2. QED
      BY <2>1, <3>1, HoldsAppended
  <2>3. ToSet(indexFeed) \subseteq {Head(indexFeed)} \cup ToSet(indexFeed')
    BY <1>1, <2>1, HoldsHead DEF IndexingOK
  <2>4. QED
    BY <2>1, <2>2, <2>3 DEF Over
<1>4. CASE ~(\E s \in Sessions : HandsToIndexer(s)) /\ ~Indexes
  <2>1. index' = index /\ indexFeed' = indexFeed /\ reported \subseteq reported'
    <3>1. CASE \E p \in Producers : Produce(p)
      BY <3>1, ProduceFrame
    <3>2. CASE \E s \in Sessions : SessionStep(s)
      <4>1. PICK s \in Sessions : SessionStep(s)
        BY <3>2
      <4>2. QED
        BY <1>4, <4>1
        DEF SessionStep, Consume, AfterTask, Read, ConsumeReturns, ConsumeBegins, TakesFeed,
            CancelledOutside, CancelledInside, LeavesLoop, TakesChunk, HandsBack, Sends,
            SendRefused, SendBreaks, SendFails, Confirmed, TimesOut, Retries, GivesUp,
            Sweeps, AsksAgain, EndsSession, SeesNoFeeds, DataBackupDone, EndFails,
            ManageChunkSent, ConfirmationIgnored, IndexerRefuses,
            SessionFails, SessionBreaks, Reported
    <3>3. CASE RestStep
      BY <1>4, <3>3
      DEF RestStep, SessionReceived, UnexpectedError, ErrorEnds, Index, IndexerStarts,
          IndexerEnds, ProcessIndex, BackupDone, SendIndex, IndexSessionFails,
          IndexNotSent, Registers, CancelTask, CancelEnds, CancelsAndWaits
    <3>4. QED
      BY <3>1, <3>2, <3>3
  <2>2. QED
    BY <2>1 DEF Over
<1>5. QED
  BY <1>2, <1>3, <1>4

LEMMA SentStays ==
  ASSUME TypeInv, SentOK,
         Interrupted => Interrupted',
         indexClosed => indexClosed',
         \A k \in Chunks : Over(k) => Over(k)',
         \A s \in Sessions : pc'[s] = "requeue" => held'[s] \in reported',
         ~Interrupted' /\ ~indexClosed' =>
           /\ \A k \in Chunks : InHand(k) => Over(k)' \/ InHand(k)'
           /\ \A k \in Chunks : k \in sent' \cup disposed' =>
                k \in sent \cup disposed \/ Over(k)' \/ InHand(k)'
           /\ \A k \in Chunks : processing'[k] > 0 =>
                processing[k] > 0 \/ \E s \in Sessions : OnItsWay(s)' /\ held'[s] = k
           /\ \A s \in Sessions, k \in Chunks : OnItsWay(s) /\ held[s] = k =>
                Over(k)' \/ InHand(k)' \/ (OnItsWay(s)' /\ held'[s] = k),
         sent' \cup disposed' \subseteq Chunks
  PROVE  SentOK'
<1>1. CASE Interrupted' \/ indexClosed'
  BY <1>1 DEF SentOK
<1>2. CASE ~Interrupted' /\ ~indexClosed'
  <2>1. /\ \A k \in sent \cup disposed : Over(k) \/ InHand(k)
        /\ \A k \in Chunks : processing[k] > 0 =>
             Over(k) \/ InHand(k) \/ \E s \in Sessions : OnItsWay(s) /\ held[s] = k
    BY <1>2 DEF SentOK
  <2>2. \A k \in Chunks : Over(k) \/ InHand(k) => Over(k)' \/ InHand(k)'
    BY <1>2
  <2>3. ASSUME NEW k \in sent' \cup disposed' PROVE Over(k)' \/ InHand(k)'
    <3>1. k \in Chunks
      BY <2>3
    <3>2. k \in sent \cup disposed \/ Over(k)' \/ InHand(k)'
      BY <1>2, <2>3, <3>1
    <3>3. QED
      BY <2>1, <2>2, <3>1, <3>2
  <2>4. ASSUME NEW k \in Chunks, processing'[k] > 0
        PROVE  \/ Over(k)' \/ InHand(k)'
               \/ \E s \in Sessions : OnItsWay(s)' /\ held'[s] = k
    <3>1. CASE processing[k] > 0
      <4>1. CASE Over(k) \/ InHand(k)
        BY <2>2, <4>1
      <4>2. CASE \E s \in Sessions : OnItsWay(s) /\ held[s] = k
        <5>1. PICK s \in Sessions : OnItsWay(s) /\ held[s] = k
          BY <4>2
        <5>2. QED
          BY <1>2, <5>1
      <4>3. QED
        BY <2>1, <3>1, <4>1, <4>2
    <3>2. CASE ~(processing[k] > 0)
      BY <1>2, <2>4, <3>2
    <3>3. QED
      BY <3>1, <3>2
  <2>5. QED
    BY <2>3, <2>4 DEF SentOK
<1>3. QED
  BY <1>1, <1>2

LEMMA ProduceSent ==
  ASSUME TypeInv, JobInv, NEW p \in Producers, Produce(p)
  PROVE  SentOK'
<1> USE ConstantsAssumption DEF Threads
<1>1. SentOK /\ UnderwayOK
  BY DEF TypeInv, JobInv
<1>2. /\ UNCHANGED <<held, processing, sent, disposed, reading, indexFeed, indexClosed,
                      index, reported>>
      /\ \A s \in Sessions : pc'[s] = pc[s]
  BY ProduceFrame
<1>3. Interrupted => Interrupted'
  BY InterruptedStays
<1>4. \A s \in Sessions : OnItsWay(s)' = OnItsWay(s)
  BY <1>2 DEF OnItsWay
<1>5. \A k \in Chunks : Over(k)' = Over(k) /\ InHand(k)' = InHand(k)
  BY <1>2 DEF Over, InHand
<1>6. \A s \in Sessions : pc'[s] = "requeue" => held'[s] \in reported'
  BY <1>1, <1>2 DEF SentOK
<1>7. QED
  BY <1>1, <1>2, <1>3, <1>4, <1>5, <1>6, SentStays DEF UnderwayOK

LEMMA RestSent ==
  ASSUME TypeInv, JobInv, RestStep
  PROVE  SentOK'
<1> USE ConstantsAssumption DEF Threads
<1>1. SentOK /\ UnderwayOK /\ PlacesOK
  BY DEF TypeInv, JobInv
<1>2. /\ UNCHANGED <<held, processing, sent, disposed, reading, reported>>
      /\ \A s \in Sessions :
           \/ pc'[s] = pc[s]
           \/ pc[s] \in {"faulted", "failing"} /\ pc'[s] \in {"failing", "dead"}
           \/ SessionReceived(s)
  BY RestFrame
<1>3. Interrupted => Interrupted'
  BY InterruptedStays
<1>4. \A s \in Sessions : SessionReceived(s) => pc[s] \in {"none", "idle"} /\ pc'[s] = "start"
  BY <1>1 DEF SessionReceived, Answers, TypeInv, WorkOK, PlacesOK
<1>5. ASSUME NEW s \in Sessions
      PROVE  OnItsWay(s)' = OnItsWay(s) /\ (pc'[s] = "requeue" => pc[s] = "requeue")
  <2>1. CASE pc'[s] = pc[s]
    BY <2>1 DEF OnItsWay
  <2>2. CASE pc[s] \in {"faulted", "failing"} /\ pc'[s] \in {"failing", "dead"}
    BY <2>2 DEF OnItsWay
  <2>3. CASE SessionReceived(s)
    <3>1. pc[s] \in {"none", "idle"} /\ pc'[s] = "start"
      BY <1>4, <2>3
    <3>2. QED
      BY <3>1 DEF OnItsWay
  <2>4. QED
    BY <1>2, <2>1, <2>2, <2>3
<1>6. \A k \in Chunks : InHand(k)' = InHand(k) /\ (Over(k) => Over(k)')
  BY <1>2, OverStays DEF InHand
<1>7. \A s \in Sessions : pc'[s] = "requeue" => held'[s] \in reported'
  BY <1>1, <1>2, <1>5 DEF SentOK
<1>8. indexClosed => indexClosed'
  BY DEF RestStep, SessionReceived, UnexpectedError, ErrorEnds, Index, IndexerStarts,
         Indexes, IndexerEnds, ProcessIndex, BackupDone, SendIndex, IndexSessionFails,
         IndexNotSent, Registers, CancelTask, CancelEnds, CancelsAndWaits, indexing
<1>9. QED
  BY <1>1, <1>2, <1>3, <1>5, <1>6, <1>7, <1>8, SentStays DEF UnderwayOK

LEMMA SessionSent ==
  ASSUME TypeInv, JobInv, NEW s \in Sessions, SessionStep(s)
  PROVE  SentOK'
<1> USE ConstantsAssumption
    DEF At, Goto, production, feedState, working, storage, tasks, underway, indexing,
        asked, ending, counters, Threads
<1>1. /\ SentOK /\ UnderwayOK /\ PlacesOK /\ WorkingOK /\ WorkOK /\ LockOK /\ FeedsOK
      /\ s \notin Producers
  BY DEF TypeInv, JobInv
<1>2. Interrupted => Interrupted'
  BY InterruptedStays
<1>3. \A k \in Chunks : Over(k) => Over(k)'
  BY OverStays
<1>4. \A r \in Sessions \ {s} : pc'[r] = pc[r]
  BY SessionFrame
<1>5. CASE TakesChunk(s)
  <2> DEFINE k0 == Head(buffer[feed[s]])
  <2>1. /\ pc[s] = "loop" /\ pc'[s] = "send" /\ held'[s] = k0
        /\ \A r \in Sessions \ {s} : held'[r] = held[r]
        /\ processing' = [processing EXCEPT ![k0] = @ + 1]
        /\ UNCHANGED <<sent, disposed, reading, indexClosed, reported>>
    BY <1>1, <1>5 DEF TakesChunk, PlacesOK, WorkingOK
  <2> HIDE DEF k0
  <2>2. \A k \in Chunks : processing'[k] > 0 => processing[k] > 0 \/ k = k0
    BY <1>1, <2>1 DEF UnderwayOK
  <2>3. \A k \in Chunks : InHand(k)' = InHand(k)
    BY <2>1 DEF InHand
  <2>4. \A r \in Sessions : OnItsWay(r) => OnItsWay(r)' /\ held'[r] = held[r]
    BY <1>4, <2>1 DEF OnItsWay
  <2>5. OnItsWay(s)' /\ \A r \in Sessions : pc'[r] = "requeue" => held'[r] \in reported'
    BY <1>1, <1>4, <2>1 DEF OnItsWay, SentOK
  <2>6. QED
    BY <1>1, <1>2, <1>3, <2>1, <2>2, <2>3, <2>4, <2>5, SentStays DEF UnderwayOK
<1>6. CASE Sends(s) \/ SendRefused(s) \/ SendBreaks(s) \/ TimesOut(s)
  <2>1. /\ UNCHANGED <<held, sent, disposed, reading, indexClosed>>
        /\ \A k \in Chunks : processing'[k] > 0 => processing[k] > 0
    <3>1. UNCHANGED <<held, sent, disposed, reading, indexClosed>>
      BY <1>6 DEF Sends, SendRefused, SendBreaks, TimesOut
    <3>2. CASE SendBreaks(s)
      <4>1. processing' = [processing EXCEPT ![held[s]] = 0]
        BY <3>2 DEF SendBreaks, Removed
      <4>2. \A k \in Chunks : processing'[k] = processing[k] \/ processing'[k] = 0
        BY <1>1, <4>1 DEF UnderwayOK
      <4>3. QED
        BY <3>1, <4>2
    <3>3. CASE ~SendBreaks(s)
      BY <1>6, <3>1, <3>3 DEF Sends, SendRefused, TimesOut
    <3>4. QED
      BY <3>2, <3>3
  <2>2. /\ reported \subseteq reported' /\ OnItsWay(s)
        /\ held[s] \in reported' \/ OnItsWay(s)'
        /\ pc'[s] = "requeue" => held[s] \in reported'
    BY <1>1, <1>6
    DEF Sends, SendRefused, SendBreaks, TimesOut, Reported, PlacesOK, OnItsWay
  <2>3. \A k \in Chunks : InHand(k)' = InHand(k)
    BY <2>1 DEF InHand
  <2>4. \A r \in Sessions, k \in Chunks : OnItsWay(r) /\ held[r] = k =>
          Over(k)' \/ (OnItsWay(r)' /\ held'[r] = k)
    BY <1>4, <2>1, <2>2 DEF OnItsWay, Over
  <2>5. \A r \in Sessions : pc'[r] = "requeue" => held'[r] \in reported'
    BY <1>1, <1>4, <2>1, <2>2 DEF SentOK
  <2>6. QED
    BY <1>1, <1>2, <1>3, <2>1, <2>3, <2>4, <2>5, SentStays DEF UnderwayOK
<1>7. CASE Confirmed(s) \/ Retries(s) \/ GivesUp(s)
  <2>1. /\ UNCHANGED <<held, sent, processing, reading, indexClosed, reported>>
        /\ disposed' \subseteq disposed \cup {held[s]}
        /\ pc'[s] = "loop" /\ pc[s] \in {"wait", "requeue", "resend"}
        /\ held[s] \in Chunks
    BY <1>1, <1>7 DEF Confirmed, Retries, GivesUp, DisposedAfterRetry, PlacesOK, WorkOK
  <2>2. \A k \in Chunks : InHand(k)' = InHand(k)
    BY <2>1 DEF InHand
  <2>3. pc[s] = "wait" => held[s] \in sent \cup disposed
    BY <1>7 DEF Confirmed, Retries, GivesUp
  <2>4. \A k \in disposed' : k \in disposed \/ Over(k) \/ k \in sent
    <3>1. CASE Confirmed(s)
      BY <2>1, <3>1 DEF Confirmed
    <3>2. CASE Retries(s) \/ GivesUp(s)
      BY <1>1, <2>1, <3>2 DEF Retries, GivesUp, DisposedAfterRetry, SentOK, Over
    <3>3. QED
      BY <1>7, <3>1, <3>2
  <2>5. ~Interrupted' /\ ~indexClosed' =>
          \A r \in Sessions, k \in Chunks : OnItsWay(r) /\ held[r] = k =>
            Over(k)' \/ InHand(k)' \/ (OnItsWay(r)' /\ held'[r] = k)
    <3>1. SUFFICES ASSUME ~Interrupted', ~indexClosed', NEW r \in Sessions, OnItsWay(r),
                          held[r] \in Chunks
                   PROVE  \A k \in Chunks : held[r] = k =>
                            Over(k)' \/ InHand(k)' \/ (OnItsWay(r)' /\ held'[r] = k)
      OBVIOUS
    <3>2. CASE r = s
      <4>1. Over(held[s]) \/ InHand(held[s])
        BY <1>1, <1>2, <2>1, <2>3, <3>1, <3>2 DEF SentOK, OnItsWay
      <4>2. QED
        BY <1>3, <2>1, <2>2, <3>2, <4>1
    <3>3. CASE r # s
      BY <1>4, <2>1, <3>1, <3>3 DEF OnItsWay
    <3>4. QED
      BY <3>2, <3>3
  <2>6. \A r \in Sessions : pc'[r] = "requeue" => held'[r] \in reported'
    BY <1>1, <1>4, <2>1 DEF SentOK
  <2>7. disposed' \subseteq Chunks /\ sent' \subseteq Chunks
    BY <1>1, <2>1 DEF UnderwayOK
  <2>8. QED
    BY <1>1, <1>2, <1>3, <2>1, <2>2, <2>4, <2>5, <2>6, <2>7, SentStays
<1>8. CASE ManageChunkSent(s)
  <2>1. PICK k0 \in Chunks : sent' = sent \cup {k0} /\ reading' = [reading EXCEPT ![s] = k0]
    BY <1>1, <1>8 DEF ManageChunkSent, TypeInv, StorageOK
  <2>2. UNCHANGED <<pc, held, processing, disposed, indexClosed, reported>>
    BY <1>8 DEF ManageChunkSent
  <2>3. InHand(k0)' /\ \A k \in Chunks : ~InHand(k)
    BY <1>1, <1>8, <2>1 DEF ManageChunkSent, Unlocked, InHand, UnderwayOK
  <2>4. \A r \in Sessions : OnItsWay(r)' = OnItsWay(r)
    BY <2>2 DEF OnItsWay
  <2>5. \A r \in Sessions : pc'[r] = "requeue" => held'[r] \in reported'
    BY <1>1, <2>2 DEF SentOK
  <2>6. QED
    BY <1>1, <1>2, <1>3, <2>1, <2>2, <2>3, <2>4, <2>5, SentStays DEF UnderwayOK
<1>9. CASE HandsToIndexer(s)
  <2>1. /\ UNCHANGED <<pc, held, sent, disposed, indexClosed, reported>>
        /\ indexFeed' = Append(indexFeed, reading[s]) /\ reading[s] \in Chunks
        /\ \A k \in Chunks : processing'[k] > 0 => processing[k] > 0
    BY <1>1, <1>9 DEF HandsToIndexer, UnderwayOK, LockOK
  <2>2. \A k \in Chunks : reading[s] = k => Over(k)'
    <3>1. reading[s] \in ToSet(indexFeed')
      BY <1>1, <2>1, HoldsAppended DEF TypeInv, IndexingOK
    <3>2. QED
      BY <3>1 DEF Over
  <2>3. \A k \in Chunks : InHand(k) => reading[s] = k
    BY <1>1, <1>9 DEF HandsToIndexer, InHand, LockOK, UnderwayOK
  <2>4. \A r \in Sessions : OnItsWay(r)' = OnItsWay(r)
    BY <2>1 DEF OnItsWay
  <2>5. \A r \in Sessions : pc'[r] = "requeue" => held'[r] \in reported'
    BY <1>1, <2>1 DEF SentOK
  <2>6. QED
    BY <1>1, <1>2, <1>3, <2>1, <2>2, <2>3, <2>4, <2>5, SentStays DEF UnderwayOK
<1>10. CASE IndexerRefuses(s)
  <2>1. /\ UNCHANGED <<pc, held, sent, disposed, reported, indexClosed, cancelled>>
        /\ cancelled \/ indexClosed
    BY <1>10 DEF IndexerRefuses
  <2>2. Interrupted' \/ indexClosed'
    BY <2>1 DEF Interrupted
  <2>3. \A r \in Sessions : pc'[r] = "requeue" => held'[r] \in reported'
    BY <1>1, <2>1 DEF SentOK
  <2>4. QED
    BY <2>2, <2>3 DEF SentOK
<1>11. CASE \/ ConsumeReturns(s) \/ ConsumeBegins(s) \/ TakesFeed(s)
            \/ CancelledOutside(s) \/ CancelledInside(s) \/ LeavesLoop(s)
            \/ HandsBack(s) \/ SendFails(s) \/ AfterTask(s) \/ EndFails(s)
            \/ ConfirmationIgnored(s) \/ SessionFails(s) \/ SessionBreaks(s)
  <2>1. /\ UNCHANGED <<processing, sent, disposed, reading, reported>>
        /\ indexClosed => indexClosed'
        /\ pc'[s] = "requeue" => pc[s] = "requeue" /\ held'[s] = held[s]
        /\ \A r \in Sessions \ {s} : held'[r] = held[r]
        /\ \/ ~OnItsWay(s)
           \/ held'[s] = held[s] /\ pc'[s] = pc[s]
           \/ cancelled'
           \/ pc'[s] = "faulted"
    <3>1. CASE Sweeps(s) \/ DataBackupDone(s)
      <4>1. /\ UNCHANGED <<processing, sent, disposed, reading, reported>>
            /\ indexClosed => indexClosed'
        <5>1. UNCHANGED <<processing, sent, disposed, reading, reported>>
          BY <3>1 DEF Sweeps, DataBackupDone
        <5>2. CASE Sweeps(s)
          BY <5>1, <5>2 DEF Sweeps
        <5>3. CASE DataBackupDone(s)
          BY <5>1, <5>3, Zenon DEF DataBackupDone
        <5>4. QED
          BY <3>1, <5>2, <5>3
      <4>2. /\ pc[s] \in {"after", "emptied"} /\ pc'[s] \in {"swept", "idle"}
            /\ \A r \in Sessions \ {s} : held'[r] = held[r]
        BY <1>1, <3>1 DEF Sweeps, DataBackupDone, PlacesOK, WorkingOK
      <4>3. QED
        BY <4>1, <4>2 DEF OnItsWay
    <3>2. CASE ~Sweeps(s) /\ ~DataBackupDone(s)
      <4>1. UNCHANGED <<processing, sent, disposed, reading, reported, indexClosed, held>>
        BY <1>11, <3>2
        DEF ConsumeReturns, ConsumeBegins, TakesFeed, CancelledOutside, CancelledInside,
            LeavesLoop, HandsBack, SendFails, AfterTask, AsksAgain, EndsSession,
            SeesNoFeeds, EndFails, ConfirmationIgnored, SessionFails, SessionBreaks
      <4>2. /\ pc'[s] = "requeue" => pc[s] = "requeue"
            /\ ~OnItsWay(s) \/ pc'[s] = pc[s] \/ cancelled' \/ pc'[s] = "faulted"
        BY <1>1, <1>11, <3>2
        DEF ConsumeReturns, ConsumeBegins, TakesFeed, CancelledOutside, CancelledInside,
            LeavesLoop, HandsBack, SendFails, AfterTask, AsksAgain, EndsSession,
            SeesNoFeeds, EndFails, ConfirmationIgnored, SessionFails, SessionBreaks,
            PlacesOK, OnItsWay
      <4>3. QED
        BY <4>1, <4>2
    <3>3. QED
      BY <3>1, <3>2
  <2>2. ~Interrupted' => ~OnItsWay(s) \/ (held'[s] = held[s] /\ pc'[s] = pc[s])
    BY <2>1 DEF Interrupted
  <2>3. \A k \in Chunks : InHand(k)' = InHand(k)
    BY <2>1 DEF InHand
  <2>4. ~Interrupted' => \A r \in Sessions, k \in Chunks : OnItsWay(r) /\ held[r] = k =>
          OnItsWay(r)' /\ held'[r] = k
    BY <1>4, <2>1, <2>2 DEF OnItsWay
  <2>5. \A r \in Sessions : pc'[r] = "requeue" => held'[r] \in reported'
    BY <1>1, <1>4, <2>1 DEF SentOK
  <2>6. QED
    BY <1>1, <1>2, <1>3, <2>1, <2>3, <2>4, <2>5, SentStays DEF UnderwayOK
<1>12. QED
  BY <1>5, <1>6, <1>7, <1>8, <1>9, <1>10, <1>11 DEF SessionStep, Consume, Read

-----------------------------------------------------------------------------
(* The end of the data.                                                    *)

\* Sets of the same size: nothing is missed by a function that repeats nothing.
LEMMA NoneMissed ==
  ASSUME NEW n \in Nat, NEW f \in [1..n -> 1..n],
         \A i, j \in 1..n : f[i] = f[j] => i = j
  PROVE  \A q \in 1..n : \E i \in 1..n : f[i] = q
<1>1. IsFiniteSet(1..n)
  BY FS_Interval
<1>2. f \in Injection(1..n, 1..n)
  BY DEF Injection, IsInjective
<1>3. f \in Surjection(1..n, 1..n)
  BY <1>1, <1>2, FS_Injection
<1>4. QED
  BY <1>3 DEF Surjection

\* A consumer that has seen no feed and no other consumer is right: every chunk
\* is with the indexer, in the index, or reported.
LEMMA NothingLeft ==
  ASSUME TypeInv, ChunksInv, FeedsInv, JobInv, Parallelism = Len(Drives),
         NEW s \in Sessions, pc[s] = "emptied", NoConsumerLeft,
         ~Interrupted, ~indexClosed, NEW k \in Chunks
  PROVE  Over(k)
<1> USE ConstantsAssumption DEF Threads
<1>1. /\ PlacesOK /\ ProductionOK /\ FeedsOK /\ WorkOK
      /\ TodoOK /\ SomePlace /\ LabelsOK
      /\ Alone /\ PlaceOK /\ FirstOK /\ TakersOK /\ DrainedOK /\ SentOK
  BY DEF TypeInv, ChunksInv, FeedsInv, JobInv
<1>2. /\ \A p \in Producers : pc[p] \notin Windows
      /\ pc[HubReader] # "registering"
      /\ \A r \in Sessions : reading[r] = NoChunk
  BY <1>1 DEF Alone, Windows
<1>3. feeds = <<>> /\ \A r \in Sessions : ~Running(r)
  BY <1>1, <1>2 DEF PlaceOK, NoConsumerLeft
<1>4. \A p \in Producers : Announced(p) => p \in closed /\ buffer[p] = <<>>
  <2>1. \A r \in Sessions : ~AtWork(r)
    BY <1>3 DEF AtWork, Running
  <2>2. 1..Len(feeds) = {}
    BY <1>3
  <2>3. QED
    BY <1>1, <2>1, <2>2 DEF SomePlace, Completed
<1>5. \A w \in Producers \cup Sessions : pc[w] \notin {"faulted", "failing", "dead"}
  BY <1>1 DEF PlaceOK, Interrupted
<1>6. 1..Parallelism \subseteq Producers /\ Parallelism \in Nat
  BY FS_CardinalityType
<1>7. \A p \in 1..Parallelism : Announced(p)
  BY <1>1, <1>2, <1>5, <1>6 DEF FirstOK, PlacesOK, ProducerPlaces, Announced, Windows
<1>8. \A p \in 1..Parallelism :
        /\ p \in closed /\ drives[mine[p]] = <<>>
        /\ Taken(p) /\ mine[p] \in Queues
  BY <1>1, <1>4, <1>6, <1>7 DEF DrainedOK, TakersOK
<1>9. \A q \in Queues : \E p \in 1..Parallelism : mine[p] = q
  <2>1. Queues = 1..Parallelism
    BY DEF Queues
  <2>2. PICK f \in [1..Parallelism -> 1..Parallelism] :
          \A p \in 1..Parallelism : f[p] = mine[p]
    <3>1. [p \in 1..Parallelism |-> mine[p]] \in [1..Parallelism -> 1..Parallelism]
      BY <1>8, <2>1
    <3>2. QED
      BY <3>1
  <2>3. ASSUME NEW p \in 1..Parallelism, NEW r \in 1..Parallelism, f[p] = f[r]
        PROVE  p = r
    <3>1. mine[p] = mine[r] /\ Taken(p) /\ Taken(r) /\ p \in Producers /\ r \in Producers
      BY <1>6, <1>8, <2>2, <2>3
    <3>2. QED
      BY <1>1, <3>1 DEF TakersOK
  <2>4. \A q \in 1..Parallelism : \E p \in 1..Parallelism : f[p] = q
    BY ONLY <1>6, f \in [1..Parallelism -> 1..Parallelism], <2>3, NoneMissed
  <2>5. QED
    BY <2>1, <2>2, <2>4
<1>10. mega = <<>>
  <2>1. SUFFICES ASSUME mega # <<>> PROVE FALSE
    OBVIOUS
  <2>2. 1 \in 1..Len(mega) /\ mega[1] \in Queues
    BY <1>1, <2>1 DEF ProductionOK
  <2>3. PICK p \in 1..Parallelism : mine[p] = mega[1]
    BY <1>9, <2>2
  <2>4. QED
    BY <1>1, <1>6, <1>8, <2>2, <2>3 DEF TakersOK
<1>11. ASSUME NEW p \in Producers PROVE todo[p] = <<>> /\ buffer[p] = <<>>
  <2>1. CASE Unannounced(p)
    BY <1>1, <2>1 DEF Unannounced, Early, TodoOK, DrainedOK
  <2>2. CASE ~Unannounced(p)
    <3>1. Announced(p)
      BY <1>1, <1>5, <2>2 DEF PlacesOK, ProducerPlaces, Announced, Unannounced, Early
    <3>2. QED
      BY <1>1, <1>4, <3>1 DEF DrainedOK
  <2>3. QED
    BY <2>1, <2>2
<1>12. \A q \in Queues : drives[q] = <<>>
  BY <1>8, <1>9
<1>13. ~Waits(k)
  <2>1. ToSet(<<>>) = {}
    BY DEF ToSet
  <2>2. QED
    BY <1>11, <1>12, <2>1 DEF Waits
<1>14. \/ processing[k] > 0
       \/ k \in ToSet(indexFeed) \cup ToSet(index)
       \/ k \in reported
  BY <1>11, <1>13, OneOnFeed DEF ChunksInv, Found, Interrupted
<1>15. ~InHand(k)
  BY <1>2 DEF InHand
<1>16. \A r \in Sessions : ~OnItsWay(r)
  BY <1>3 DEF OnItsWay, Running
<1>17. QED
  BY <1>1, <1>14, <1>15, <1>16 DEF SentOK, Over

LEMMA ClosedStays ==
  ASSUME TypeInv, ChunksInv, FeedsInv, JobInv, Parallelism = Len(Drives),
         \/ \E p \in Producers : Produce(p)
         \/ \E s \in Sessions : SessionStep(s)
         \/ RestStep
  PROVE  ClosedOK'
<1> USE ConstantsAssumption DEF At, Goto, Threads
<1>1. ClosedOK /\ PlaceOK
  BY DEF JobInv
<1>2. SUFFICES ASSUME indexClosed', ~Interrupted' PROVE \A k \in Chunks : Over(k)'
  BY DEF ClosedOK
<1>3. ~Interrupted /\ \A k \in Chunks : Over(k) => Over(k)'
  BY <1>2, InterruptedStays, OverStays
<1>4. CASE indexClosed
  BY <1>1, <1>3, <1>4 DEF ClosedOK
<1>5. CASE ~indexClosed /\ \E s \in Sessions : DataBackupDone(s)
  BY <1>2, <1>3, <1>5, NothingLeft DEF DataBackupDone
<1>6. CASE ~indexClosed /\ ~\E s \in Sessions : DataBackupDone(s)
  <2>1. CASE \E p \in Producers : Produce(p)
    BY <1>2, <1>6, <2>1, ProduceFrame
  <2>2. CASE \E s \in Sessions : SessionStep(s)
    <3>1. PICK s \in Sessions : SessionStep(s)
      BY <2>2
    <3>2. indexClosed' = indexClosed
      BY <1>6, <3>1
      DEF SessionStep, Consume, AfterTask, Read, ConsumeReturns, ConsumeBegins, TakesFeed,
          CancelledOutside, CancelledInside, LeavesLoop, TakesChunk, HandsBack, Sends,
          SendRefused, SendBreaks, SendFails, Confirmed, TimesOut, Retries, GivesUp,
          Sweeps, AsksAgain, EndsSession, SeesNoFeeds, EndFails,
          ManageChunkSent, ConfirmationIgnored, HandsToIndexer, IndexerRefuses,
          SessionFails, SessionBreaks, indexing
    <3>3. QED
      BY <1>2, <1>6, <3>2
  <2>3. CASE RestStep
    <3>1. cancelled
      BY <1>1, <1>2, <1>6, <2>3
      DEF RestStep, SessionReceived, UnexpectedError, ErrorEnds, Index, IndexerStarts,
          Indexes, IndexerEnds, ProcessIndex, BackupDone, SendIndex, IndexSessionFails,
          IndexNotSent, Registers, CancelTask, CancelEnds, CancelsAndWaits, indexing,
          PlaceOK
    <3>2. QED
      BY <1>3, <3>1 DEF Interrupted
  <2>4. QED
    BY <2>1, <2>2, <2>3
<1>7. QED
  BY <1>4, <1>5, <1>6

-----------------------------------------------------------------------------
(* The invariant holds.                                                    *)

LEMMA JobInit ==
  ASSUME Init, FeedsFirst
  PROVE  JobInv
<1> USE ConstantsAssumption DEF Threads
<1>1. 1..Parallelism \subseteq Producers
  BY FS_CardinalityType
<1>2. /\ \A p \in Producers : pc[p] = IF p <= Parallelism THEN "begin" ELSE "off"
      /\ \A s \in Sessions : pc[s] = "none" /\ reading[s] = NoChunk
      /\ pc[HubReader] = "idle" /\ pc[Indexer] = "created"
  BY DEF Init
<1>3. \A w \in Threads : pc[w] \in {"begin", "off", "none", "idle", "created"}
  BY <1>2
<1>4. Alone
  BY <1>3 DEF Alone, Windows
<1>5. PlaceOK
  BY <1>2 DEF Init, PlaceOK, Running
<1>6. FirstOK
  BY <1>1, <1>2 DEF FirstOK
<1>7. TakersOK
  <2>1. \A p \in Producers : ~Taken(p) /\ ~Taking(p) /\ pc[p] # "created"
    BY <1>2 DEF Taken, Taking
  <2>2. \A i, j \in 1..Len(mega) : mega[i] = mega[j] => i = j
    BY DEF Init, Queues
  <2>3. QED
    BY <2>1, <2>2 DEF TakersOK
<1>8. DrainedOK
  BY DEF Init, DrainedOK
<1>9. SentOK
  BY <1>2 DEF Init, SentOK
<1>10. ClosedOK
  BY DEF Init, ClosedOK
<1>11. QED
  BY <1>4, <1>5, <1>6, <1>7, <1>8, <1>9, <1>10 DEF JobInv

LEMMA JobNext ==
  ASSUME TypeInv, ChunksInv, FeedsInv, JobInv, [Next]_vars,
         Prompt, FeedsFirst, Parallelism = Len(Drives)
  PROVE  JobInv'
<1>1. CASE UNCHANGED vars
  BY <1>1
  DEF vars, production, feedState, working, storage, tasks, underway, indexing, asked,
      ending, counters, JobInv, Alone, PlaceOK, FirstOK, TakersOK, DrainedOK, SentOK,
      ClosedOK, Running, Taken, Taking, Unannounced, Interrupted, Over, InHand, OnItsWay
<1>2. CASE \E p \in Producers : Produce(p)
  <2>1. PICK p \in Producers : Produce(p)
    BY <1>2
  <2>2. QED
    BY <1>2, <2>1, ProduceAlone, ProducePlace, FirstStays, ProduceTakers, ProduceDrained,
       ProduceSent, ClosedStays
    DEF JobInv
<1>3. CASE \E s \in Sessions : SessionStep(s)
  <2>1. PICK s \in Sessions : SessionStep(s)
    BY <1>3
  <2>2. QED
    BY <1>3, <2>1, SessionAlone, SessionPlace, FirstStays, OthersTakers, SessionDrained,
       SessionSent, ClosedStays
    DEF JobInv
<1>4. CASE RestStep
  BY <1>4, RestAlone, RestPlace, FirstStays, OthersTakers, RestDrained, RestSent,
     ClosedStays
  DEF JobInv
<1>5. QED
  BY <1>1, <1>2, <1>3, <1>4, NextSteps

LEMMA JobInvCorrect ==
  ASSUME Prompt, FeedsFirst, Parallelism = Len(Drives)
  PROVE  Spec => []JobInv
<1>1. Init => JobInv
  BY JobInit
<1>2. TypeInv /\ ChunksInv /\ FeedsInv /\ JobInv /\ [Next]_vars => JobInv'
  BY JobNext
<1>3. QED
  BY TypeInvCorrect, ChunksInvCorrect, FeedsInvCorrect, <1>1, <1>2, PTL DEF Spec

-----------------------------------------------------------------------------
(* The steps of the promise.                                               *)

jobVars == <<ToSet(index), reported, Phase>>

LEMMA PhaseStays ==
  ASSUME Interrupted => Interrupted', ~Interrupted' => job' = job /\ pc'[Indexer] = pc[Indexer]
  PROVE  Phase' = Phase \/ (Phase # "interrupted" /\ Phase' = "interrupted")
BY DEF Phase

\* A step that writes nothing and reports at most a chunk.
LEMMA PlainStep ==
  ASSUME TypeInv, index' = index,
         Phase' = Phase \/ (Phase # "interrupted" /\ Phase' = "interrupted"),
         \/ reported' = reported
         \/ /\ Phase' = Phase
            /\ \E k \in Chunks : reported' = reported \cup {k}
  PROVE  [Job!Next]_jobVars
<1>1. CASE reported' = reported
  BY <1>1 DEF Job!Next, Job!Interrupt, jobVars
<1>2. CASE Phase' = Phase /\ \E k \in Chunks : reported' = reported \cup {k}
  <2>1. PICK k \in Chunks : reported' = reported \cup {k}
    BY <1>2
  <2>2. CASE k \in reported
    BY <1>2, <2>1, <2>2 DEF jobVars
  <2>3. CASE k \notin reported
    BY <1>2, <2>1, <2>3 DEF Job!Next, Job!Report, jobVars
  <2>4. QED
    BY <2>2, <2>3
<1>3. QED
  BY <1>1, <1>2

LEMMA ProducePromise ==
  ASSUME TypeInv, NEW p \in Producers, Produce(p)
  PROVE  [Job!Next]_jobVars
<1> USE ConstantsAssumption DEF Threads
<1>1. index' = index /\ reported' = reported /\ job' = job /\ pc'[Indexer] = pc[Indexer]
  BY ProduceFrame
<1>2. Interrupted => Interrupted'
  BY InterruptedStays
<1>3. QED
  BY <1>1, <1>2, PhaseStays, PlainStep

LEMMA SessionPromise ==
  ASSUME TypeInv, NEW s \in Sessions, SessionStep(s)
  PROVE  [Job!Next]_jobVars
<1> USE ConstantsAssumption
    DEF At, Goto, production, feedState, working, storage, tasks, underway, indexing,
        asked, ending, counters, Threads
<1>1. PlacesOK /\ WorkOK
  BY DEF TypeInv
<1>2. job' = job /\ cancelled' = cancelled /\ \A w \in Threads \ {s} : pc'[w] = pc[w]
  BY SessionFrame
<1>3. index' = index
  BY DEF SessionStep, Consume, AfterTask, Read, ConsumeReturns, ConsumeBegins, TakesFeed,
         CancelledOutside, CancelledInside, LeavesLoop, TakesChunk, HandsBack, Sends,
         SendRefused, SendBreaks, SendFails, Confirmed, TimesOut, Retries, GivesUp,
         Sweeps, AsksAgain, EndsSession, SeesNoFeeds, DataBackupDone, EndFails,
         ManageChunkSent, ConfirmationIgnored, HandsToIndexer, IndexerRefuses,
         SessionFails, SessionBreaks
<1>4. Phase' = Phase \/ (Phase # "interrupted" /\ Phase' = "interrupted")
  BY <1>2, InterruptedStays, PhaseStays
<1>5. CASE Sends(s) \/ SendRefused(s) \/ SendBreaks(s) \/ TimesOut(s)
  <2>1. /\ reported' = reported \/ reported' = reported \cup {held[s]}
        /\ held[s] \in Chunks
        /\ pc[s] # "faulted" /\ pc'[s] # "faulted"
    BY <1>1, <1>5
    DEF Sends, SendRefused, SendBreaks, TimesOut, Reported, PlacesOK, WorkOK
  <2>2. Interrupted' = Interrupted
    BY <1>2, <2>1 DEF Interrupted
  <2>3. Phase' = Phase
    BY <1>2, <2>2 DEF Phase
  <2>4. QED
    BY <1>3, <2>1, <2>3, PlainStep
<1>6. CASE ~(Sends(s) \/ SendRefused(s) \/ SendBreaks(s) \/ TimesOut(s))
  <2>1. reported' = reported
    BY <1>6
    DEF SessionStep, Consume, AfterTask, Read, ConsumeReturns, ConsumeBegins, TakesFeed,
        CancelledOutside, CancelledInside, LeavesLoop, TakesChunk, HandsBack,
        SendFails, Confirmed, Retries, GivesUp,
        Sweeps, AsksAgain, EndsSession, SeesNoFeeds, DataBackupDone, EndFails,
        ManageChunkSent, ConfirmationIgnored, HandsToIndexer, IndexerRefuses,
        SessionFails, SessionBreaks
  <2>2. QED
    BY <1>3, <1>4, <2>1, PlainStep
<1>7. QED
  BY <1>5, <1>6

LEMMA RestPromise ==
  ASSUME TypeInv, JobInv, JobInv', RestStep
  PROVE  [Job!Next]_jobVars
<1> USE ConstantsAssumption DEF At, Goto, Threads
<1>1. /\ PlacesOK /\ IndexingOK /\ EndingOK /\ reported \subseteq Chunks
      /\ PlaceOK /\ ClosedOK /\ PlaceOK'
  BY DEF TypeInv, CountersOK, JobInv
<1>2. reported' = reported /\ (Interrupted => Interrupted')
  BY RestFrame
<1>3. CASE IndexerStarts \/ IndexerEnds \/ ProcessIndex \/ BackupDone \/ SendIndex
           \/ IndexSessionFails \/ IndexNotSent
  <2>1. /\ index' = index /\ cancelled' = cancelled
        /\ \A w \in Threads \ {Indexer} : pc'[w] = pc[w]
    BY <1>1, <1>3
    DEF IndexerStarts, IndexerEnds, ProcessIndex, BackupDone, SendIndex,
        IndexSessionFails, IndexNotSent, PlacesOK, indexing, ending
  <2>2. Interrupted' = Interrupted
    BY <2>1 DEF Interrupted
  <2>3. CASE Interrupted
    <3>1. Phase' = Phase
      BY <2>2, <2>3 DEF Phase
    <3>2. QED
      BY <1>2, <2>1, <3>1 DEF jobVars
  <2>4. CASE ~Interrupted /\ IndexerEnds
    <3>1. /\ pc[Indexer] = "index" /\ pc'[Indexer] = "process" /\ job' = job
          /\ indexClosed /\ indexFeed = <<>>
      BY <1>1, <2>4 DEF IndexerEnds, PlacesOK, Interrupted, ending
    <3>2. ToSet(indexFeed) = {}
      BY <3>1 DEF ToSet
    <3>3. \A k \in Chunks : k \in ToSet(index) \cup reported
      BY <1>1, <2>4, <3>1, <3>2 DEF ClosedOK, Over
    <3>4. ToSet(index) \subseteq Chunks
      BY <1>1 DEF IndexingOK, ToSet
    <3>5. Chunks = ToSet(index) \cup reported
      BY <1>1, <3>3, <3>4
    <3>6. job # "done"
      BY <1>1, <3>1 DEF PlaceOK
    <3>7. Phase = "sending" /\ Phase' = "closing"
      BY <2>2, <2>4, <3>1, <3>6 DEF Phase
    <3>8. QED
      BY <1>2, <2>1, <3>5, <3>7 DEF Job!Next, Job!Close, jobVars
  <2>5. CASE ~Interrupted /\ BackupDone
    <3>1. pc[Indexer] = "sending" /\ pc'[Indexer] = "done"
      BY <1>1, <2>5 DEF BackupDone, PlacesOK
    <3>2. job = "running"
      BY <1>1, <2>5, <3>1 DEF PlaceOK, Interrupted, EndingOK
    <3>3. job' = "done"
      BY <2>5, <3>2 DEF BackupDone
    <3>4. Phase = "closing" /\ Phase' = "done"
      BY <2>2, <2>5, <3>1, <3>2, <3>3 DEF Phase
    <3>5. QED
      BY <1>2, <2>1, <3>4 DEF Job!Next, Job!End, jobVars
  <2>6. CASE ~Interrupted /\ ~IndexerEnds /\ ~BackupDone
    <3>1. job' = job
      BY <1>3, <2>6
      DEF IndexerStarts, ProcessIndex, SendIndex, IndexSessionFails, IndexNotSent, ending
    <3>2. pc[Indexer] \in {"created", "never", "index"} <=>
            pc'[Indexer] \in {"created", "never", "index"}
      BY <1>1, <1>3, <2>6
      DEF IndexerStarts, ProcessIndex, SendIndex, IndexSessionFails, IndexNotSent, PlacesOK
    <3>3. Phase' = Phase
      BY <2>2, <3>1, <3>2 DEF Phase
    <3>4. QED
      BY <1>2, <2>1, <3>3 DEF jobVars
  <2>7. QED
    BY <2>3, <2>4, <2>5, <2>6
<1>4. CASE Indexes
  <2> DEFINE k0 == Head(indexFeed)
  <2>1. /\ UNCHANGED <<pc, cancelled, job>> /\ pc[Indexer] = "index"
        /\ index' = Append(index, k0) /\ k0 \in Chunks
    BY <1>1, <1>4 DEF Indexes, IndexingOK, ending
  <2> HIDE DEF k0
  <2>2. ToSet(index') = ToSet(index) \cup {k0}
    BY <1>1, <2>1, HoldsAppended DEF IndexingOK
  <2>3. Phase' = Phase
    BY <2>1 DEF Phase, Interrupted
  <2>4. Phase \in {"sending", "interrupted"}
    BY <1>1, <2>1 DEF Phase, PlaceOK
  <2>5. CASE k0 \in ToSet(index)
    BY <1>2, <2>2, <2>3, <2>5 DEF jobVars
  <2>6. CASE k0 \notin ToSet(index)
    BY <1>2, <2>1, <2>2, <2>3, <2>4, <2>6 DEF Job!Next, Job!Index, jobVars
  <2>7. QED
    BY <2>5, <2>6
<1>5. CASE \/ \E s \in Sessions : SessionReceived(s)
           \/ \E w \in Producers \cup Sessions : UnexpectedError(w) \/ ErrorEnds(w)
           \/ Registers \/ CancelTask \/ CancelEnds
  <2>1. index' = index /\ pc'[Indexer] = pc[Indexer]
    BY <1>1, <1>5
    DEF SessionReceived, UnexpectedError, ErrorEnds, Registers, CancelTask, CancelEnds,
        CancelsAndWaits, PlacesOK, indexing
  <2>2. job' = job \/ job' = "cancelled"
    BY <1>5
    DEF SessionReceived, UnexpectedError, ErrorEnds, Registers, CancelTask, CancelEnds,
        ending
  <2>3. ~Interrupted' => job' = job
    BY <1>1, <2>2 DEF PlaceOK, Interrupted
  <2>4. QED
    BY <1>2, <2>1, <2>3, PhaseStays, PlainStep
<1>6. QED
  BY <1>3, <1>4, <1>5 DEF RestStep, Index

\* Each chunk goes into the index at most once or is given up with a report to
\* the hub, and unless the job is interrupted its index is closed, and the hub
\* told that it has ended, only when every chunk is one or the other: whatever
\* connections fail, confirmations come late or are lost, and sessions the hub
\* grants, when the short windows are left undisturbed, the first sessions come
\* after the first feeds, and there is a first producer for each queue of drives.
THEOREM PipelineIsBackupJob ==
  ASSUME Prompt, FeedsFirst, Parallelism = Len(Drives)
  PROVE  Spec => ImplementsBackupJob
<1>1. Init => Job!Init
  <2>1. SUFFICES ASSUME Init PROVE Job!Init
    OBVIOUS
  <2>2. ToSet(index) = {} /\ reported = {}
    BY <2>1 DEF Init, ToSet
  <2>3. ~Interrupted /\ pc[Indexer] = "created" /\ job = "running"
    BY <2>1, ConstantsAssumption DEF Init, Interrupted, Threads
  <2>4. QED
    BY <2>2, <2>3 DEF Job!Init, Phase
<1>2. TypeInv /\ JobInv /\ JobInv' /\ [Next]_vars => [Job!Next]_jobVars
  <2>1. SUFFICES ASSUME TypeInv, JobInv, JobInv', [Next]_vars PROVE [Job!Next]_jobVars
    OBVIOUS
  <2>2. CASE UNCHANGED vars
    BY <2>2 DEF vars, indexing, counters, ending, jobVars, Phase, Interrupted
  <2>3. CASE Next
    BY <2>1, <2>3, NextSteps, ProducePromise, SessionPromise, RestPromise
  <2>4. QED
    BY <2>1, <2>2, <2>3
<1>3. TypeInv /\ JobInv /\ JobInv' /\ [Next]_vars => [Job!Next]_(Job!vars)
  BY <1>2 DEF jobVars, Job!vars
<1>4. QED
  BY TypeInvCorrect, JobInvCorrect, <1>1, <1>3, PTL
  DEF Spec, ImplementsBackupJob, Job!Spec

-----------------------------------------------------------------------------
(* The index.                                                              *)

LEMMA IndexGrows ==
  ASSUME TypeInv,
         \/ \E p \in Producers : Produce(p)
         \/ \E s \in Sessions : SessionStep(s)
         \/ RestStep
  PROVE  /\ reported \subseteq reported' /\ ToSet(index) \subseteq ToSet(index')
         /\ pc'[Indexer] \in {"process", "asked", "sending", "done"} =>
              IndexerEnds \/ pc[Indexer] \in {"process", "asked", "sending", "done"}
<1> USE ConstantsAssumption DEF At, Goto, Threads
<1>1. PlacesOK /\ IndexingOK
  BY DEF TypeInv
<1>2. CASE \E p \in Producers : Produce(p)
  BY <1>2, ProduceFrame
<1>3. CASE \E s \in Sessions : SessionStep(s)
  <2>1. PICK s \in Sessions : SessionStep(s)
    BY <1>3
  <2>2. pc'[Indexer] = pc[Indexer]
    BY <2>1, SessionFrame
  <2>3. index' = index /\ reported \subseteq reported'
    BY <2>1
    DEF SessionStep, Consume, AfterTask, Read, ConsumeReturns, ConsumeBegins, TakesFeed,
        CancelledOutside, CancelledInside, LeavesLoop, TakesChunk, HandsBack, Sends,
        SendRefused, SendBreaks, SendFails, Confirmed, TimesOut, Retries, GivesUp,
        Sweeps, AsksAgain, EndsSession, SeesNoFeeds, DataBackupDone, EndFails,
        ManageChunkSent, ConfirmationIgnored, HandsToIndexer, IndexerRefuses,
        SessionFails, SessionBreaks, Reported, indexing, counters
  <2>4. QED
    BY <2>2, <2>3
<1>4. CASE RestStep
  <2>1. reported' = reported
    BY <1>4, RestFrame
  <2>2. CASE Indexes
    <3>1. /\ pc' = pc /\ index' = Append(index, Head(indexFeed))
          /\ Head(indexFeed) \in Chunks
      BY <1>1, <2>2 DEF Indexes, IndexingOK
    <3>2. ToSet(index') = ToSet(index) \cup {Head(indexFeed)}
      BY <1>1, <3>1, HoldsAppended DEF IndexingOK
    <3>3. QED
      BY <2>1, <3>1, <3>2
  <2>3. CASE ~Indexes
    <3>1. index' = index
      BY <1>4, <2>3
      DEF RestStep, SessionReceived, UnexpectedError, ErrorEnds, Index, IndexerStarts,
          IndexerEnds, ProcessIndex, BackupDone, SendIndex, IndexSessionFails,
          IndexNotSent, Registers, CancelTask, CancelEnds, CancelsAndWaits, indexing
    <3>2. pc'[Indexer] \in {"process", "asked", "sending", "done"} =>
            IndexerEnds \/ pc[Indexer] \in {"process", "asked", "sending", "done"}
      BY <1>1, <1>4, <2>3
      DEF RestStep, SessionReceived, UnexpectedError, ErrorEnds, Index, IndexerStarts,
          ProcessIndex, BackupDone, SendIndex, IndexSessionFails,
          IndexNotSent, Registers, CancelTask, CancelEnds, CancelsAndWaits, PlacesOK
    <3>3. QED
      BY <2>1, <3>1, <3>2
  <2>4. QED
    BY <2>2, <2>3
<1>5. QED
  BY <1>2, <1>3, <1>4

\* The index is built after the last chunk: ProcessIndex finds every chunk of the
\* backup in the index or reported, unless the job is interrupted, under the
\* same conditions. Without FeedsFirst the first session that finds no feed
\* closes the index.
THEOREM IndexComesLast ==
  ASSUME Prompt, FeedsFirst, Parallelism = Len(Drives)
  PROVE  Spec => []IndexAfterLastChunk
<1>1. Init => IndexAfterLastChunk
  BY ConstantsAssumption DEF Init, IndexAfterLastChunk, Threads
<1>2. TypeInv /\ JobInv /\ IndexAfterLastChunk /\ [Next]_vars => IndexAfterLastChunk'
  <2>1. SUFFICES ASSUME TypeInv, JobInv, IndexAfterLastChunk, [Next]_vars
                 PROVE  IndexAfterLastChunk'
    OBVIOUS
  <2>2. CASE UNCHANGED vars
    BY <2>1, <2>2
    DEF vars, indexing, counters, ending, IndexAfterLastChunk, Interrupted
  <2>3. CASE Next
    <3>1. SUFFICES ASSUME pc'[Indexer] \in {"process", "asked", "sending", "done"},
                          ~Interrupted'
                   PROVE  Chunks \subseteq ToSet(index') \cup reported'
      BY DEF IndexAfterLastChunk
    <3>2. ~Interrupted
      BY <2>1, <2>3, <3>1, NextSteps, InterruptedStays
    <3>3. /\ reported \subseteq reported' /\ ToSet(index) \subseteq ToSet(index')
          /\ IndexerEnds \/ pc[Indexer] \in {"process", "asked", "sending", "done"}
      BY <2>1, <2>3, <3>1, NextSteps, IndexGrows
    <3>4. CASE pc[Indexer] \in {"process", "asked", "sending", "done"}
      BY <2>1, <3>2, <3>3, <3>4 DEF IndexAfterLastChunk
    <3>5. CASE IndexerEnds
      <4>1. indexClosed /\ indexFeed = <<>>
        BY <3>2, <3>5 DEF IndexerEnds, Interrupted
      <4>2. ToSet(indexFeed) = {}
        BY <4>1 DEF ToSet
      <4>3. QED
        BY <2>1, <3>2, <3>3, <4>1, <4>2 DEF JobInv, ClosedOK, Over
    <3>6. QED
      BY <3>3, <3>4, <3>5
  <2>4. QED
    BY <2>1, <2>2, <2>3
<1>3. QED
  BY TypeInvCorrect, JobInvCorrect, <1>1, <1>2, PTL DEF Spec
=============================================================================
