----------------------- MODULE StorageBudgets_proofs -----------------------
(***************************************************************************)
(* The budgets of the sessions of one client: for any number of storage    *)
(* nodes of any sizes, any sessions at a time and any number of feeds and  *)
(* chunks, whatever connections between nodes fail.                        *)
(***************************************************************************)
EXTENDS StorageSessions_proofs

-----------------------------------------------------------------------------
(* Sums.                                                                   *)

Pieces(f) == UNION {{x} \X (1..f[x]) : x \in DOMAIN f}

LEMMA TotalOfPieces == \A f : Total(f) = Cardinality(Pieces(f))
BY DEF Total, Pieces

LEMMA Piece ==
  ASSUME NEW x, NEW b \in Nat
  PROVE  IsFiniteSet({x} \X (1..b)) /\ Cardinality({x} \X (1..b)) = b
<1>1. IsFiniteSet(1..b) /\ Cardinality(1..b) = b
  BY FS_Interval
<1>2. IsFiniteSet({x}) /\ Cardinality({x}) = 1
  BY FS_Singleton
<1> DEFINE S == {x}
           T == 1..b
<1>3. IsFiniteSet(S) /\ IsFiniteSet(T) /\ Cardinality(S) = 1 /\ Cardinality(T) = b
  BY <1>1, <1>2
<1> HIDE DEF S, T
<1>4. IsFiniteSet(S \X T) /\ Cardinality(S \X T) = Cardinality(S) * Cardinality(T)
  BY <1>3, FS_Product
<1>5. Cardinality(S \X T) = b
  BY <1>3, <1>4
<1>6. QED
  BY <1>4, <1>5 DEF S, T

LEMMA PiecesFinite ==
  ASSUME NEW D, IsFiniteSet(D), NEW f \in [D -> Nat]
  PROVE  IsFiniteSet(Pieces(f)) /\ Total(f) \in Nat
<1> DEFINE h == [x \in D |-> {x} \X (1..f[x])]
           T == {{x} \X (1..f[x]) : x \in DOMAIN f}
<1>1. h \in Surjection(D, T)
  BY DEF Surjection
<1>2. IsFiniteSet(T)
  BY <1>1, FS_Surjection
<1>3. \A x \in D : IsFiniteSet({x} \X (1..f[x]))
  BY Piece
<1>4. \A t \in T : IsFiniteSet(t)
  BY <1>3
<1>5. IsFiniteSet(UNION T)
  BY <1>2, <1>4, FS_UNION
<1>6. QED
  BY <1>5, FS_CardinalityType DEF Pieces, Total

\* One summand can be taken apart.
LEMMA TotalWithout ==
  ASSUME NEW D, IsFiniteSet(D), NEW f \in [D -> Nat], NEW x \in D
  PROVE  Total(f) = Total([y \in D \ {x} |-> f[y]]) + f[x]
<1> DEFINE g == [y \in D \ {x} |-> f[y]]
           P == {x} \X (1..f[x])
<1>1. IsFiniteSet(D \ {x}) /\ g \in [D \ {x} -> Nat]
  BY FS_RemoveElement
<1>2. IsFiniteSet(Pieces(g)) /\ Total(g) \in Nat
  BY <1>1, PiecesFinite
<1>3. IsFiniteSet(P) /\ Cardinality(P) = f[x]
  BY Piece
<1>4. Pieces(f) = Pieces(g) \cup P
  <2>1. \A e : e \in Pieces(f) <=> \E y \in D : e \in {y} \X (1..f[y])
    BY DEF Pieces
  <2>2. \A e : e \in Pieces(g) <=> \E y \in D \ {x} : e \in {y} \X (1..f[y])
    BY DEF Pieces
  <2>3. QED
    BY <2>1, <2>2
<1>5. Pieces(g) \cap P = {}
  BY DEF Pieces
<1> HIDE DEF g, P
<1>6. Cardinality(Pieces(f)) = Cardinality(Pieces(g)) + Cardinality(P)
  <2>1. Cardinality(Pieces(g) \cup P)
          = Cardinality(Pieces(g)) + Cardinality(P) - Cardinality(Pieces(g) \cap P)
    BY <1>2, <1>3, FS_Union
  <2>2. Cardinality(Pieces(g) \cap P) = 0
    BY <1>5, FS_EmptySet
  <2>3. Cardinality(Pieces(g)) \in Nat /\ Cardinality(P) \in Nat
    BY <1>2, <1>3, FS_CardinalityType
  <2>4. QED
    BY <1>4, <2>1, <2>2, <2>3
<1>7. QED
  BY <1>2, <1>3, <1>6, TotalOfPieces DEF g, P

LEMMA TotalOfZeros ==
  ASSUME NEW f, \A x \in DOMAIN f : f[x] = 0
  PROVE  Total(f) = 0
<1>1. Pieces(f) = {}
  BY DEF Pieces
<1>2. QED
  BY <1>1, TotalOfPieces, FS_EmptySet

LEMMA TotalOfOne ==
  ASSUME NEW x, NEW f \in [{x} -> Nat]
  PROVE  Total(f) = f[x]
<1> DEFINE g == [y \in {x} \ {x} |-> f[y]]
<1>1. Total(f) = Total(g) + f[x]
  BY FS_Singleton, TotalWithout
<1>2. Total(g) = 0
  BY TotalOfZeros
<1>3. QED
  BY <1>1, <1>2

-----------------------------------------------------------------------------
(* Messages under way.                                                     *)

Members(q) == {q[k] : k \in 1..Len(q)}
Lone(q, T) == \A j, k \in 1..Len(q) : q[j] \in T /\ q[k] \in T => j = k

LEMMA MembersType ==
  ASSUME NEW S, NEW q \in Seq(S)
  PROVE  Members(q) \subseteq S
BY DEF Members

LEMMA Empty ==
  Members(<<>>) = {} /\ \A T : Lone(<<>>, T)
BY DEF Members, Lone

LEMMA AppendedTo ==
  ASSUME NEW S, NEW q \in Seq(S), NEW m \in S
  PROVE  /\ Members(Append(q, m)) = Members(q) \cup {m}
         /\ \A T : Lone(q, T) /\ (m \notin T \/ Members(q) \cap T = {}) => Lone(Append(q, m), T)
<1> DEFINE p == Append(q, m)
<1>1. /\ Len(p) = Len(q) + 1 /\ Len(q) \in Nat
      /\ p[Len(q) + 1] = m /\ \A k \in 1..Len(q) : p[k] = q[k]
  OBVIOUS
<1> HIDE DEF p
<1>2. /\ \A k \in 1..Len(p) : k \in 1..Len(q) \/ k = Len(q) + 1
      /\ \A k \in 1..Len(q) : k \in 1..Len(p)
      /\ Len(q) + 1 \in 1..Len(p)
  BY <1>1
<1>3. Members(p) = Members(q) \cup {m}
  <2>1. \A e : e \in Members(p) <=> \E k \in 1..Len(p) : p[k] = e
    BY DEF Members
  <2>2. \A e : e \in Members(q) <=> \E k \in 1..Len(q) : q[k] = e
    BY DEF Members
  <2>3. QED
    BY <1>1, <1>2, <2>1, <2>2
<1>4. ASSUME NEW T, Lone(q, T), m \notin T \/ Members(q) \cap T = {}
      PROVE  Lone(p, T)
  <2>1. m \notin T \/ \A k \in 1..Len(q) : q[k] \notin T
    BY <1>4 DEF Members
  <2>2. QED
    BY <1>1, <1>2, <1>4, <2>1 DEF Lone
<1>5. QED
  BY <1>3, <1>4 DEF p

LEMMA TakenFrom ==
  ASSUME NEW S, NEW q \in Seq(S), q # <<>>
  PROVE  /\ Head(q) \in S /\ Tail(q) \in Seq(S)
         /\ Members(q) = Members(Tail(q)) \cup {Head(q)}
         /\ \A T : Lone(q, T) => /\ Lone(Tail(q), T)
                                 /\ Head(q) \in T => Members(Tail(q)) \cap T = {}
<1> DEFINE p == Tail(q)
<1>1. /\ Len(q) \in Nat /\ Len(q) > 0 /\ Len(p) = Len(q) - 1
      /\ Head(q) = q[1] /\ \A k \in 1..Len(p) : p[k] = q[k + 1]
  OBVIOUS
<1>2. Head(q) \in S /\ p \in Seq(S)
  OBVIOUS
<1> HIDE DEF p
<1>3. /\ 1 \in 1..Len(q)
      /\ \A k \in 1..Len(p) : k + 1 \in 1..Len(q) /\ k + 1 # 1
      /\ \A k \in 1..Len(q) : k # 1 => k - 1 \in 1..Len(p) /\ q[k] = p[k - 1]
      /\ \A j, k \in Int : j + 1 = k + 1 => j = k
  BY <1>1
<1>4. Members(q) = Members(p) \cup {Head(q)}
  <2>1. \A e : e \in Members(p) <=> \E k \in 1..Len(p) : p[k] = e
    BY DEF Members
  <2>2. \A e : e \in Members(q) <=> \E k \in 1..Len(q) : q[k] = e
    BY DEF Members
  <2>3. \A e \in Members(p) : e \in Members(q)
    BY <1>1, <1>3, <2>1, <2>2
  <2>4. \A e \in Members(q) : e = Head(q) \/ e \in Members(p)
    BY <1>1, <1>3, <2>1, <2>2
  <2>5. QED
    BY <1>1, <1>3, <2>2, <2>3, <2>4
<1>5. ASSUME NEW T, Lone(q, T)
      PROVE  /\ Lone(p, T)
             /\ Head(q) \in T => Members(p) \cap T = {}
  <2>1. Lone(p, T)
    BY <1>1, <1>3, <1>5 DEF Lone
  <2>2. ASSUME Head(q) \in T, NEW k \in 1..Len(p)
        PROVE  p[k] \notin T
    BY <1>1, <1>3, <1>5, <2>2 DEF Lone
  <2>3. QED
    BY <2>1, <2>2 DEF Members
<1>6. QED
  BY <1>2, <1>4, <1>5 DEF p

-----------------------------------------------------------------------------
(* Whose turn it is: of each session of a client, the client is using it,  *)
(* or a request that names it is on its way to the hub, or the hub answers *)
(* one, or has it created or renewed, or a grant of it is on its way; no   *)
(* two of these at a time.                                                 *)

AsksFor(i) == {m \in Messages : m.kind \in {"renewal", "alternate"} /\ m.id = i}
GrantsOf(i) == {o \in OrdersOfHub : o.kind \in {"grant", "index"} /\ o.id = i}

\* The requests of a task that has left the queue are not accepted.
Asking(n, i) == n \in queued /\ Members(fromNode[n]) \cap AsksFor(i) # {}
Answering(n, i) ==
  /\ pc[n] \in {"confirm", "release", "unlist", "remove", "lower", "choose", "renew"}
  /\ asked[n] \in AsksFor(i)
Making(n, i) == pc[n] \in {"send", "wait", "reset", "tell"} /\ creating[n].id = i
Granting(n, i) == Members(toNode[n]) \cap GrantsOf(i) # {}
Using(n, i) == conn[n][i].open /\ conn[n][i].carries # "nothing"
Reserving(n, i) == pc[n] \in {"reserve", "book", "enlist"} /\ creating[n].id = i

OneTurn(n, i) ==
  /\ n \in queued => Lone(fromNode[n], AsksFor(i))
  /\ Lone(toNode[n], GrantsOf(i))
  /\ Asking(n, i) => ~Answering(n, i) /\ ~Making(n, i) /\ ~Granting(n, i) /\ ~Using(n, i)
  /\ Answering(n, i) => ~Making(n, i) /\ ~Granting(n, i) /\ ~Using(n, i)
  /\ Making(n, i) => ~Granting(n, i) /\ ~Using(n, i)
  /\ Granting(n, i) => ~Using(n, i)

\* A session the client has been told of is in the hub's list, until the task leaves
\* the queue.
ListedInTurn(n, i) ==
  n \in queued /\ (Asking(n, i) \/ Granting(n, i) \/ Using(n, i)) =>
    Known(i) \/ Reserving(n, i)

\* All that is known of a session, on the hub, on its way and on the client, says that
\* it leads to the same storage node.
Leads(n, i, s) ==
  \/ conn[n][i].open /\ conn[n][i].store = s
  \/ \E o \in Members(toNode[n]) \cap GrantsOf(i) : o.store = s
  \/ Creates(n, i) /\ creating[n].store = s
  \/ Known(i) /\ session[i].store = s
OnePlace(n, i) == \A s, t \in Stores : Leads(n, i, s) /\ Leads(n, i, t) => s = t

\* The session that is renewed stays with its storage node.
RenewedOK(n, i) ==
  Creates(n, i) /\ creating[n].renews => session[i].store = creating[n].store

InTurn(n, i) ==
  OneTurn(n, i) /\ ListedInTurn(n, i) /\ OnePlace(n, i) /\ RenewedOK(n, i)
TurnInv == Regular => \A n \in Clients, i \in Ids : InTurn(n, i)

\* What is renewed, and what is removed, was asked for.
RenewalOK ==
  \A n \in Clients :
    /\ pc[n] = "renew" => asked[n].kind = "renewal"
    /\ pc[n] \in {"unlist", "remove", "lower"} => asked[n].kind = "alternate"

\* The scheduler removes sessions of a client whose task has left the queue.
SweepOK == Sweeping => queued = {}

\* Steps that give nobody the turn.
SameAsking(n, i) ==
  /\ queued' \subseteq queued
  /\ n \in queued' => /\ Members(fromNode'[n]) \cap AsksFor(i) \subseteq Members(fromNode[n])
                      /\ Lone(fromNode[n], AsksFor(i)) => Lone(fromNode'[n], AsksFor(i))
SameGranting(n, i) ==
  /\ Members(toNode'[n]) \cap GrantsOf(i) \subseteq Members(toNode[n])
  /\ Lone(toNode[n], GrantsOf(i)) => Lone(toNode'[n], GrantsOf(i))
SameThread(n, i) ==
  /\ Answering(n, i)' => Answering(n, i)
  /\ Making(n, i)' => Making(n, i)
  /\ Reserving(n, i) => Reserving(n, i)'
  /\ Creates(n, i)' => /\ Creates(n, i) /\ creating'[n].store = creating[n].store
                       /\ creating'[n].renews = creating[n].renews
SameConn(n, i) ==
  /\ Using(n, i)' => Using(n, i)
  /\ conn'[n][i].open => conn[n][i].open /\ conn'[n][i].store = conn[n][i].store
SameList(n, i) ==
  /\ Known(i)' => Known(i)
  /\ session'[i].store = session[i].store
  /\ n \in queued' /\ Known(i) => Known(i)' \/ Answering(n, i)

Same(n, i) ==
  /\ SameAsking(n, i) /\ SameGranting(n, i) /\ SameThread(n, i)
  /\ SameConn(n, i) /\ SameList(n, i)

LEMMA KeepsTurn ==
  ASSUME NEW n \in Clients, NEW i \in Ids, Same(n, i), InTurn(n, i)
  PROVE  InTurn(n, i)'
<1>0. OneTurn(n, i) /\ ListedInTurn(n, i) /\ OnePlace(n, i) /\ RenewedOK(n, i)
  BY DEF InTurn
<1>1. /\ Asking(n, i)' => Asking(n, i)
      /\ Granting(n, i)' => Granting(n, i)
      /\ n \in queued' => n \in queued /\ Lone(fromNode[n], AsksFor(i))
      /\ Lone(toNode[n], GrantsOf(i))
  BY <1>0 DEF Same, SameAsking, SameGranting, Asking, Granting, OneTurn
<1>2. OneTurn(n, i)'
  BY <1>0, <1>1 DEF OneTurn, Same, SameAsking, SameGranting, SameThread, SameConn
<1>3. ListedInTurn(n, i)'
  BY <1>0, <1>1 DEF ListedInTurn, OneTurn, Same, SameThread, SameConn, SameList
<1>4. \A s : Leads(n, i, s)' => Leads(n, i, s)
  BY DEF Leads, Same, SameGranting, SameThread, SameConn, SameList
<1>5. RenewedOK(n, i)'
  BY <1>0 DEF RenewedOK, Same, SameThread, SameList
<1>6. QED
  BY <1>0, <1>2, <1>3, <1>4, <1>5 DEF InTurn, OnePlace

\* A session that is not in use is nobody's turn, as far as the hub still listens.
LEMMA Unused ==
  ASSUME NEW n \in Clients, NEW i \in Ids, ~InUse(i), pc[n] = "create",
         ListedInTurn(n, i), TypeInv
  PROVE  /\ ~Asking(n, i) /\ ~Answering(n, i) /\ ~Making(n, i) /\ ~Granting(n, i)
         /\ ~Using(n, i) /\ ~conn[n][i].open /\ ~Known(i)
<1>1. ~Known(i) /\ Granted(n, i) = {} /\ ~conn[n][i].open
  BY DEF InUse
<1>2. ~Granting(n, i)
  <2>1. toNode[n] \in Seq(OrdersOfHub)
    BY DEF TypeInv, WiresOK, Nodes
  <2>2. DOMAIN toNode[n] = 1..Len(toNode[n])
    BY <2>1
  <2>3. QED
    BY <1>1, <2>2 DEF Granting, Granted, GrantsOf, Members
<1>3. ~Asking(n, i)
  BY <1>1 DEF ListedInTurn, Reserving, Asking
<1>4. QED
  BY <1>1, <1>2, <1>3 DEF Answering, Making, Using

-----------------------------------------------------------------------------
(* What messages do to the turn.                                           *)

LEMMA HubGets ==
  ASSUME TypeInv, NEW n \in Clients, NEW i \in Ids, queued' = queued,
         NEW x \in Nodes, NEW m \in Messages, SendHub(x, m), x # n \/ m \notin AsksFor(i)
  PROVE  SameAsking(n, i)
<1>1. fromNode \in [Nodes -> Seq(Messages)] /\ n \in Nodes
  BY DEF TypeInv, WiresOK, Nodes
<1>2. fromNode'[n] = fromNode[n] \/ (x = n /\ fromNode'[n] = Append(fromNode[n], m))
  BY <1>1 DEF SendHub
<1>3. QED
  <2>1. /\ Members(Append(fromNode[n], m)) = Members(fromNode[n]) \cup {m}
        /\ \A T : Lone(fromNode[n], T) /\ m \notin T => Lone(Append(fromNode[n], m), T)
    BY <1>1, AppendedTo
  <2>2. QED
    BY <1>2, <2>1 DEF SameAsking

LEMMA HubReads ==
  ASSUME TypeInv, NEW n \in Clients, NEW i \in Ids, queued' = queued,
         NEW x \in Nodes, NEW kinds, Reads(x, kinds)
  PROVE  SameAsking(n, i)
<1>1. fromNode \in [Nodes -> Seq(Messages)] /\ n \in Nodes
  BY DEF TypeInv, WiresOK, Nodes
<1>2. \/ fromNode'[n] = fromNode[n]
      \/ fromNode[n] # <<>> /\ fromNode'[n] = Tail(fromNode[n])
  BY <1>1 DEF Reads
<1>3. QED
  <2>1. fromNode[n] # <<>> =>
          /\ Members(Tail(fromNode[n])) \subseteq Members(fromNode[n])
          /\ \A T : Lone(fromNode[n], T) => Lone(Tail(fromNode[n]), T)
    BY <1>1, TakenFrom
  <2>2. QED
    BY <1>2, <2>1 DEF SameAsking

LEMMA NodeGets ==
  ASSUME TypeInv, NEW n \in Clients, NEW i \in Ids,
         NEW x \in Nodes, NEW o \in OrdersOfHub, SendNode(x, o), x # n \/ o \notin GrantsOf(i)
  PROVE  SameGranting(n, i)
<1>1. toNode \in [Nodes -> Seq(OrdersOfHub)] /\ n \in Nodes
  BY DEF TypeInv, WiresOK, Nodes
<1>2. toNode'[n] = toNode[n] \/ (x = n /\ toNode'[n] = Append(toNode[n], o))
  BY <1>1 DEF SendNode
<1>3. QED
  <2>1. /\ Members(Append(toNode[n], o)) = Members(toNode[n]) \cup {o}
        /\ \A T : Lone(toNode[n], T) /\ o \notin T => Lone(Append(toNode[n], o), T)
    BY <1>1, AppendedTo
  <2>2. QED
    BY <1>2, <2>1 DEF SameGranting

LEMMA NodeTakes ==
  ASSUME TypeInv, NEW n \in Clients, NEW i \in Ids,
         NEW x \in Nodes, NEW kinds, Receives(x, kinds)
  PROVE  SameGranting(n, i)
<1>1. toNode \in [Nodes -> Seq(OrdersOfHub)] /\ n \in Nodes
  BY DEF TypeInv, WiresOK, Nodes
<1>2. \/ toNode'[n] = toNode[n]
      \/ toNode[n] # <<>> /\ toNode'[n] = Tail(toNode[n])
  BY <1>1 DEF Receives
<1>3. QED
  <2>1. toNode[n] # <<>> =>
          /\ Members(Tail(toNode[n])) \subseteq Members(toNode[n])
          /\ \A T : Lone(toNode[n], T) => Lone(Tail(toNode[n]), T)
    BY <1>1, TakenFrom
  <2>2. QED
    BY <1>2, <2>1 DEF SameGranting

LEMMA NothingSaid ==
  ASSUME NEW n \in Clients, NEW i \in Ids
  PROVE  /\ UNCHANGED <<queued, fromNode>> => SameAsking(n, i)
         /\ UNCHANGED toNode => SameGranting(n, i)
         /\ UNCHANGED conn => SameConn(n, i)
         /\ UNCHANGED <<pc, asked, creating>> => SameThread(n, i)
         /\ UNCHANGED session => SameList(n, i)
BY DEF SameAsking, SameGranting, SameConn, SameThread, SameList, Answering, Making,
       Reserving, Creates, Using, Known

-----------------------------------------------------------------------------
(* Steps that give nobody the turn.                                        *)

\* A thread that goes on to something else, or goes on with what it does.
LEMMA ThreadGoesOn ==
  ASSUME TypeInv, NEW n \in Clients, NEW i \in Ids, creating'[n] = creating[n],
         pc[n] \in {"reserve", "book", "enlist"} => pc'[n] \in {"reserve", "book", "enlist"},
         \/ pc'[n] = pc[n] /\ asked'[n] = asked[n]
         \/ pc'[n] \in {"idle", "ring", "create"}
         \/ pc[n] \in {"reserve", "book"} /\ pc'[n] \in {"book", "enlist"}
         \/ pc'[n] \in {"confirm", "choose"} /\ asked'[n].kind \notin {"renewal", "alternate"}
         \/ /\ pc[n] \in {"confirm", "release", "unlist", "remove", "lower"}
            /\ asked'[n] = asked[n]
            /\ pc'[n] \in {"release", "unlist", "remove", "lower", "choose", "renew"}
         \/ pc[n] \in {"send", "wait", "reset"} /\ pc'[n] \in {"wait", "reset", "tell"}
  PROVE  SameThread(n, i)
<1>1. Answering(n, i)' => Answering(n, i)
  BY DEF Answering, AsksFor
<1>2. Making(n, i)' => Making(n, i)
  BY DEF Making
<1>3. Reserving(n, i) => Reserving(n, i)'
  BY DEF Reserving
<1>4. Creates(n, i)' => Creates(n, i)
  BY DEF Creates
<1>5. QED
  BY <1>1, <1>2, <1>3, <1>4 DEF SameThread

LEMMA HubKeepsTurn ==
  ASSUME TypeInv, NEW n \in Clients, Clients = {n}, NEW i \in Ids, NEW x \in Nodes,
         \/ ConfirmsUsage(x) \/ ReleasesReserved(x) \/ HandleReady(x) \/ Rings(x)
         \/ x \in Clients /\ (\/ AskStorage(x) \/ TaskDone(x) \/ FindsSession(x)
                              \/ LowersLoad(x) \/ ChoiceFails(x) \/ CreatedAll(x)
                              \/ Woken(x) \/ Resets(x) \/ ReadsReserved(x)
                              \/ Reserves(x) \/ RaisesLoad(x))
  PROVE  Same(n, i)
<1>1. pc \in [Nodes -> Labels] /\ asked \in [Nodes -> Messages] /\ n \in Nodes
  BY DEF TypeInv, LabelsOK, LocalsOK, Nodes
<1>2. UNCHANGED <<session, queued, toNode, conn, creating>>
  <2>1. CASE ConfirmsUsage(x) \/ ReleasesReserved(x) \/ HandleReady(x) \/ Rings(x)
    BY <2>1
    DEF ConfirmsUsage, ReleasesReserved, HandleReady, Rings, hubState, tasks, locals, wires,
        clientState
  <2>2. CASE \/ AskStorage(x) \/ TaskDone(x) \/ FindsSession(x) \/ LowersLoad(x)
             \/ ChoiceFails(x) \/ CreatedAll(x)
    BY <2>2
    DEF AskStorage, TaskDone, FindsSession, LowersLoad, ChoiceFails, CreatedAll, hubState,
        tasks, locals, wires, clientState
  <2>3. CASE \/ Woken(x) \/ Resets(x) \/ ReadsReserved(x) \/ Reserves(x) \/ RaisesLoad(x)
    BY <2>3
    DEF Woken, Resets, ReadsReserved, Reserves, RaisesLoad, hubState, tasks, locals, wires,
        clientState
  <2>4. QED
    BY <2>1, <2>2, <2>3
<1>3. SameAsking(n, i)
  <2>1. CASE UNCHANGED fromNode
    BY <1>2, <2>1, NothingSaid
  <2>2. CASE \E kinds : Reads(x, kinds)
    BY <1>2, <2>2, HubReads
  <2>3. QED
    BY <2>1, <2>2
    DEF ConfirmsUsage, ReleasesReserved, HandleReady, Rings, AskStorage, TaskDone,
        FindsSession, LowersLoad, ChoiceFails, CreatedAll, Woken, Resets, ReadsReserved,
        Reserves, RaisesLoad, wires
<1>4. SameThread(n, i)
  <2>1. CASE ConfirmsUsage(x) \/ ReleasesReserved(x)
    <3>1. asked' = asked /\ pc[x] \in {"confirm", "release"}
          /\ pc'[x] \in {"idle", "release", "renew", "unlist", "choose"}
      BY <1>1, <2>1
      DEF ConfirmsUsage, ReleasesReserved, AfterUsage, Answer, At, Goto, locals
    <3>2. x # n => pc'[n] = pc[n]
      BY <1>1, <2>1 DEF ConfirmsUsage, ReleasesReserved, Goto
    <3>3. QED
      BY <1>2, <3>1, <3>2, ThreadGoesOn
  <2>2. CASE HandleReady(x) \/ Rings(x)
    <3>1. asked' = asked /\ pc[x] \in {"idle", "ring"} /\ pc'[x] \in {"idle", "ring"}
      BY <1>1, <2>2 DEF HandleReady, Rings, Reads, At, Goto, locals
    <3>2. x # n => pc'[n] = pc[n]
      BY <1>1, <2>2 DEF HandleReady, Rings, Goto
    <3>3. QED
      BY <1>2, <3>1, <3>2, ThreadGoesOn
  <2>3. CASE x \in Clients /\ AskStorage(x)
    <3>1. x = n /\ pc[n] = "idle"
      BY <2>3 DEF AskStorage, Reads, At
    <3>2. \/ pc'[n] = pc[n] /\ asked'[n] = asked[n]
          \/ pc'[n] = "choose" /\ asked'[n].kind \in {"first", "index"}
      BY <1>1, <2>3, <3>1 DEF AskStorage, Reads, Goto
    <3>3. QED
      BY <1>2, <3>1, <3>2, ThreadGoesOn
  <2>4. CASE x \in Clients /\ (\/ TaskDone(x) \/ ChoiceFails(x) \/ CreatedAll(x)
                               \/ RaisesLoad(x))
    <3>1. x = n /\ pc[n] \in {"idle", "choose", "create", "raise"}
          /\ pc'[n] \in {"idle", "create"}
      BY <1>1, <2>4
      DEF TaskDone, ChoiceFails, CreatedAll, RaisesLoad, Created, Reads, At, Goto
    <3>2. QED
      BY <1>2, <3>1, ThreadGoesOn
  <2>5. CASE x \in Clients /\ (Woken(x) \/ Resets(x))
    <3>1. x = n /\ pc[n] \in {"wait", "reset"} /\ pc'[n] \in {"reset", "tell"}
      BY <1>1, <2>5 DEF Woken, Resets, At, Goto
    <3>2. QED
      BY <1>2, <3>1, ThreadGoesOn
  <2>6. CASE x \in Clients /\ (FindsSession(x) \/ LowersLoad(x))
    <3>1. x = n /\ asked' = asked /\ pc[n] \in {"unlist", "lower"}
          /\ pc'[n] \in {"idle", "remove", "choose"}
      BY <1>1, <2>6 DEF FindsSession, LowersLoad, At, Goto, locals
    <3>2. QED
      BY <1>2, <3>1, ThreadGoesOn
  <2>7. CASE x \in Clients /\ (ReadsReserved(x) \/ Reserves(x))
    <3>1. x = n /\ pc[n] \in {"reserve", "book"} /\ pc'[n] \in {"book", "enlist"}
      BY <1>1, <2>7 DEF ReadsReserved, Reserves, At, Goto
    <3>2. QED
      BY <1>2, <3>1, ThreadGoesOn
  <2>8. QED
    BY <2>1, <2>2, <2>3, <2>4, <2>5, <2>6, <2>7
<1>5. QED
  BY <1>2, <1>3, <1>4, NothingSaid DEF Same

\* A request is accepted, and the hub answers it.
LEMMA HandleSessionEventTurn ==
  ASSUME TypeInv, NEW n \in Clients, Clients = {n}, NEW i \in Ids, InTurn(n, i),
         NEW x \in Nodes, HandleSessionEvent(x)
  PROVE  InTurn(n, i)'
<1> DEFINE m == Head(fromNode[x])
<1>1. /\ pc \in [Nodes -> Labels] /\ asked \in [Nodes -> Messages] /\ n \in Nodes
      /\ fromNode \in [Nodes -> Seq(Messages)]
      /\ session \in [Ids -> Sessions]
  BY DEF TypeInv, LabelsOK, LocalsOK, WiresOK, HubOK, Nodes
<1>2. UNCHANGED <<queued, toNode, conn, creating>> /\ pc[x] = "idle"
  BY DEF HandleSessionEvent, Reads, At, tasks, clientState
<1>3. SameGranting(n, i) /\ SameConn(n, i)
  BY <1>2, NothingSaid
<1>4. SameAsking(n, i)
  BY <1>2, HubReads DEF HandleSessionEvent
<1>5. SameList(n, i)
  <2>1. session' = session \/ SetUsage(m)
    BY DEF HandleSessionEvent
  <2>2. SetUsage(m) => \A k \in Ids : /\ session'[k].listed = session[k].listed
                                      /\ session'[k].store = session[k].store
    BY <1>1 DEF SetUsage, Sessions
  <2>3. QED
    BY <2>1, <2>2 DEF SameList, Known
<1>6. pc[x] = "idle" /\ m \in Messages /\ m.kind \in {"usage", "renewal", "alternate"}
  BY ReadsType DEF HandleSessionEvent
<1>7. CASE x # n \/ ~Accepted(x, m) \/ m \notin AsksFor(i)
  <2>1. \/ x # n /\ pc'[n] = pc[n] /\ asked'[n] = asked[n]
        \/ pc' = pc /\ asked' = asked
        \/ x = n /\ pc'[n] = "confirm" /\ asked'[n] = m
    BY <1>1 DEF HandleSessionEvent, Goto
  <2>2. SameThread(n, i)
    <3>1. CASE pc'[n] = pc[n] /\ asked'[n] = asked[n]
      BY <1>2, <3>1, ThreadGoesOn
    <3>2. CASE x = n /\ pc'[n] = "confirm" /\ asked'[n] = m
      <4>1. m \notin AsksFor(i) \/ (pc' = pc /\ asked' = asked)
        BY <1>7, <3>2 DEF HandleSessionEvent
      <4>2. CASE pc' = pc /\ asked' = asked
        BY <1>2, <4>2, ThreadGoesOn
      <4>3. CASE m \notin AsksFor(i)
        <5>1. ~Answering(n, i)' /\ ~Making(n, i)' /\ ~Creates(n, i)' /\ ~Reserving(n, i)
          BY <1>2, <3>2, <4>3 DEF Answering, Making, Creates, Reserving
        <5>2. QED
          BY <5>1 DEF SameThread
      <4>4. QED
        BY <4>1, <4>2, <4>3
    <3>3. QED
      BY <2>1, <3>1, <3>2
  <2>3. QED
    BY <1>3, <1>4, <1>5, <2>2, KeepsTurn DEF Same
<1>8. CASE x = n /\ Accepted(x, m) /\ m \in AsksFor(i)
  <2>1. n \in queued /\ fromNode[n] # <<>> /\ fromNode'[n] = Tail(fromNode[n])
    BY <1>1, <1>6, <1>8 DEF Accepted, HandleSessionEvent, Reads, Messages
  <2>2. m \in Members(fromNode[n]) /\ Members(fromNode'[n]) \cap AsksFor(i) = {}
    BY <1>1, <1>8, <2>1, TakenFrom DEF InTurn, OneTurn
  <2>3. Asking(n, i) /\ ~Asking(n, i)'
    BY <1>8, <2>1, <2>2 DEF Asking
  <2>4. ~Granting(n, i) /\ ~Using(n, i)
    BY <2>3 DEF InTurn, OneTurn
  <2>5. ~Granting(n, i)' /\ ~Using(n, i)'
    BY <1>2, <2>4 DEF Granting, Using
  <2>6. pc'[n] = "confirm"
    BY <1>1, <1>8 DEF HandleSessionEvent, Goto
  <2>7. ~Making(n, i)' /\ ~Creates(n, i)' /\ ~Reserving(n, i)'
    BY <2>6 DEF Making, Creates, Reserving
  <2>8. OneTurn(n, i)'
    BY <1>3, <1>4, <2>3, <2>5, <2>7 DEF InTurn, OneTurn, SameAsking, SameGranting
  <2>9. ListedInTurn(n, i)'
    BY <2>3, <2>5 DEF ListedInTurn
  <2>10. \A s : Leads(n, i, s)' => Leads(n, i, s)
    BY <1>3, <1>5, <2>7 DEF Leads, SameGranting, SameConn, SameList
  <2>11. RenewedOK(n, i)'
    BY <2>7 DEF RenewedOK
  <2>12. QED
    BY <2>8, <2>9, <2>10, <2>11 DEF InTurn, OnePlace
<1>9. QED
  BY <1>7, <1>8

\* Another storage node is looked for, or none is found.
LEMMA ChoosesTurn ==
  ASSUME TypeInv, NEW n \in Clients, Clients = {n}, NEW i \in Ids, InTurn(n, i),
         ChooseStorage(n) \/ NoStorage(n)
  PROVE  InTurn(n, i)'
<1>1. pc \in [Nodes -> Labels] /\ n \in Nodes
  BY DEF TypeInv, LabelsOK, Nodes
<1>2. UNCHANGED <<session, queued, fromNode, conn, creating, asked>> /\ pc[n] = "choose"
      /\ pc'[n] \in {"idle", "create"}
  <2>1. CASE ChooseStorage(n)
    BY <1>1, <2>1 DEF ChooseStorage, hubState, tasks, wires, clientState, At, Goto
  <2>2. CASE NoStorage(n)
    BY <1>1, <2>2 DEF NoStorage, hubState, clientState, locals, At, Goto
  <2>3. QED
    BY <2>1, <2>2
<1>3. SameAsking(n, i) /\ SameConn(n, i) /\ SameThread(n, i) /\ SameList(n, i)
  BY <1>2, NothingSaid, ThreadGoesOn
<1>4. SameGranting(n, i)
  <2>1. CASE UNCHANGED toNode
    BY <2>1, NothingSaid
  <2>2. CASE SendNode(n, Order("cancel", n, 0, AnyStore, 0, 0))
    <3>1. Order("cancel", n, 0, AnyStore, 0, 0) \in OrdersOfHub \ GrantsOf(i)
      BY Recorded, Constants DEF Order, GrantsOf
    <3>2. QED
      BY <1>1, <2>2, <3>1, NodeGets
  <2>3. QED
    BY <2>1, <2>2 DEF ChooseStorage, NoStorage, wires
<1>5. QED
  BY <1>3, <1>4, KeepsTurn DEF Same

\* The session an alternate is asked for leaves the list: the hub answers for it.
LEMMA RemovesSessionTurn ==
  ASSUME TypeInv, NEW n \in Clients, NEW i \in Ids, InTurn(n, i), RenewalOK,
         RemovesSession(n)
  PROVE  InTurn(n, i)'
<1> DEFINE j == asked[n].id
<1>1. /\ pc \in [Nodes -> Labels] /\ asked[n] \in Messages /\ n \in Nodes
      /\ session \in [Ids -> Sessions]
  BY DEF TypeInv, LabelsOK, LocalsOK, HubOK, Nodes
<1>2. /\ UNCHANGED <<queued, fromNode, toNode, conn, creating, asked>>
      /\ session' = [session EXCEPT ![j].listed = FALSE]
  BY DEF RemovesSession, tasks, wires, clientState
<1>3. pc[n] = "remove" /\ pc'[n] = "lower"
  BY <1>1 DEF RemovesSession, At, Goto
<1>4. SameAsking(n, i) /\ SameGranting(n, i) /\ SameConn(n, i) /\ SameThread(n, i)
  BY <1>2, <1>3, NothingSaid, ThreadGoesOn
<1>5. /\ i # j => session'[i] = session[i]
      /\ session'[i].store = session[i].store
      /\ Known(i)' => Known(i)
  BY <1>1, <1>2 DEF Sessions, Known
<1>6. i = j => Answering(n, i)
  BY <1>1, <1>3 DEF Answering, AsksFor, RenewalOK
<1>7. SameList(n, i)
  BY <1>5, <1>6 DEF SameList, Known
<1>8. QED
  BY <1>4, <1>7, KeepsTurn DEF Same
\* A session is renewed, or its storage node lacks the room.
LEMMA RenewsTurn ==
  ASSUME TypeInv, NEW n \in Clients, NEW i \in Ids, InTurn(n, i), RenewalOK,
         RenewStorageSession(n)
  PROVE  InTurn(n, i)'
<1> DEFINE j == asked[n].id
           s == session[j].store
<1>1. /\ pc \in [Nodes -> Labels] /\ asked \in [Nodes -> Messages] /\ n \in Nodes
      /\ session \in [Ids -> Sessions] /\ creating \in [Clients -> Creatings]
  BY DEF TypeInv, LabelsOK, LocalsOK, HubOK, Nodes
<1>2. UNCHANGED <<queued, fromNode, toNode, conn>> /\ pc[n] = "renew"
  BY DEF RenewStorageSession, At, tasks, wires, clientState
<1>3. asked[n] \in AsksFor(j) /\ asked[n] \in Messages
  BY <1>1, <1>2 DEF RenewalOK, AsksFor
<1>4. SameAsking(n, i) /\ SameGranting(n, i) /\ SameConn(n, i)
  BY <1>2, NothingSaid
<1>5. ~Known(j) => UNCHANGED <<session, asked, creating>> /\ pc'[n] = "idle"
  BY <1>1 DEF RenewStorageSession, Goto
<1>6. Known(j) => session' = [session EXCEPT ![j].budget = Renewal, ![j].byClient = FALSE,
                                             ![j].byStore = FALSE]
  BY DEF RenewStorageSession
<1>7. /\ session'[i].listed = session[i].listed
      /\ session'[i].store = session[i].store
  BY <1>1, <1>5, <1>6 DEF Sessions
<1>8. SameList(n, i)
  BY <1>7 DEF SameList, Known
<1>9. CASE ~Known(j)
  BY <1>2, <1>4, <1>5, <1>8, <1>9, ThreadGoesOn, KeepsTurn DEF Same
<1>10. CASE Known(j) /\ Room(s) > Renewal
  <2>1. /\ pc'[n] = "send" /\ asked' = asked
        /\ creating' = [creating EXCEPT ![n] = [id |-> j, store |-> s, budget |-> Renewal,
                                                kind |-> "grant", renews |-> TRUE]]
    BY <1>1, <1>10 DEF RenewStorageSession, Goto
  <2>2. creating'[n].id = j /\ creating'[n].store = s
    BY <1>1, <2>1
  <2>3. CASE i # j
    <3>1. SameThread(n, i)
      BY <1>2, <2>1, <2>2, <2>3 DEF SameThread, Answering, Making, Reserving, Creates
    <3>2. QED
      BY <1>4, <1>8, <3>1, KeepsTurn DEF Same
  <2>4. CASE i = j
    <3>1. Answering(n, i) /\ ~Answering(n, i)'
      BY <1>3, <1>2, <2>1, <2>4 DEF Answering
    <3>2. ~Asking(n, i)' /\ ~Granting(n, i)' /\ ~Using(n, i)'
      BY <1>2, <3>1 DEF InTurn, OneTurn, Asking, Granting, Using
    <3>3. OneTurn(n, i)'
      BY <1>4, <3>1, <3>2 DEF InTurn, OneTurn, SameAsking, SameGranting
    <3>4. \A t : Leads(n, i, t)' => Leads(n, i, t)
      BY <1>4, <1>7, <1>10, <2>2, <2>4 DEF Leads, SameGranting, SameConn, Known
    <3>5. RenewedOK(n, i)'
      BY <1>7, <2>2, <2>4 DEF RenewedOK
    <3>6. QED
      BY <3>2, <3>3, <3>4, <3>5 DEF InTurn, OnePlace, ListedInTurn
  <2>5. QED
    BY <2>3, <2>4
<1>11. CASE Known(j) /\ ~(Room(s) > Renewal)
  <2>1. asked' = [asked EXCEPT ![n].kind = "alternate"] /\ pc'[n] = "unlist"
        /\ creating' = creating
    BY <1>1, <1>11 DEF RenewStorageSession, LooksForAlternate, Goto
  <2>2. asked'[n].id = j
    BY <1>1, <2>1 DEF Messages
  <2>3. SameThread(n, i)
    <3>1. Answering(n, i)' => Answering(n, i)
      BY <1>3, <1>2, <2>1, <2>2 DEF Answering, AsksFor
    <3>2. QED
      BY <1>2, <2>1, <3>1 DEF SameThread, Making, Reserving, Creates
  <2>4. QED
    BY <1>4, <1>8, <2>3, KeepsTurn DEF Same
<1>12. QED
  BY <1>9, <1>10, <1>11

\* A new session has an id that is not in use, or what follows is not said of it.
LEMMA CreatesTurn ==
  ASSUME TypeInv, NEW n \in Clients, NEW i \in Ids, InTurn(n, i), CreateStorageSessions(n),
         ~reused'
  PROVE  InTurn(n, i)'
<1> DEFINE j == NewId
<1>1. /\ pc \in [Nodes -> Labels] /\ n \in Nodes /\ creating \in [Clients -> Creatings]
  BY DEF TypeInv, LabelsOK, LocalsOK, Nodes
<1>2. UNCHANGED <<queued, fromNode, toNode, conn, asked, session>> /\ pc[n] = "create"
      /\ pc'[n] = "send" /\ ~InUse(j)
  <2>1. UNCHANGED <<queued, fromNode, toNode, conn, asked, session>>
    BY DEF CreateStorageSessions, hubState, tasks, wires, clientState
  <2>2. pc[n] = "create" /\ pc'[n] = "send" /\ ~InUse(j)
    BY <1>1 DEF CreateStorageSessions, At, Goto
  <2>3. QED
    BY <2>1, <2>2
<1>3. /\ SameAsking(n, i) /\ SameGranting(n, i) /\ SameConn(n, i) /\ SameList(n, i)
  BY <1>2, NothingSaid
<1>4. creating'[n].id = j /\ ~creating'[n].renews
  BY <1>1 DEF CreateStorageSessions
<1>5. CASE i # j
  <2>1. SameThread(n, i)
    BY <1>2, <1>4, <1>5 DEF SameThread, Answering, Making, Reserving, Creates
  <2>2. QED
    BY <1>3, <2>1, KeepsTurn DEF Same
<1>6. CASE i = j
  <2>1. /\ ~Asking(n, i) /\ ~Answering(n, i) /\ ~Granting(n, i) /\ ~Using(n, i)
        /\ ~conn[n][i].open /\ ~Known(i)
    BY <1>2, <1>6, Unused DEF InTurn
  <2>2. /\ ~Asking(n, i)' /\ ~Answering(n, i)' /\ ~Granting(n, i)' /\ ~Using(n, i)'
        /\ ~conn'[n][i].open /\ ~Known(i)'
    BY <1>2, <2>1 DEF Asking, Answering, Granting, Using, Known
  <2>3. OneTurn(n, i)'
    BY <1>3, <2>2 DEF InTurn, OneTurn, SameAsking, SameGranting
  <2>4. \A t : Leads(n, i, t)' => t = creating'[n].store
    BY <2>2 DEF Leads, Granting
  <2>5. RenewedOK(n, i)'
    BY <1>4 DEF RenewedOK
  <2>6. QED
    BY <2>2, <2>3, <2>4, <2>5 DEF InTurn, OnePlace, ListedInTurn
<1>7. QED
  BY <1>5, <1>6

\* The storage node is told of the session.
LEMMA SendsStoreTurn ==
  ASSUME TypeInv, NEW n \in Clients, NEW i \in Ids, InTurn(n, i), SendsStore(n)
  PROVE  InTurn(n, i)'
<1>1. pc \in [Nodes -> Labels] /\ n \in Nodes /\ creating[n] \in Creatings
  BY DEF TypeInv, LabelsOK, LocalsOK, Nodes
<1>2. UNCHANGED <<queued, fromNode, conn, creating, session>>
      /\ pc[n] = "send" /\ pc'[n] = "wait"
  <2>1. UNCHANGED <<queued, fromNode, conn, creating, session>>
    BY DEF SendsStore, hubState, tasks, locals, clientState
  <2>2. pc[n] = "send" /\ pc'[n] = "wait"
    BY <1>1 DEF SendsStore, At, Goto
  <2>3. QED
    BY <2>1, <2>2
<1>3. creating[n].id \in Ids /\ creating[n].store \in Nodes
  BY <1>1, <1>2 DEF TypeInv, WorkOK, Creatings, Nodes
<1>4. SessionOrder(n, "STORE") \in OrdersOfHub \ GrantsOf(i)
  <2>1. SessionOrder(n, "STORE").kind = "STORE"
    BY DEF SessionOrder, Order
  <2>2. QED
    BY <1>3, <2>1, SessionOrderTypes DEF GrantsOf
<1>5. SameGranting(n, i)
  BY <1>3, <1>4, NodeGets DEF SendsStore
<1>6. QED
  BY <1>2, <1>5, NothingSaid, ThreadGoesOn, KeepsTurn DEF Same

\* The client is told, and the session reserved.
LEMMA TellsClientTurn ==
  ASSUME TypeInv, NEW n \in Clients, NEW i \in Ids, InTurn(n, i), TellsClient(n)
  PROVE  InTurn(n, i)'
<1> DEFINE o == SessionOrder(n, creating[n].kind)
<1>1. /\ pc \in [Nodes -> Labels] /\ n \in Nodes /\ creating[n] \in Creatings
      /\ toNode \in [Nodes -> Seq(OrdersOfHub)]
  BY DEF TypeInv, LabelsOK, LocalsOK, WiresOK, Nodes
<1>2. UNCHANGED <<queued, fromNode, conn, creating, asked, session>>
      /\ pc[n] = "tell" /\ pc'[n] = "reserve"
  <2>1. UNCHANGED <<queued, fromNode, conn, creating, asked, session>>
    BY DEF TellsClient, hubState, tasks, locals, clientState
  <2>2. pc[n] = "tell" /\ pc'[n] = "reserve"
    BY <1>1 DEF TellsClient, At, Goto
  <2>3. QED
    BY <2>1, <2>2
<1>3. creating[n].id \in Ids /\ creating[n].kind \in {"grant", "index"}
  BY <1>1, <1>2 DEF TypeInv, WorkOK, Creatings
<1>4. o \in OrdersOfHub /\ o.id = creating[n].id /\ o.store = creating[n].store
      /\ o.kind \in {"grant", "index"}
  <2>1. o.id = creating[n].id /\ o.store = creating[n].store /\ o.kind = creating[n].kind
    BY DEF SessionOrder, Order
  <2>2. o \in OrdersOfHub
    BY <1>3, SessionOrderTypes
  <2>3. QED
    BY <1>3, <2>1, <2>2
<1>5. SameAsking(n, i) /\ SameConn(n, i) /\ SameList(n, i)
  BY <1>2, NothingSaid
<1>6. toNode'[n] = Append(toNode[n], o)
  BY <1>1 DEF TellsClient, SendNode
<1> HIDE DEF o
<1>7. /\ Members(toNode'[n]) = Members(toNode[n]) \cup {o}
      /\ Lone(toNode[n], GrantsOf(i)) /\ (o \notin GrantsOf(i) \/ ~Granting(n, i)) =>
           Lone(toNode'[n], GrantsOf(i))
  BY <1>1, <1>4, <1>6, AppendedTo DEF Granting
<1>8. CASE i # creating[n].id
  <2>1. o \notin GrantsOf(i)
    BY <1>4, <1>8 DEF GrantsOf
  <2>2. SameGranting(n, i)
    BY <1>7, <2>1 DEF SameGranting
  <2>3. SameThread(n, i)
    BY <1>2, <1>8 DEF SameThread, Answering, Making, Reserving, Creates
  <2>4. QED
    BY <1>5, <2>2, <2>3, KeepsTurn DEF Same
<1>9. CASE i = creating[n].id
  <2>1. Making(n, i) /\ ~Making(n, i)' /\ Reserving(n, i)' /\ ~Answering(n, i)'
    BY <1>2, <1>9 DEF Making, Reserving, Answering
  <2>2. ~Asking(n, i)' /\ ~Using(n, i)' /\ ~Granting(n, i)
    BY <1>2, <2>1 DEF InTurn, OneTurn, Asking, Using
  <2>3. OneTurn(n, i)'
    BY <1>2, <1>5, <1>7, <2>1, <2>2 DEF InTurn, OneTurn, SameAsking
  <2>4. Creates(n, i) /\ Leads(n, i, creating[n].store)
    BY <1>2, <1>9 DEF Creates, Leads
  <2>5. \A t : Leads(n, i, t)' => Leads(n, i, t)
    BY <1>2, <1>4, <1>5, <1>7, <2>4 DEF Leads, SameConn, SameList
  <2>6. RenewedOK(n, i)'
    BY <1>2, <2>4 DEF InTurn, RenewedOK
  <2>7. QED
    BY <2>1, <2>3, <2>5, <2>6 DEF InTurn, OnePlace, ListedInTurn
<1>10. QED
  BY <1>8, <1>9


\* The session is listed.
LEMMA ListsSessionTurn ==
  ASSUME TypeInv, NEW n \in Clients, NEW i \in Ids, InTurn(n, i), ListsSession(n)
  PROVE  InTurn(n, i)'
<1> DEFINE c == creating[n]
<1>1. /\ pc \in [Nodes -> Labels] /\ n \in Nodes /\ c \in Creatings
      /\ session \in [Ids -> Sessions]
  BY DEF TypeInv, LabelsOK, LocalsOK, HubOK, Nodes
<1>2. UNCHANGED <<queued, fromNode, toNode, conn, creating, asked>>
      /\ pc[n] = "enlist" /\ pc'[n] \in {"idle", "create", "raise"}
  <2>1. UNCHANGED <<queued, fromNode, toNode, conn, creating, asked>>
    BY DEF ListsSession, wires, clientState
  <2>2. pc[n] = "enlist" /\ pc'[n] \in {"idle", "create", "raise"}
    BY <1>1 DEF ListsSession, Created, At, Goto
  <2>3. QED
    BY <2>1, <2>2
<1>3. /\ SameAsking(n, i) /\ SameGranting(n, i) /\ SameConn(n, i)
      /\ ~Answering(n, i)' /\ ~Making(n, i)' /\ ~Creates(n, i)'
  <2>1. ~Answering(n, i)' /\ ~Making(n, i)' /\ ~Creates(n, i)'
    BY <1>2 DEF Answering, Making, Creates
  <2>2. QED
    BY <1>2, <2>1, NothingSaid
<1>4. c.id \in Ids
  BY <1>2 DEF TypeInv, WorkOK
<1>5. /\ Known(c.id) => session' = [session EXCEPT ![c.id].budget = c.budget,
                                       ![c.id].byClient = FALSE, ![c.id].byStore = FALSE]
      /\ ~Known(c.id) /\ c.renews => session' = [session EXCEPT ![c.id].listed = TRUE]
      /\ ~Known(c.id) /\ ~c.renews =>
           session' = [session EXCEPT ![c.id] =
                         [NoSession EXCEPT !.listed = TRUE, !.client = n,
                            !.store = c.store, !.budget = c.budget]]
  BY DEF ListsSession
<1> HIDE DEF c
<1>6. CASE i # c.id
  <2>1. session'[i] = session[i]
    BY <1>1, <1>4, <1>5, <1>6
  <2>2. ~Reserving(n, i)
    BY <1>6 DEF Reserving, c
  <2>3. SameThread(n, i) /\ SameList(n, i)
    BY <1>3, <2>1, <2>2 DEF SameThread, SameList, Known
  <2>4. QED
    BY <1>3, <2>3, KeepsTurn DEF Same
<1>7. CASE i = c.id
  <2>1. Creates(n, i) /\ Leads(n, i, c.store)
    BY <1>2, <1>7 DEF Leads, Creates, c
  <2>2. /\ session'[i].listed
        /\ session'[i].store = c.store \/ (Known(i) /\ session'[i].store = session[i].store)
    <3>1. CASE Known(i)
      BY <1>1, <1>4, <1>5, <1>7, <3>1 DEF Sessions, Known
    <3>2. CASE ~Known(i) /\ c.renews
      <4>1. session[i].store = c.store
        BY <2>1, <3>2 DEF InTurn, RenewedOK, c
      <4>2. QED
        BY <1>1, <1>4, <1>5, <1>7, <3>2, <4>1 DEF Sessions
    <3>3. CASE ~Known(i) /\ ~c.renews
      <4> DEFINE new == [NoSession EXCEPT !.listed = TRUE, !.client = n,
                           !.store = c.store, !.budget = c.budget]
      <4>1. session' = [session EXCEPT ![i] = new]
        BY <1>5, <1>7, <3>3
      <4>2. new.listed /\ new.store = c.store
        BY DEF NoSession
      <4> HIDE DEF new
      <4>3. session'[i] = new
        BY <1>1, <4>1
      <4>4. QED
        BY <4>2, <4>3
    <3>4. QED
      BY <3>1, <3>2, <3>3
  <2>3. Known(i)'
    BY <2>2 DEF Known
  <2>4. OneTurn(n, i)'
    BY <1>2, <1>3
    DEF InTurn, OneTurn, SameAsking, SameGranting, SameConn, Asking, Granting
  <2>5. \A t : Leads(n, i, t)' => Leads(n, i, t)
    BY <1>3, <2>1, <2>2 DEF Leads, SameGranting, SameConn
  <2>6. RenewedOK(n, i)'
    BY <1>3 DEF RenewedOK
  <2>7. QED
    BY <2>3, <2>4, <2>5, <2>6 DEF InTurn, OnePlace, ListedInTurn
<1>8. QED
  BY <1>6, <1>7

\* The task leaves the queue.
LEMMA HandleTaskEventTurn ==
  ASSUME TypeInv, NEW n \in Clients, NEW i \in Ids, InTurn(n, i), HandleTaskEvent(n)
  PROVE  InTurn(n, i)'
<1>1. UNCHANGED <<fromNode, toNode, conn, creating, pc, asked, session>>
      /\ queued' = queued \ {n}
  BY DEF HandleTaskEvent, locals, wires, clientState, hubState
<1>2. SameAsking(n, i) /\ SameGranting(n, i) /\ SameConn(n, i) /\ SameThread(n, i)
  BY <1>1, NothingSaid DEF SameAsking
<1>3. SameList(n, i)
  BY <1>1 DEF SameList, Known
<1>4. QED
  BY <1>2, <1>3, KeepsTurn DEF Same

\* The scheduler removes its sessions one by one, in steps that leave the queue as it is.
LEMMA SweepsTurn ==
  ASSUME TypeInv, NEW n \in Clients, NEW i \in Ids, InTurn(n, i), SweepOK,
         SweepsSession \/ SweepsLoad
  PROVE  InTurn(n, i)'
<1>1. UNCHANGED <<fromNode, toNode, conn, creating, pc, asked, queued>>
  BY DEF SweepsSession, SweepsLoad, locals, wires, clientState
<1>2. SameAsking(n, i) /\ SameGranting(n, i) /\ SameConn(n, i) /\ SameThread(n, i)
  BY <1>1, NothingSaid
<1>3. queued = {}
  BY DEF SweepOK, Sweeping, SweepsSession, SweepsLoad
<1>4. session' = session \/ \E j : session' = [session EXCEPT ![j].listed = FALSE]
  BY DEF SweepsSession, SweepsLoad
<1>5. /\ Known(i)' => Known(i)
      /\ session'[i].store = session[i].store
  <2>1. session \in [Ids -> Sessions]
    BY DEF TypeInv, HubOK
  <2>2. QED
    BY <1>4, <2>1 DEF Known, Sessions
<1>6. SameList(n, i)
  BY <1>1, <1>3, <1>5 DEF SameList
<1>7. QED
  BY <1>2, <1>6, KeepsTurn DEF Same

-----------------------------------------------------------------------------
(* Steps of the nodes.                                                     *)

\* A storage node opens a session, a client reads that its task is cancelled, or asks
\* for storage for the index.
LEMMA NodeKeepsTurn ==
  ASSUME TypeInv, NEW n \in Clients, NEW i \in Ids,
         \/ \E s \in Stores : StartStoreSession(s)
         \/ \E x \in Clients : CancelTask(x) \/ AsksIndex(x)
  PROVE  Same(n, i)
<1>1. UNCHANGED <<queued, session, pc, asked, creating, conn>>
  BY DEF StartStoreSession, CancelTask, AsksIndex, hubState, tasks, locals, clientState
<1>2. CASE \E s \in Stores : StartStoreSession(s)
  <2>1. PICK s \in Stores : StartStoreSession(s)
    BY <1>2
  <2> DEFINE o == Head(toNode[s])
             m == Message("ready", o.client, o.id, 0)
  <2>2. s \in Nodes /\ Receives(s, {"STORE"}) /\ SendHub(s, m)
    BY <2>1 DEF StartStoreSession, Nodes
  <2>3. o \in OrdersOfHub
    BY <2>2, ReceivesType
  <2>4. m \in Messages /\ m \notin AsksFor(i)
    BY <2>3, Recorded DEF OrdersOfHub, Message, AsksFor
  <2> HIDE DEF m
  <2>5. QED
    BY <1>1, <2>2, <2>4, NodeTakes, HubGets, NothingSaid DEF Same
<1>3. CASE \E x \in Clients : CancelTask(x)
  <2>1. PICK x \in Clients : CancelTask(x)
    BY <1>3
  <2>2. x \in Nodes /\ Receives(x, {"cancel"}) /\ fromNode' = fromNode
    BY <2>1 DEF CancelTask, Nodes
  <2>3. QED
    BY <1>1, <2>2, NodeTakes, NothingSaid DEF Same
<1>4. CASE \E x \in Clients : AsksIndex(x)
  <2>1. PICK x \in Clients : AsksIndex(x)
    BY <1>4
  <2> DEFINE m == Message("index", x, 0, 0)
  <2>2. x \in Nodes /\ toNode' = toNode /\ SendHub(x, m)
    BY <2>1 DEF AsksIndex, Nodes
  <2>3. m \in Messages /\ m \notin AsksFor(i)
    BY Recorded DEF Message, AsksFor, Requests
  <2> HIDE DEF m
  <2>4. QED
    BY <1>1, <2>2, <2>3, HubGets, NothingSaid DEF Same
<1>5. QED
  BY <1>2, <1>3, <1>4


\* What changes when one session of the client does.
LEMMA ConnOf ==
  ASSUME TypeInv, NEW n \in Clients, NEW j \in Ids, NEW new,
         conn' = [conn EXCEPT ![n] = [conn[n] EXCEPT ![j] = new]]
  PROVE  conn'[n][j] = new /\ \A i \in Ids : i # j => conn'[n][i] = conn[n][i]
<1>1. conn \in [Clients -> [Ids -> Conns]]
  BY DEF TypeInv, ClientsOK
<1>2. conn'[n] = [conn[n] EXCEPT ![j] = new] /\ conn[n] \in [Ids -> Conns]
  BY <1>1
<1>3. QED
  BY <1>2

\* What one session becomes in a step of the client.
LEMMA ConnsBecome ==
  ASSUME TypeInv, NEW n \in Clients, NEW j \in Ids
  PROVE  /\ CloseConn(n, j) => conn'[n][j] = NoConn
         /\ SendsChunk(n, j) => conn'[n][j] = [conn[n][j] EXCEPT !.budget = @ - 1,
                                                  !.handled = @ + 1]
         /\ StopsConsuming(n, j) => conn'[n][j] = [conn[n][j] EXCEPT !.carries = "after"]
         /\ AsksAgain(n, j) => conn'[n][j] = [conn[n][j] EXCEPT !.carries = "nothing"]
         /\ SendsIndex(n, j) => conn'[n][j] = [conn[n][j] EXCEPT !.budget = @ - 1,
                                                  !.handled = @ + 1, !.carries = "nothing"]
         /\ Consumes(n, j) \/ SessionBreaks(n, j) =>
              \A i \in Ids : i # j => conn'[n][i] = conn[n][i]
<1> DEFINE c == conn[n][j]
           sent == [c EXCEPT !.budget = @ - 1, !.handled = @ + 1]
           done == [c EXCEPT !.budget = @ - 1, !.handled = @ + 1, !.carries = "nothing"]
           over == [c EXCEPT !.carries = "nothing"]
           stop == [c EXCEPT !.carries = "after"]
<1>1. CloseConn(n, j) => conn' = [conn EXCEPT ![n] = [conn[n] EXCEPT ![j] = NoConn]]
  BY DEF CloseConn
<1>2. ASSUME SendsChunk(n, j)
      PROVE  conn' = [conn EXCEPT ![n] = [conn[n] EXCEPT ![j] = sent]]
  BY <1>2 DEF SendsChunk
<1>3. /\ AsksAgain(n, j) => conn' = [conn EXCEPT ![n] = [conn[n] EXCEPT ![j] = over]]
      /\ StopsConsuming(n, j) => conn' = [conn EXCEPT ![n] = [conn[n] EXCEPT ![j] = stop]]
  BY DEF AsksAgain, StopsConsuming
<1>4. ASSUME SendsIndex(n, j)
      PROVE  conn' = [conn EXCEPT ![n] = [conn[n] EXCEPT ![j] = done]]
  BY <1>4 DEF SendsIndex
<1>5. OutOfBudget(n, j) \/ EndsSession(n, j) \/ SessionBreaks(n, j) => CloseConn(n, j)
  BY DEF OutOfBudget, EndsSession, SessionBreaks
<1> HIDE DEF sent, done, over, stop
<1>6. /\ CloseConn(n, j) => conn'[n][j] = NoConn /\ \A i \in Ids : i # j => conn'[n][i] = conn[n][i]
      /\ SendsChunk(n, j) => conn'[n][j] = sent /\ \A i \in Ids : i # j => conn'[n][i] = conn[n][i]
      /\ StopsConsuming(n, j) => conn'[n][j] = stop /\ \A i \in Ids : i # j => conn'[n][i] = conn[n][i]
      /\ AsksAgain(n, j) => conn'[n][j] = over /\ \A i \in Ids : i # j => conn'[n][i] = conn[n][i]
      /\ SendsIndex(n, j) => conn'[n][j] = done /\ \A i \in Ids : i # j => conn'[n][i] = conn[n][i]
  BY <1>1, <1>2, <1>3, <1>4, ConnOf
<1>7. QED
  BY <1>5, <1>6 DEF Consumes, sent, done, over, stop

\* The client sends what a session is for: the turn is not given away, but may end.
LEMMA SendsTurn ==
  ASSUME TypeInv, NEW n \in Clients, NEW i \in Ids, NEW j \in Ids,
         SendsChunk(n, j) \/ EndsSession(n, j) \/ SendsIndex(n, j)
  PROVE  Same(n, i)
<1>1. UNCHANGED <<queued, session, pc, asked, creating, toNode>>
  BY DEF SendsChunk, EndsSession, SendsIndex, hubState, tasks, locals
<1>2. conn[n][j] \in Conns /\ conn[n][j].store \in Nodes /\ n \in Nodes
      /\ Receiver(n, j).handled \in Nat
  BY OpenTypes DEF Nodes, Receivers
<1>3. SameConn(n, i)
  <2>1. CASE i # j
    <3>1. conn'[n][i] = conn[n][i]
      BY <2>1, ConnsBecome DEF Consumes
    <3>2. QED
      BY <3>1 DEF SameConn, Using
  <2>2. CASE i = j
    <3>1. \/ conn'[n][j] = NoConn
          \/ conn'[n][j] = [conn[n][j] EXCEPT !.budget = @ - 1, !.handled = @ + 1]
          \/ conn'[n][j] = [conn[n][j] EXCEPT !.budget = @ - 1, !.handled = @ + 1,
                                              !.carries = "nothing"]
      BY ConnsBecome DEF EndsSession
    <3>2. ~NoConn.open
      BY DEF NoConn
    <3>3. /\ conn'[n][j].open => conn[n][j].open /\ conn'[n][j].store = conn[n][j].store
          /\ conn'[n][j].open => conn'[n][j].carries \in {conn[n][j].carries, "nothing"}
      <4>1. CASE conn'[n][j] = NoConn
        BY <3>2, <4>1
      <4>2. CASE conn'[n][j] # NoConn
        <5>1. \E b, h : conn'[n][j] \in
                {[conn[n][j] EXCEPT !.budget = b, !.handled = h],
                 [conn[n][j] EXCEPT !.budget = b, !.handled = h, !.carries = "nothing"]}
          BY <3>1, <4>2
        <5>2. PICK b, h : conn'[n][j] \in
                {[conn[n][j] EXCEPT !.budget = b, !.handled = h],
                 [conn[n][j] EXCEPT !.budget = b, !.handled = h, !.carries = "nothing"]}
          BY <5>1
        <5>3. /\ conn'[n][j].open = conn[n][j].open /\ conn'[n][j].store = conn[n][j].store
              /\ conn'[n][j].carries \in {conn[n][j].carries, "nothing"}
          BY <1>2, <5>2 DEF Conns
        <5>4. QED
          BY <5>3
      <4>3. QED
        BY <4>1, <4>2
    <3>4. QED
      BY <2>2, <3>3 DEF SameConn, Using
  <2>3. QED
    BY <2>1, <2>2
<1>4. SameAsking(n, i)
  <2>1. /\ UsageOf(n, j) \in Messages \ AsksFor(i)
        /\ UsageAfter(n, j) \in Messages \ AsksFor(i)
        /\ Message("done", n, 0, 0) \in Messages \ AsksFor(i)
    <3>1. Receiver(n, j).handled + 1 \in Nat
      BY <1>2
    <3>2. /\ UsageOf(n, j) \in Messages /\ UsageAfter(n, j) \in Messages
          /\ Message("done", n, 0, 0) \in Messages
      BY <1>2, <3>1, Recorded DEF UsageOf, UsageAfter
    <3>3. QED
      BY <3>2 DEF UsageOf, UsageAfter, Message, AsksFor
  <2>2. \/ UNCHANGED fromNode
        \/ SendHub(conn[n][j].store, UsageOf(n, j))
        \/ SendHub(conn[n][j].store, UsageAfter(n, j))
        \/ SendHub(n, Message("done", n, 0, 0))
    BY DEF SendsChunk, EndsSession, SendsIndex
  <2>3. QED
    BY <1>1, <1>2, <2>1, <2>2, HubGets, NothingSaid
<1>5. QED
  BY <1>1, <1>3, <1>4, NothingSaid DEF Same

\* A consumer stops: its session is still in use, until AfterTask asks again or ends it.
LEMMA StopsTurn ==
  ASSUME TypeInv, NEW n \in Clients, NEW i \in Ids, NEW j \in Ids, StopsConsuming(n, j)
  PROVE  Same(n, i)
<1>1. UNCHANGED <<queued, session, pc, asked, creating, fromNode, toNode>>
  BY DEF StopsConsuming, hubState, tasks, locals, wires
<1>2. conn[n][j] \in Conns /\ conn[n][j].open /\ conn[n][j].carries = "data"
  BY OpenTypes DEF StopsConsuming, Working
<1>3. SameConn(n, i)
  <2>1. CASE i # j
    <3>1. conn'[n][i] = conn[n][i]
      BY <2>1, ConnsBecome DEF Consumes
    <3>2. QED
      BY <3>1 DEF SameConn, Using
  <2>2. CASE i = j
    <3>1. conn'[n][j] = [conn[n][j] EXCEPT !.carries = "after"]
      BY ConnsBecome
    <3>2. conn'[n][j].open /\ conn'[n][j].store = conn[n][j].store
      BY <1>2, <3>1 DEF Conns
    <3>3. QED
      BY <1>2, <2>2, <3>2 DEF SameConn, Using
  <2>3. QED
    BY <2>1, <2>2
<1>4. QED
  BY <1>1, <1>3, NothingSaid DEF Same

\* The client's turn ends: it uses the session, or asks for another, or neither.
LEMMA ClientTurn ==
  ASSUME TypeInv, NEW n \in Clients, NEW i \in Ids, InTurn(n, i),
         UNCHANGED <<queued, session, pc, asked, creating>>,
         Granting(n, i) \/ Using(n, i), SameGranting(n, i), Granting(n, i)' => ~Using(n, i)',
         \/ SameAsking(n, i)
         \/ \E m \in Messages : SendHub(n, m) /\ ~Granting(n, i)' /\ ~Using(n, i)',
         conn'[n][i].open => Leads(n, i, conn'[n][i].store)
  PROVE  InTurn(n, i)'
<1>1. /\ ~Asking(n, i) /\ ~Answering(n, i) /\ ~Making(n, i)
      /\ n \in queued => Lone(fromNode[n], AsksFor(i)) /\ (Known(i) \/ Reserving(n, i))
      /\ OnePlace(n, i) /\ Lone(toNode[n], GrantsOf(i))
  BY DEF InTurn, OneTurn, ListedInTurn
<1>2. /\ ~Answering(n, i)' /\ ~Making(n, i)' /\ Lone(toNode'[n], GrantsOf(i))
      /\ n \in queued' => Known(i)' \/ Reserving(n, i)'
  BY <1>1 DEF Answering, Making, Known, Reserving, SameGranting
<1>3. ListedInTurn(n, i)'
  BY <1>2 DEF ListedInTurn
<1>4. \A s : Leads(n, i, s)' => Leads(n, i, s)
  BY DEF Leads, SameGranting, Creates, Known
<1>5. OneTurn(n, i)'
  <2>1. CASE SameAsking(n, i)
    <3>1. ~Asking(n, i)'
      BY <1>1, <2>1 DEF Asking, SameAsking
    <3>2. QED
      BY <1>1, <1>2, <2>1, <3>1 DEF OneTurn, SameAsking
  <2>2. ASSUME NEW m \in Messages, SendHub(n, m), ~Granting(n, i)', ~Using(n, i)'
        PROVE  OneTurn(n, i)'
    <3>1. fromNode[n] \in Seq(Messages) /\ n \in Nodes
      BY DEF TypeInv, WiresOK, Nodes
    <3>2. fromNode'[n] = fromNode[n] \/ fromNode'[n] = Append(fromNode[n], m)
      BY <2>2, <3>1 DEF SendHub, TypeInv, WiresOK
    <3>3. Lone(fromNode[n], AsksFor(i)) /\ Members(fromNode[n]) \cap AsksFor(i) = {}
            => Lone(Append(fromNode[n], m), AsksFor(i))
      BY <3>1, AppendedTo
    <3>4. n \in queued' => Lone(fromNode'[n], AsksFor(i))
      BY <1>1, <3>2, <3>3 DEF Asking
    <3>5. QED
      BY <1>2, <2>2, <3>4 DEF OneTurn
  <2>3. QED
    BY <2>1, <2>2
<1>6. RenewedOK(n, i)'
  BY DEF InTurn, RenewedOK, Creates
<1>7. QED
  BY <1>1, <1>3, <1>4, <1>5, <1>6 DEF InTurn, OnePlace

\* The client asks for more, or for another session.
LEMMA AsksTurn ==
  ASSUME TypeInv, NEW n \in Clients, NEW i \in Ids, InTurn(n, i), NEW j \in Ids,
         OutOfBudget(n, j) \/ AsksAgain(n, j) \/ SessionBreaks(n, j)
  PROVE  InTurn(n, i)'
<1> DEFINE m(kind) == Message(kind, n, j, conn[n][j].handled)
<1>1. UNCHANGED <<queued, session, pc, asked, creating, toNode>>
  BY DEF OutOfBudget, AsksAgain, SessionBreaks, hubState, tasks, locals
<1>2. conn[n][j] \in Conns /\ n \in Nodes
  BY OpenTypes DEF Nodes
<1>3. SameGranting(n, i) /\ SameThread(n, i) /\ SameList(n, i)
  BY <1>1, NothingSaid
<1>4. \A kind \in {"renewal", "alternate"} : /\ m(kind) \in Messages
                                             /\ i # j => m(kind) \notin AsksFor(i)
  BY <1>2, Recorded DEF Message, Requests, AsksFor, Conns
<1>5. \/ UNCHANGED fromNode
      \/ Using(n, j) /\ \E kind \in {"renewal", "alternate"} : SendHub(n, m(kind))
  BY DEF OutOfBudget, AsksAgain, SessionBreaks, Working, Ended, Using
<1>6. \/ conn'[n][j] = NoConn
      \/ conn'[n][j] = [conn[n][j] EXCEPT !.carries = "nothing"]
  BY ConnsBecome DEF OutOfBudget, SessionBreaks
<1>7. /\ ~Using(n, j)'
      /\ conn'[n][j].open => conn[n][j].open /\ conn'[n][j].store = conn[n][j].store
  BY <1>2, <1>6 DEF NoConn, Conns, Using
<1> HIDE DEF m
<1>8. CASE i # j
  <2>1. SameConn(n, i)
    <3>1. conn'[n][i] = conn[n][i]
      BY <1>8, ConnsBecome DEF Consumes
    <3>2. QED
      BY <3>1 DEF SameConn, Using
  <2>2. SameAsking(n, i)
    BY <1>1, <1>2, <1>4, <1>5, <1>8, HubGets, NothingSaid
  <2>3. QED
    BY <1>3, <2>1, <2>2, KeepsTurn DEF Same
<1>9. CASE i = j /\ UNCHANGED fromNode
  <2>1. SameConn(n, i) /\ SameAsking(n, i)
    BY <1>1, <1>7, <1>9, NothingSaid DEF SameConn
  <2>2. QED
    BY <1>3, <2>1, KeepsTurn DEF Same
<1>10. CASE i = j /\ Using(n, j) /\ \E kind \in {"renewal", "alternate"} : SendHub(n, m(kind))
  <2>1. ~Granting(n, i)'
    BY <1>1, <1>10 DEF InTurn, OneTurn, Granting
  <2>2. \E mm \in Messages : SendHub(n, mm) /\ ~Granting(n, i)' /\ ~Using(n, i)'
    BY <1>4, <1>7, <1>10, <2>1
  <2>3. conn'[n][i].open => Leads(n, i, conn'[n][i].store)
    BY <1>7, <1>10 DEF Leads
  <2>4. QED
    BY <1>1, <1>3, <1>10, <2>1, <2>2, <2>3, ClientTurn
<1>11. QED
  BY <1>5, <1>8, <1>9, <1>10

\* The client reads a grant: it uses the session, or asks for another.
LEMMA ReadsGrantTurn ==
  ASSUME TypeInv, NEW n \in Clients, NEW i \in Ids, InTurn(n, i),
         ReusesSession(n) \/ ConnectsSession(n) \/ ConnectFails(n)
  PROVE  InTurn(n, i)'
<1> DEFINE o == Grant(n)
           m == Message("alternate", n, o.id, o.handled)
<1>1. UNCHANGED <<queued, session, pc, asked, creating>> /\ Receives(n, {"grant", "index"})
  BY DEF ReusesSession, ConnectsSession, ConnectFails, hubState, tasks, locals
<1>2. n \in Nodes /\ toNode \in [Nodes -> Seq(OrdersOfHub)]
  BY DEF TypeInv, WiresOK, Nodes
<1>3. o \in OrdersOfHub /\ o.kind \in {"grant", "index"} /\ o.id \in Ids \cup {0}
      /\ o.store \in Stores /\ o.handled \in Nat
  BY <1>1, <1>2, ReceivesType DEF Grant, OrdersOfHub
<1>4. toNode[n] # <<>> /\ toNode'[n] = Tail(toNode[n]) /\ o = Head(toNode[n])
  BY <1>1, <1>2 DEF Receives, Grant
<1>5. SameGranting(n, i) /\ SameThread(n, i) /\ SameList(n, i)
  BY <1>1, <1>2, NodeTakes, NothingSaid
<1>6. m \in Messages /\ (o.id # i => m \notin AsksFor(i))
  BY <1>3, Recorded DEF Message, Requests, AsksFor
<1>7. UNCHANGED fromNode \/ SendHub(n, m)
  BY DEF ReusesSession, ConnectsSession, ConnectFails
<1> HIDE DEF m
<1>8. CASE o.id # i
  <2>1. conn'[n][i] = conn[n][i]
    <3>1. conn[n] \in [Ids -> Conns]
      BY DEF TypeInv, ClientsOK
    <3>2. ASSUME NEW new, conn' = [conn EXCEPT ![n] = [conn[n] EXCEPT ![o.id] = new]]
          PROVE  conn'[n][i] = conn[n][i]
      <4>1. conn'[n] = [conn[n] EXCEPT ![o.id] = new]
        BY <3>2 DEF TypeInv, ClientsOK
      <4>2. QED
        BY <1>8, <3>1, <4>1
    <3>3. CASE ReusesSession(n)
      <4> DEFINE new == [conn[n][o.id] EXCEPT !.budget = @ + o.budget,
                           !.carries = IF JobRuns(n) THEN Carries(n) ELSE @]
      <4>1. conn' = [conn EXCEPT ![n] = [conn[n] EXCEPT ![o.id] = new]]
        BY <3>3 DEF ReusesSession, Grant
      <4> HIDE DEF new
      <4>2. QED
        BY <3>2, <4>1
    <3>4. CASE ConnectsSession(n)
      <4> DEFINE new == [open |-> TRUE, store |-> o.store, budget |-> o.budget,
                         handled |-> o.handled, carries |-> Carries(n)]
      <4>1. conn' = [conn EXCEPT ![n] = [conn[n] EXCEPT ![o.id] = new]]
        BY <3>4 DEF ConnectsSession
      <4> HIDE DEF new
      <4>2. QED
        BY <3>2, <4>1
    <3>5. CASE ConnectFails(n)
      BY <3>5 DEF ConnectFails, clientState
    <3>6. QED
      BY <3>3, <3>4, <3>5
  <2>2. SameConn(n, i)
    BY <2>1 DEF SameConn, Using
  <2>3. SameAsking(n, i)
    BY <1>1, <1>2, <1>6, <1>7, <1>8, HubGets, NothingSaid
  <2>4. QED
    BY <1>5, <2>2, <2>3, KeepsTurn DEF Same
<1>9. CASE o.id = i
  <2>1. o \in GrantsOf(i)
    BY <1>3, <1>9 DEF GrantsOf
  <2>2. o \in Members(toNode[n]) /\ Members(toNode'[n]) \cap GrantsOf(i) = {}
    <3>1. Lone(toNode[n], GrantsOf(i))
      BY DEF InTurn, OneTurn
    <3>2. QED
      BY <1>2, <1>4, <2>1, <3>1, TakenFrom
  <2>3. Granting(n, i) /\ ~Granting(n, i)'
    BY <2>1, <2>2 DEF Granting
  <2>4. ~Using(n, i)
    BY <2>3 DEF InTurn, OneTurn
  <2>5. Leads(n, i, o.store)
    BY <2>1, <2>2 DEF Leads
  <2>6. /\ conn'[n][i].open => Leads(n, i, conn'[n][i].store)
        /\ ~JobRuns(n) \/ ConnectFails(n) => ~Using(n, i)'
    <3>1. CASE ReusesSession(n)
      <4> DEFINE new == [conn[n][i] EXCEPT !.budget = @ + o.budget,
                                           !.carries = IF JobRuns(n) THEN Carries(n) ELSE @]
      <4>1. conn' = [conn EXCEPT ![n] = [conn[n] EXCEPT ![i] = new]]
        BY <1>9, <3>1 DEF ReusesSession, Grant
      <4>2. new.open = conn[n][i].open /\ new.store = conn[n][i].store
            /\ (~JobRuns(n) => new.carries = conn[n][i].carries)
        BY OpenTypes DEF Conns
      <4> HIDE DEF new
      <4>3. conn'[n][i] = new
        BY <4>1, ConnOf
      <4>4. conn[n][i].open /\ ~ConnectFails(n)
        BY <1>9, <3>1 DEF ReusesSession, ConnectFails
      <4>5. QED
        BY <2>4, <4>2, <4>3, <4>4 DEF Using, Leads
    <3>2. CASE ConnectsSession(n)
      <4> DEFINE new == [open |-> TRUE, store |-> o.store, budget |-> o.budget,
                         handled |-> o.handled, carries |-> Carries(n)]
      <4>1. conn' = [conn EXCEPT ![n] = [conn[n] EXCEPT ![i] = new]]
        BY <1>9, <3>2 DEF ConnectsSession
      <4>2. new.store = o.store /\ (~JobRuns(n) => new.carries = "nothing")
        BY DEF Carries
      <4>3. CASE ~ConnectFails(n)
        <5> HIDE DEF new
        <5>1. conn'[n][i] = new
          BY <4>1, ConnOf
        <5>2. QED
          BY <2>5, <4>2, <4>3, <5>1 DEF Using
      <4>4. CASE ConnectFails(n)
        BY <2>4, <4>4 DEF ConnectFails, clientState, Using, Leads
      <4>5. QED
        BY <4>3, <4>4
    <3>3. CASE ConnectFails(n)
      BY <2>4, <3>3 DEF ConnectFails, clientState, Using, Leads
    <3>4. QED
      BY <3>1, <3>2, <3>3
  <2>7. \/ UNCHANGED fromNode
        \/ SendHub(n, m) /\ ~Using(n, i)'
    BY <2>6 DEF ReusesSession, ConnectsSession, ConnectFails, m
  <2>8. \/ SameAsking(n, i)
        \/ \E mm \in Messages : SendHub(n, mm) /\ ~Granting(n, i)' /\ ~Using(n, i)'
    BY <1>1, <1>6, <2>3, <2>7, NothingSaid
  <2>9. QED
    BY <1>1, <1>5, <2>3, <2>6, <2>8, ClientTurn
<1>10. QED
  BY <1>8, <1>9

-----------------------------------------------------------------------------
(* The turn is kept by every step.                                         *)

LEMMA TurnInit == Init => TurnInv /\ RenewalOK /\ SweepOK
<1> SUFFICES ASSUME Init PROVE TurnInv /\ RenewalOK /\ SweepOK
  OBVIOUS
<1>1. \A n \in Clients : n \in Nodes /\ pc[n] = "idle" /\ toNode[n] = <<>>
        /\ fromNode[n] = <<Message("first", n, 0, 0)>>
  BY DEF Init, Nodes
<1>2. RenewalOK
  BY <1>1 DEF RenewalOK
<1>3. ASSUME NEW n \in Clients, NEW i \in Ids
      PROVE  InTurn(n, i)
  <2>1. Members(toNode[n]) = {} /\ Lone(toNode[n], GrantsOf(i))
    BY <1>1, Empty
  <2>2. Members(fromNode[n]) \cap AsksFor(i) = {} /\ Lone(fromNode[n], AsksFor(i))
    <3>1. \A k \in 1..Len(fromNode[n]) : fromNode[n][k].kind = "first"
      <4>1. PICK m : m = Message("first", n, 0, 0)
        OBVIOUS
      <4>2. m.kind = "first"
        BY <4>1 DEF Message
      <4>3. fromNode[n] = <<m>>
        BY <1>1, <4>1
      <4>4. QED
        BY <4>2, <4>3
    <3>2. QED
      BY <3>1 DEF Members, Lone, AsksFor
  <2>3. ~conn[n][i].open /\ ~session[i].listed
    BY DEF Init, NoConn, NoSession
  <2>4. /\ ~Asking(n, i) /\ ~Answering(n, i) /\ ~Making(n, i) /\ ~Granting(n, i)
        /\ ~Using(n, i) /\ ~Creates(n, i) /\ ~Known(i)
    BY <1>1, <2>1, <2>2, <2>3
    DEF Asking, Answering, Making, Granting, Using, Creates, Known
  <2>5. QED
    BY <2>1, <2>2, <2>3, <2>4 DEF InTurn, OneTurn, ListedInTurn, OnePlace, Leads, RenewedOK
<1>4. SweepOK
  BY DEF Init, SweepOK, Sweeping, Unswept
<1>5. QED
  BY <1>2, <1>3, <1>4 DEF TurnInv

LEMMA RenewalNext ==
  ASSUME TypeInv, RenewalOK, [Next]_vars
  PROVE  RenewalOK'
<1> DEFINE Plain == Labels \ {"renew", "unlist", "remove", "lower"}
           Asks(n, kind) == n \in Clients => asked'[n].kind = kind
<1>1. /\ pc \in [Nodes -> Labels] /\ asked \in [Nodes -> Messages]
      /\ \A n \in Clients : n \in Nodes
  BY DEF TypeInv, LabelsOK, LocalsOK, Nodes
<1>2. UNCHANGED <<pc, asked>> => RenewalOK'
  BY DEF RenewalOK
<1>3. ASSUME NEW n \in Nodes, NEW label, pc' = [pc EXCEPT ![n] = label],
             \A x \in Nodes : x # n => asked'[x] = asked[x],
             label = "renew" => Asks(n, "renewal"),
             label \in {"unlist", "remove", "lower"} => Asks(n, "alternate")
      PROVE  RenewalOK'
  <2>1. pc'[n] = label /\ \A x \in Nodes : x # n => pc'[x] = pc[x]
    BY <1>1, <1>3
  <2>2. QED
    BY <1>1, <1>3, <2>1 DEF RenewalOK
<1>4. ASSUME NEW n \in Nodes, NEW label \in Plain, pc' = [pc EXCEPT ![n] = label],
             \A x \in Nodes : x # n => asked'[x] = asked[x]
      PROVE  RenewalOK'
  BY <1>3, <1>4
<1>5. ASSUME NEW n \in Nodes, HubThread(n)
      PROVE  RenewalOK'
  <2>1. CASE ConfirmsUsage(n) \/ ReleasesReserved(n)
    <3>1. asked' = asked /\ \E label \in {"release", Answer(n)} : pc' = [pc EXCEPT ![n] = label]
      BY <2>1 DEF ConfirmsUsage, ReleasesReserved, AfterUsage, Goto, locals
    <3>2. /\ Answer(n) = "renew" => asked[n].kind = "renewal"
          /\ Answer(n) = "unlist" => asked[n].kind = "alternate"
          /\ Answer(n) \notin {"remove", "lower"}
      BY DEF Answer
    <3>3. QED
      BY <1>3, <3>1, <3>2
  <2>2. CASE \/ HandleReady(n) \/ Rings(n) \/ TaskDone(n) \/ ChooseStorage(n)
             \/ NoStorage(n) \/ ChoiceFails(n) \/ CreateStorageSessions(n)
    <3>1. \/ UNCHANGED <<pc, asked>>
          \/ asked' = asked /\ \E label \in Plain : pc' = [pc EXCEPT ![n] = label]
      BY <2>2
      DEF HandleReady, Rings, TaskDone, ChooseStorage, NoStorage, ChoiceFails,
          CreateStorageSessions, Goto, locals, Labels
    <3>2. QED
      BY <1>2, <1>4, <3>1
  <2>3. CASE \/ CreatedAll(n) \/ SendsStore(n) \/ Woken(n) \/ Resets(n) \/ TellsClient(n)
             \/ LowersLoad(n)
    <3>1. asked' = asked /\ \E label \in Plain : pc' = [pc EXCEPT ![n] = label]
      BY <2>3
      DEF CreatedAll, SendsStore, Woken, Resets, TellsClient, LowersLoad, Goto, locals, Labels
    <3>2. QED
      BY <1>4, <3>1
  <2>4. CASE ReadsReserved(n) \/ Reserves(n) \/ ListsSession(n) \/ RaisesLoad(n)
    <3>1. asked' = asked /\ \E label \in Plain : pc' = [pc EXCEPT ![n] = label]
      BY <2>4
      DEF ReadsReserved, Reserves, ListsSession, RaisesLoad, Created, Goto, locals, Labels
    <3>2. QED
      BY <1>4, <3>1
  <2>5. CASE HandleSessionEvent(n) \/ AskStorage(n)
    <3>1. \/ UNCHANGED <<pc, asked>>
          \/ /\ asked' = [asked EXCEPT ![n] = Head(fromNode[n])]
             /\ \E label \in Plain : pc' = [pc EXCEPT ![n] = label]
      BY <2>5 DEF HandleSessionEvent, AskStorage, Goto, Labels
    <3>2. QED
      BY <1>1, <1>2, <1>4, <3>1
  <2>6. CASE n \in Clients /\ (FindsSession(n) \/ RemovesSession(n))
    <3>1. /\ asked' = asked /\ asked[n].kind = "alternate"
          /\ \E label \in {"idle", "remove", "lower"} : pc' = [pc EXCEPT ![n] = label]
      BY <2>6 DEF FindsSession, RemovesSession, At, Goto, locals, RenewalOK
    <3>2. QED
      BY <1>3, <3>1
  <2>7. CASE RenewStorageSession(n) \/ SendRefused(n)
    <3>1. \/ /\ \/ asked' = asked /\ pc' = [pc EXCEPT ![n] = "idle"]
                \/ asked' = asked /\ pc' = [pc EXCEPT ![n] = "send"]
                \/ asked' = asked /\ pc' = [pc EXCEPT ![n] = "create"]
          \/ asked' = [asked EXCEPT ![n].kind = "alternate"] /\ pc' = [pc EXCEPT ![n] = "unlist"]
      BY <2>7 DEF RenewStorageSession, SendRefused, LooksForAlternate, Goto
    <3>2. CASE asked' = [asked EXCEPT ![n].kind = "alternate"] /\ pc' = [pc EXCEPT ![n] = "unlist"]
      <4>1. asked'[n].kind = "alternate" /\ \A x \in Nodes : x # n => asked'[x] = asked[x]
        BY <1>1, <3>2 DEF Messages
      <4>2. QED
        BY <1>3, <3>2, <4>1
    <3>3. QED
      BY <1>4, <3>1, <3>2 DEF Labels
  <2>8. QED
    BY <1>5, <2>1, <2>2, <2>3, <2>4, <2>5, <2>6, <2>7 DEF HubThread, Answers
<1>6. ASSUME NEW n \in Clients, WaitTimesOut(n)
      PROVE  RenewalOK'
  BY <1>1, <1>4, <1>6 DEF WaitTimesOut, Goto, locals, Labels
<1>7. CASE UNCHANGED vars
  BY <1>2, <1>7 DEF vars, locals
<1>8. ASSUME NEW n \in Nodes, NodeReads(n)
      PROVE  RenewalOK'
  BY <1>2, <1>8
  DEF NodeReads, StartStoreSession, ReusesSession, ConnectsSession, ConnectFails,
      CancelTask, locals
<1>9. ASSUME NEW n \in Clients, NEW i \in Ids, Consumes(n, i) \/ SessionBreaks(n, i)
      PROVE  RenewalOK'
  BY <1>2, <1>9
  DEF Consumes, SendsChunk, OutOfBudget, StopsConsuming, AsksAgain, EndsSession, SendsIndex,
      SessionBreaks, locals
<1>10. ASSUME \/ SchedulerThread
              \/ \E n \in Clients : AsksIndex(n)
              \/ \E s \in Stores : ClearNode(s) \/ PutNodeOnline(s)
       PROVE  RenewalOK'
  BY <1>2, <1>10
  DEF SchedulerThread, HandleTaskEvent, SweepsSession, SweepsLoad, AsksIndex, ClearNode,
      PutNodeOnline, locals
<1>11. QED
  BY <1>5, <1>6, <1>7, <1>8, <1>9, <1>10 DEF Next

\* Only the scheduler takes sessions to remove, when it takes the task out of the queue.
LEMMA SweepNext ==
  ASSUME SweepOK, NEW n, Clients = {n}, TypeInv, [Next]_vars
  PROVE  SweepOK'
<1>1. UNCHANGED <<queued, sweep>> => SweepOK'
  BY DEF SweepOK, Sweeping
<1>2. ASSUME NEW x \in Nodes, HubThread(x) \/ NodeReads(x)
      PROVE  SweepOK'
  <2>1. CASE HandleSessionEvent(x) \/ ConfirmsUsage(x) \/ ReleasesReserved(x)
    BY <1>1, <2>1 DEF HandleSessionEvent, ConfirmsUsage, ReleasesReserved, tasks
  <2>2. CASE HandleReady(x) \/ Rings(x) \/ NodeReads(x)
    BY <1>1, <2>2
    DEF HandleReady, Rings, NodeReads, StartStoreSession, ReusesSession, ConnectsSession,
        ConnectFails, CancelTask, tasks
  <2>3. CASE Answers(x)
    BY <1>1, <2>3
    DEF Answers, AskStorage, TaskDone, FindsSession, RemovesSession, LowersLoad, ChooseStorage,
        NoStorage, ChoiceFails, RenewStorageSession, CreateStorageSessions, CreatedAll,
        SendsStore, SendRefused, Woken, Resets, TellsClient, ReadsReserved, Reserves,
        ListsSession, RaisesLoad, tasks
  <2>4. QED
    BY <1>2, <2>1, <2>2, <2>3 DEF HubThread
<1>3. CASE SchedulerThread
  <2>1. CASE SweepsSession \/ SweepsLoad
    <3>1. queued = {} /\ queued' = queued
      BY <2>1 DEF SweepOK, Sweeping, SweepsSession, SweepsLoad
    <3>2. QED
      BY <3>1 DEF SweepOK
  <2>2. ASSUME NEW c \in Clients, HandleTaskEvent(c)
        PROVE  SweepOK'
    <3>1. queued' = {}
      BY <2>2 DEF HandleTaskEvent, TypeInv, TasksOK
    <3>2. QED
      BY <3>1 DEF SweepOK
  <2>3. QED
    BY <1>3, <2>1, <2>2 DEF SchedulerThread
<1>4. ASSUME NEW i \in Ids, Consumes(n, i) \/ SessionBreaks(n, i)
      PROVE  SweepOK'
  BY <1>1, <1>4
  DEF Consumes, SendsChunk, OutOfBudget, StopsConsuming, AsksAgain, EndsSession, SendsIndex,
      SessionBreaks, tasks
<1>5. CASE \/ \E c \in Clients : WaitTimesOut(c) \/ AsksIndex(c)
           \/ \E s \in Stores : ClearNode(s) \/ PutNodeOnline(s)
           \/ UNCHANGED vars
  BY <1>1, <1>5 DEF WaitTimesOut, AsksIndex, ClearNode, PutNodeOnline, vars, tasks
<1>6. QED
  BY <1>2, <1>3, <1>4, <1>5 DEF Next

\* What no step brings back was there before.
LEMMA KeptRegular ==
  ASSUME Kept
  PROVE  Regular' => Regular
<1>1. Regular' => faults = 0 /\ ~reused
  BY DEF Regular, Kept
<1>2. ASSUME Regular', NEW c \in Clients, task[c] = "Cancelled"
      PROVE  FALSE
  BY <1>2 DEF Regular, Kept
<1>3. QED
  BY <1>1, <1>2 DEF Regular

\* Nothing is lost, and nobody is refused, before the first failure.
LEMMA NoFailure ==
  ASSUME TypeInv, VerifiedOK, Next, faults' = 0
  PROVE  /\ faults = 0 /\ verified = Nodes
         /\ \A n \in Clients : ~SendRefused(n) /\ ~WaitTimesOut(n)
         /\ \A s \in Stores : ~ClearNode(s) /\ ~PutNodeOnline(s)
<1>1. faults = 0 /\ verified = Nodes
  BY NothingForgotten DEF Kept, VerifiedOK
<1>2. \A n \in Clients : creating[n].store \in verified
  BY <1>1 DEF TypeInv, LocalsOK, Creatings, Nodes
<1>3. \A n \in Clients : ~SendRefused(n)
  BY <1>2 DEF SendRefused
<1>4. \A n \in Clients : WaitTimesOut(n) => Faults
  BY <1>2 DEF WaitTimesOut
<1>5. \A s \in Stores : ClearNode(s) => Faults
  BY DEF ClearNode
<1>6. ~Faults
  BY <1>1 DEF Faults
<1>7. \A s \in Stores : ~PutNodeOnline(s)
  BY <1>1 DEF PutNodeOnline, Nodes
<1>8. QED
  BY <1>1, <1>3, <1>4, <1>5, <1>6, <1>7

LEMMA TurnNext ==
  ASSUME TypeInv, VerifiedOK, TurnInv, RenewalOK, SweepOK, NEW n, Clients = {n}, [Next]_vars
  PROVE  TurnInv'
<1>1. SUFFICES ASSUME Regular', NEW i \in Ids PROVE InTurn(n, i)'
  BY DEF TurnInv
<1>2. n \in Clients /\ n \in Nodes
  BY DEF Nodes
<1>3. CASE UNCHANGED vars
  <2>1. Regular /\ UNCHANGED <<queued, fromNode, toNode, conn, pc, asked, creating, session>>
    BY <1>1, <1>3 DEF Regular, vars, hubState, tasks, wires, clientState, locals, counters
  <2>2. InTurn(n, i) /\ Same(n, i)
    BY <1>2, <2>1, NothingSaid DEF TurnInv, Same
  <2>3. QED
    BY <1>2, <2>2, KeepsTurn
<1>4. CASE Next
  <2>1. Regular
    BY <1>1, <1>4, NothingForgotten, KeptRegular
  <2>2. InTurn(n, i)
    BY <1>2, <2>1 DEF TurnInv
  <2>3. /\ ~SendRefused(n) /\ ~WaitTimesOut(n) /\ \A s \in Stores : ~ClearNode(s) /\ ~PutNodeOnline(s)
    BY <1>1, <1>2, <1>4, NoFailure DEF Regular
  <2>4. ~reused'
    BY <1>1 DEF Regular
  <2>5. ASSUME NEW x \in Nodes, HubThread(x)
        PROVE  InTurn(n, i)'
    <3>1. CASE HandleSessionEvent(x)
      BY <1>2, <2>2, <3>1, HandleSessionEventTurn
    <3>2. CASE \/ ConfirmsUsage(x) \/ ReleasesReserved(x) \/ HandleReady(x) \/ Rings(x)
               \/ x \in Clients /\ (\/ AskStorage(x) \/ TaskDone(x) \/ FindsSession(x)
                                     \/ LowersLoad(x) \/ ChoiceFails(x) \/ CreatedAll(x)
                                     \/ Woken(x) \/ Resets(x) \/ ReadsReserved(x)
                                     \/ Reserves(x) \/ RaisesLoad(x))
      BY <1>2, <2>2, <3>2, HubKeepsTurn, KeepsTurn
    <3>3. CASE x \in Clients /\ (ChooseStorage(x) \/ NoStorage(x))
      BY <1>2, <2>2, <3>3, ChoosesTurn
    <3>4. CASE x \in Clients /\ RenewStorageSession(x)
      BY <1>2, <2>2, <3>4, RenewsTurn
    <3>5. CASE x \in Clients /\ CreateStorageSessions(x)
      BY <1>2, <2>2, <2>4, <3>5, CreatesTurn
    <3>6. CASE x \in Clients /\ SendsStore(x)
      BY <1>2, <2>2, <3>6, SendsStoreTurn
    <3>7. CASE x \in Clients /\ TellsClient(x)
      BY <1>2, <2>2, <3>7, TellsClientTurn
    <3>8. CASE x \in Clients /\ ListsSession(x)
      BY <1>2, <2>2, <3>8, ListsSessionTurn
    <3>9. CASE x \in Clients /\ RemovesSession(x)
      BY <1>2, <2>2, <3>9, RemovesSessionTurn
    <3>10. QED
      BY <1>2, <2>3, <2>5, <3>1, <3>2, <3>3, <3>4, <3>5, <3>6, <3>7, <3>8, <3>9
      DEF HubThread, Answers
  <2>6. ASSUME NEW x \in Nodes, NodeReads(x)
        PROVE  InTurn(n, i)'
    <3>1. CASE (x \in Stores /\ StartStoreSession(x)) \/ (x \in Clients /\ CancelTask(x))
      BY <1>2, <2>2, <3>1, NodeKeepsTurn, KeepsTurn
    <3>2. CASE x \in Clients /\ (ReusesSession(x) \/ ConnectsSession(x) \/ ConnectFails(x))
      BY <1>2, <2>2, <3>2, ReadsGrantTurn
    <3>3. QED
      BY <2>6, <3>1, <3>2 DEF NodeReads
  <2>7. SchedulerThread => InTurn(n, i)'
    BY <1>2, <2>2, HandleTaskEventTurn, SweepsTurn DEF SchedulerThread
  <2>8. AsksIndex(n) => InTurn(n, i)'
    BY <1>2, <2>2, NodeKeepsTurn, KeepsTurn
  <2>9. ASSUME NEW j \in Ids, Consumes(n, j) \/ SessionBreaks(n, j)
        PROVE  InTurn(n, i)'
    <3>1. CASE SendsChunk(n, j) \/ EndsSession(n, j) \/ SendsIndex(n, j)
      BY <1>2, <2>2, <3>1, SendsTurn, KeepsTurn
    <3>2. CASE StopsConsuming(n, j)
      BY <1>2, <2>2, <3>2, StopsTurn, KeepsTurn
    <3>3. CASE OutOfBudget(n, j) \/ AsksAgain(n, j) \/ SessionBreaks(n, j)
      BY <1>2, <2>2, <3>3, AsksTurn
    <3>4. QED
      BY <2>9, <3>1, <3>2, <3>3 DEF Consumes
  <2>10. QED
    BY <1>4, <2>3, <2>5, <2>6, <2>7, <2>8, <2>9 DEF Next
<1>5. QED
  BY <1>3, <1>4

LEMMA TurnInvCorrect ==
  ASSUME NEW n, Clients = {n}
  PROVE  Spec => [](TurnInv /\ RenewalOK /\ SweepOK)
<1>1. TypeInv /\ VerifiedOK /\ TurnInv /\ RenewalOK /\ SweepOK /\ [Next]_vars
        => TurnInv' /\ RenewalOK' /\ SweepOK'
  BY TurnNext, RenewalNext, SweepNext
<1>2. QED
  BY <1>1, TypeInvCorrect, VerifiedCorrect, TurnInit, PTL DEF Spec

-----------------------------------------------------------------------------
(* The budgets of the two ends of a session.                               *)

\* What is said to open a session is what the hub has created or renewed.
OrdersMatch(n) ==
  \A s \in Stores : \A o \in Members(toNode[s]) : o.kind = "STORE" =>
    /\ pc[n] = "wait" /\ o.client = n /\ creating[n].store = s
    /\ o.id = creating[n].id /\ o.budget = creating[n].budget

\* The storage node has read the order to open or renew the session.
Opened(n, i) ==
  /\ Making(n, i) /\ pc[n] # "send"
  /\ pc[n] = "wait" => ~One(toNode[creating[n].store], "STORE", n)

\* There is budget b for the client at the storage node.
Fits(n, i, s, b) ==
  LET r == receiving[s][<<n, i>>] IN
  IF conn[n][i].open THEN conn[n][i].budget + b <= r.budget
  ELSE r.awaited => b <= r.budget

Open(n, i) == Receiver(n, i).open /\ conn[n][i].budget <= Receiver(n, i).budget

BudgetOK(n, i) ==
  /\ conn[n][i].open => Open(n, i)
  /\ Opened(n, i) => Fits(n, i, creating[n].store, creating[n].budget)
  /\ \A o \in Members(toNode[n]) \cap GrantsOf(i) : Fits(n, i, o.store, o.budget)

\* A storage node has nothing of a session it has closed.
ReceiversOK ==
  \A s \in Stores : \A k \in Clients \X Ids :
    receiving[s][k].open \/ receiving[s][k] = NoReceiver

BudgetInv ==
  /\ ReceiversOK
  /\ Regular => \A n \in Clients : OrdersMatch(n) /\ \A i \in Ids : BudgetOK(n, i)

LEMMA ReceiverOf ==
  ASSUME TypeInv, NEW s \in Stores, NEW k \in Clients \X Ids, NEW new,
         receiving' = [receiving EXCEPT ![s] = [receiving[s] EXCEPT ![k] = new]]
  PROVE  /\ receiving'[s][k] = new
         /\ \A t \in Stores : \A l \in Clients \X Ids : t # s \/ l # k =>
              receiving'[t][l] = receiving[t][l]
<1>1. receiving \in [Stores -> [Clients \X Ids -> Receivers]]
  BY DEF TypeInv, StoresOK
<1>2. /\ receiving'[s] = [receiving[s] EXCEPT ![k] = new]
      /\ receiving[s] \in [Clients \X Ids -> Receivers]
      /\ \A t \in Stores : t # s => receiving'[t] = receiving[t]
  BY <1>1
<1>3. QED
  BY <1>2

\* What the storage node's end becomes.
LEMMA ReceiversBecome ==
  ASSUME TypeInv, NEW n \in Clients, NEW j \in Ids
  PROVE  LET s == conn[n][j].store
             r == Receiver(n, j) IN
         /\ CloseReceiver(n, j) => receiving'[s][<<n, j>>] = NoReceiver
         /\ Carry(n, j) => /\ r.open /\ r.budget > 0
                           /\ receiving'[s][<<n, j>>]
                                = [r EXCEPT !.budget = @ - 1, !.handled = @ + 1]
         /\ CloseReceiver(n, j) \/ Carry(n, j) \/ UNCHANGED receiving =>
              \A t \in Stores : \A l \in Clients \X Ids : t # s \/ l # <<n, j>> =>
                receiving'[t][l] = receiving[t][l]
<1> DEFINE s == conn[n][j].store
           k == <<n, j>>
           r == Receiver(n, j)
           carried == [r EXCEPT !.budget = @ - 1, !.handled = @ + 1]
<1>1. s \in Stores /\ k \in Clients \X Ids
  BY OpenTypes
<1>2. CloseReceiver(n, j) =>
        receiving' = [receiving EXCEPT ![s] = [receiving[s] EXCEPT ![k] = NoReceiver]]
  BY DEF CloseReceiver
<1>3. ASSUME Carry(n, j)
      PROVE  /\ r.open /\ r.budget > 0
             /\ receiving' = [receiving EXCEPT ![s] = [receiving[s] EXCEPT ![k] = carried]]
  BY <1>3 DEF Carry
<1> HIDE DEF carried, s, k
<1>4. CloseReceiver(n, j) =>
        /\ receiving'[s][k] = NoReceiver
        /\ \A t \in Stores : \A l \in Clients \X Ids : t # s \/ l # k =>
             receiving'[t][l] = receiving[t][l]
  BY <1>1, <1>2, ReceiverOf
<1>5. Carry(n, j) =>
        /\ receiving'[s][k] = carried
        /\ \A t \in Stores : \A l \in Clients \X Ids : t # s \/ l # k =>
             receiving'[t][l] = receiving[t][l]
  BY <1>1, <1>3, ReceiverOf
<1>6. QED
  BY <1>3, <1>4, <1>5 DEF carried, s, k

\* Nothing of a session changes, and none is opened.
LEMMA KeepsBudget ==
  ASSUME NEW n \in Clients, NEW i \in Ids, BudgetOK(n, i), SameGranting(n, i),
         conn'[n][i] = conn[n][i],
         \A s \in Stores : receiving'[s][<<n, i>>] = receiving[s][<<n, i>>],
         Opened(n, i)' => Opened(n, i) /\ creating'[n] = creating[n],
         TypeInv
  PROVE  BudgetOK(n, i)'
<1>1. /\ conn[n][i].store \in Stores /\ creating[n].store \in Stores
      /\ \A o \in GrantsOf(i) : o.store \in Stores
  BY OpenTypes DEF TypeInv, LocalsOK, Creatings, GrantsOf, OrdersOfHub
<1>2. \A s \in Stores : \A b : Fits(n, i, s, b) => Fits(n, i, s, b)'
  BY DEF Fits
<1>3. conn'[n][i].open => Open(n, i)'
  BY <1>1 DEF BudgetOK, Open, Receiver
<1>4. Opened(n, i)' => Fits(n, i, creating[n].store, creating[n].budget)'
  BY <1>1, <1>2 DEF BudgetOK
<1>5. \A o \in Members(toNode'[n]) \cap GrantsOf(i) : Fits(n, i, o.store, o.budget)'
  BY <1>1, <1>2 DEF BudgetOK, SameGranting
<1>6. QED
  BY <1>3, <1>4, <1>5 DEF BudgetOK

\* A step that opens no session at a storage node.
OpensNone(n) ==
  /\ \A i \in Ids : SameGranting(n, i)
  /\ \A s \in Stores : Passes(toNode[s], toNode'[s], "STORE")
  /\ \/ pc'[n] = pc[n] /\ creating'[n] = creating[n]
     \/ pc[n] # "wait" /\ pc'[n] \notin {"wait", "reset", "tell"}

LEMMA PassesMembers ==
  ASSUME NEW q \in Seq(OrdersOfHub), NEW p, NEW kind, Passes(q, p, kind)
  PROVE  \A o \in Members(p) : o.kind = kind => o \in Members(q)
<1> DEFINE S == Messages \cup OrdersOfHub
<1>1. q \in Seq(S)
  OBVIOUS
<1> HIDE DEF S
<1>2. ASSUME NEW m \in S, m.kind # kind, p = Append(q, m)
      PROVE  \A o \in Members(p) : o.kind = kind => o \in Members(q)
  BY <1>1, <1>2, AppendedTo
<1>3. CASE q # <<>> /\ p = Tail(q)
  BY <1>1, <1>3, TakenFrom
<1>4. QED
  BY <1>2, <1>3 DEF Passes, S

LEMMA OpensNoneKeeps ==
  ASSUME TypeInv, NEW n \in Clients, OpensNone(n)
  PROVE  /\ OrdersMatch(n) => OrdersMatch(n)'
         /\ \A i \in Ids : Opened(n, i)' => Opened(n, i) /\ creating'[n] = creating[n]
<1>1. \A s \in Stores : toNode[s] \in Seq(OrdersOfHub)
  BY DEF TypeInv, WiresOK, Nodes
<1>2. \A s \in Stores : \A o \in Members(toNode'[s]) : o.kind = "STORE" =>
        o \in Members(toNode[s])
  BY <1>1, PassesMembers DEF OpensNone
<1>3. OrdersMatch(n) => OrdersMatch(n)'
  BY <1>2 DEF OrdersMatch, OpensNone
<1>4. ASSUME NEW i \in Ids, Opened(n, i)'
      PROVE  Opened(n, i) /\ creating'[n] = creating[n]
  <2>1. pc'[n] = pc[n] /\ creating'[n] = creating[n]
    BY <1>4 DEF Opened, Making, OpensNone
  <2>2. creating[n].store \in Stores
    BY DEF TypeInv, LocalsOK, Creatings
  <2>3. One(toNode[creating[n].store], "STORE", n) => One(toNode'[creating[n].store], "STORE", n)
    BY <1>1, <2>2, Passed DEF OpensNone
  <2>4. QED
    BY <1>4, <2>1, <2>3 DEF Opened, Making
<1>5. QED
  BY <1>3, <1>4

\* What the hub does with no storage node at the other end.
LEMMA HubOpensNone ==
  ASSUME TypeInv, NEW n \in Clients, Clients = {n}, NEW x \in Nodes,
         \/ HandleSessionEvent(x) \/ ConfirmsUsage(x) \/ ReleasesReserved(x)
         \/ HandleReady(x) \/ Rings(x)
         \/ x \in Clients /\ (\/ AskStorage(x) \/ TaskDone(x) \/ FindsSession(x)
                               \/ RemovesSession(x) \/ LowersLoad(x) \/ ChooseStorage(x)
                               \/ NoStorage(x) \/ ChoiceFails(x) \/ RenewStorageSession(x)
                               \/ CreateStorageSessions(x) \/ CreatedAll(x)
                               \/ ReadsReserved(x) \/ Reserves(x) \/ ListsSession(x)
                               \/ RaisesLoad(x))
  PROVE  UNCHANGED <<conn, receiving>> /\ OpensNone(n)
<1>1. pc \in [Nodes -> Labels] /\ n \in Nodes
  BY DEF TypeInv, LabelsOK, Nodes
<1> DEFINE o == Order("cancel", n, 0, AnyStore, 0, 0)
<1>2. o \in OrdersOfHub /\ o.kind # "STORE" /\ \A i \in Ids : o \notin GrantsOf(i)
  BY Recorded, Constants DEF Order, GrantsOf
<1>3. CASE \/ HandleSessionEvent(x) \/ ConfirmsUsage(x) \/ ReleasesReserved(x)
           \/ HandleReady(x) \/ Rings(x)
  <2>1. UNCHANGED <<conn, receiving, toNode, creating>>
        /\ pc[x] \in {"idle", "confirm", "release", "ring"}
        /\ \/ pc' = pc
           \/ \E label \in {"idle", "confirm", "release", "ring", "renew", "unlist", "choose"} :
                pc' = [pc EXCEPT ![x] = label]
    BY <1>3
    DEF HandleSessionEvent, ConfirmsUsage, ReleasesReserved, HandleReady, Rings, AfterUsage,
        Answer, Reads, At, Goto, clientState, storeState, wires, locals
  <2>2. \/ pc'[n] = pc[n] /\ creating'[n] = creating[n]
        \/ pc[n] # "wait" /\ pc'[n] \notin {"wait", "reset", "tell"}
    BY <1>1, <2>1
  <2>3. QED
    BY <2>1, <2>2, NothingSaid, MessagesPass DEF OpensNone
<1>4. CASE x \in Clients /\ (\/ AskStorage(x) \/ TaskDone(x) \/ ChooseStorage(x)
                             \/ NoStorage(x) \/ ChoiceFails(x))
  <2>1. x = n /\ UNCHANGED <<conn, receiving, creating>> /\ (UNCHANGED toNode \/ SendNode(n, o))
    BY <1>4
    DEF AskStorage, TaskDone, ChooseStorage, NoStorage, ChoiceFails, clientState, storeState,
        wires, locals
  <2>2. /\ pc[n] \in {"idle", "choose"}
        /\ \/ pc' = pc \/ \E label \in {"idle", "choose", "create"} : pc' = [pc EXCEPT ![n] = label]
    BY <1>4, <2>1
    DEF AskStorage, TaskDone, ChooseStorage, NoStorage, ChoiceFails, Reads, At, Goto
  <2>3. \/ pc'[n] = pc[n] /\ creating'[n] = creating[n]
        \/ pc[n] # "wait" /\ pc'[n] \notin {"wait", "reset", "tell"}
    BY <1>1, <2>1, <2>2
  <2> HIDE DEF o
  <2>4. \A i \in Ids : SameGranting(n, i)
    BY <1>1, <1>2, <2>1, NothingSaid, NodeGets
  <2>5. \A s \in Stores : Passes(toNode[s], toNode'[s], "STORE")
    BY <1>1, <1>2, <2>1, MessagesPass
  <2>6. QED
    BY <2>1, <2>3, <2>4, <2>5 DEF OpensNone
<1>5. CASE x \in Clients /\ (\/ RenewStorageSession(x) \/ CreateStorageSessions(x)
                             \/ CreatedAll(x) \/ ListsSession(x) \/ RaisesLoad(x))
  <2>1. x = n /\ UNCHANGED <<conn, receiving, toNode>>
    BY <1>5
    DEF RenewStorageSession, CreateStorageSessions, CreatedAll, ListsSession, RaisesLoad,
        clientState, storeState, wires
  <2>2. /\ pc[n] \in {"renew", "create", "enlist", "raise"}
        /\ \E label \in {"idle", "send", "unlist", "create", "raise"} :
             pc' = [pc EXCEPT ![n] = label]
    BY <1>5, <2>1
    DEF RenewStorageSession, CreateStorageSessions, CreatedAll, ListsSession, RaisesLoad,
        Created, LooksForAlternate, At, Goto
  <2>3. pc[n] # "wait" /\ pc'[n] \notin {"wait", "reset", "tell"}
    BY <1>1, <2>2
  <2>4. QED
    BY <2>1, <2>3, NothingSaid, MessagesPass DEF OpensNone
<1>6. CASE x \in Clients /\ (\/ FindsSession(x) \/ RemovesSession(x) \/ LowersLoad(x)
                             \/ ReadsReserved(x) \/ Reserves(x))
  <2>1. x = n /\ UNCHANGED <<conn, receiving, toNode>>
    BY <1>6
    DEF FindsSession, RemovesSession, LowersLoad, ReadsReserved, Reserves, clientState,
        storeState, wires
  <2>2. /\ pc[n] \in {"unlist", "remove", "lower", "reserve", "book"}
        /\ \E label \in {"idle", "remove", "lower", "choose", "book", "enlist"} :
             pc' = [pc EXCEPT ![n] = label]
    BY <1>6, <2>1
    DEF FindsSession, RemovesSession, LowersLoad, ReadsReserved, Reserves, At, Goto
  <2>3. pc[n] # "wait" /\ pc'[n] \notin {"wait", "reset", "tell"}
    BY <1>1, <2>2
  <2>4. QED
    BY <2>1, <2>3, NothingSaid, MessagesPass DEF OpensNone
<1>7. QED
  BY <1>3, <1>4, <1>5, <1>6


\* What the client does but for its connections.
LEMMA ClientOpensNone ==
  ASSUME TypeInv, NEW n \in Clients,
         \/ ReusesSession(n) \/ ConnectsSession(n) \/ ConnectFails(n) \/ CancelTask(n)
         \/ AsksIndex(n)
         \/ \E j \in Ids : Consumes(n, j) \/ SessionBreaks(n, j)
  PROVE  OpensNone(n)
<1>1. \A s \in Stores : Passes(toNode[s], toNode'[s], "STORE")
  BY ClientUnconcerned DEF Unconcerned
<1>2. /\ UNCHANGED <<pc, creating>>
      /\ \/ UNCHANGED toNode
         \/ Receives(n, {"grant", "index"})
         \/ Receives(n, {"cancel"})
  BY DEF ReusesSession, ConnectsSession, ConnectFails, CancelTask, AsksIndex,
         Consumes, SendsChunk, OutOfBudget, StopsConsuming, AsksAgain, EndsSession,
         SendsIndex, SessionBreaks, locals, wires
<1>3. \A i \in Ids : SameGranting(n, i)
  BY <1>2, NothingSaid, NodeTakes DEF Nodes
<1>4. QED
  BY <1>1, <1>2, <1>3 DEF OpensNone

\* What the scheduler does.
LEMMA SchedulerOpensNone ==
  ASSUME TypeInv, NEW n \in Clients, SchedulerThread
  PROVE  UNCHANGED <<conn, receiving>> /\ OpensNone(n)
<1>1. UNCHANGED <<pc, creating, toNode, conn, receiving>>
  BY DEF SchedulerThread, HandleTaskEvent, SweepsSession, SweepsLoad, locals, wires,
         clientState, storeState
<1>2. \A s \in Stores : Passes(toNode[s], toNode'[s], "STORE")
  BY SchedulerUnconcerned DEF Unconcerned
<1>3. QED
  BY <1>1, <1>2, NothingSaid DEF OpensNone

\* The order goes to the storage node, which has none to read.
LEMMA SendsStoreBudget ==
  ASSUME TypeInv, NEW n \in Clients, NEW i \in Ids, OrdersMatch(n), BudgetOK(n, i),
         SendsStore(n)
  PROVE  OrdersMatch(n)' /\ BudgetOK(n, i)'
<1> DEFINE o == SessionOrder(n, "STORE")
           s == creating[n].store
<1>1. /\ pc \in [Nodes -> Labels] /\ n \in Nodes /\ creating[n] \in Creatings
      /\ toNode \in [Nodes -> Seq(OrdersOfHub)] /\ s \in Stores /\ s \in Nodes
  BY DEF TypeInv, LabelsOK, LocalsOK, WiresOK, Creatings, Nodes
<1>2. UNCHANGED <<conn, receiving, creating>> /\ pc[n] = "send" /\ pc'[n] = "wait"
      /\ SendNode(s, o)
  <2>1. UNCHANGED <<conn, receiving, creating>> /\ SendNode(s, o)
    BY DEF SendsStore, locals, clientState, storeState
  <2>2. pc[n] = "send" /\ pc'[n] = "wait"
    BY <1>1 DEF SendsStore, At, Goto
  <2>3. QED
    BY <2>1, <2>2
<1>3. o \in OrdersOfHub /\ o.kind = "STORE" /\ o.client = n /\ o.id = creating[n].id
      /\ o.budget = creating[n].budget
  <2>1. creating[n].id \in Ids
    BY <1>2 DEF TypeInv, WorkOK
  <2>2. QED
    BY <2>1, SessionOrderTypes DEF SessionOrder, Order
<1> HIDE DEF o, s
<1>4. \A t \in Stores : \A p \in Members(toNode[t]) : p.kind # "STORE"
  BY <1>2 DEF OrdersMatch
<1>5. /\ toNode'[s] = Append(toNode[s], o)
      /\ \A t \in Stores : t # s => toNode'[t] = toNode[t]
  BY <1>1, <1>2 DEF SendNode, Nodes
<1>6. Members(toNode'[s]) = Members(toNode[s]) \cup {o}
  BY <1>1, <1>3, <1>5, AppendedTo
<1>7. OrdersMatch(n)'
  <2>1. ASSUME NEW t \in Stores, NEW p \in Members(toNode'[t]), p.kind = "STORE"
        PROVE  p = o /\ t = s
    BY <1>4, <1>5, <1>6, <2>1
  <2>2. QED
    BY <1>2, <1>3, <2>1 DEF OrdersMatch, s
<1>8. One(toNode'[s], "STORE", n)
  <2>1. None(toNode[s], "STORE")
    BY <1>1, <1>4 DEF None, Members
  <2>2. toNode[s] \in Seq(OrdersOfHub)
    BY <1>1
  <2>3. QED
    BY <1>3, <1>5, <2>1, <2>2, Appended
<1>9. ~Opened(n, i)'
  BY <1>2, <1>8 DEF Opened, s
<1>10. SameGranting(n, i)
  <2>1. o \notin GrantsOf(i)
    BY <1>3 DEF GrantsOf
  <2>2. QED
    BY <1>1, <1>2, <1>3, <2>1, NodeGets
<1>11. QED
  BY <1>2, <1>7, <1>9, <1>10, KeepsBudget

\* The thread that waits is woken by the answer of the storage node.
LEMMA WokenBudget ==
  ASSUME TypeInv, NEW n \in Clients, NEW i \in Ids, OrdersMatch(n), BudgetOK(n, i),
         \A s \in Stores : Settled(s), Woken(n) \/ Resets(n)
  PROVE  OrdersMatch(n)' /\ BudgetOK(n, i)'
<1> DEFINE s == creating[n].store
<1>1. /\ pc \in [Nodes -> Labels] /\ n \in Nodes /\ s \in Stores
      /\ \A t \in Stores : toNode[t] \in Seq(OrdersOfHub)
  BY DEF TypeInv, LabelsOK, LocalsOK, WiresOK, Creatings, Nodes
<1>2. UNCHANGED <<conn, receiving, creating, toNode>>
  BY DEF Woken, Resets, locals, clientState, storeState, wires
<1>3. \/ pc[n] = "wait" /\ pc'[n] = "reset" /\ event[s]
      \/ pc[n] = "reset" /\ pc'[n] = "tell"
  BY <1>1 DEF Woken, Resets, At, Goto, GoesOn
<1>4. CASE pc[n] = "wait"
  <2>1. None(toNode[s], "STORE")
    BY <1>1, <1>3, <1>4 DEF Settled, Quiet, Awaited, Ordered, Answered, Ringing, Rung
  <2>2. ~One(toNode[s], "STORE", n)
    BY <2>1 DEF None, One
  <2>3. \A p \in Members(toNode[s]) : p.kind # "STORE"
    BY <2>1 DEF None, Members
  <2>4. \A t \in Stores : \A p \in Members(toNode[t]) : p.kind # "STORE"
    BY <1>1, <2>3 DEF OrdersMatch
  <2>5. OrdersMatch(n)'
    BY <1>2, <2>4 DEF OrdersMatch
  <2>6. Opened(n, i)' => Opened(n, i) /\ creating'[n] = creating[n]
    BY <1>2, <1>4, <2>2 DEF Opened, Making
  <2>7. QED
    BY <1>2, <2>5, <2>6, KeepsBudget, NothingSaid
<1>5. CASE pc[n] = "reset"
  <2>1. OrdersMatch(n)'
    BY <1>2, <1>5 DEF OrdersMatch
  <2>2. Opened(n, i)' => Opened(n, i) /\ creating'[n] = creating[n]
    BY <1>2, <1>5 DEF Opened, Making
  <2>3. QED
    BY <1>2, <2>1, <2>2, KeepsBudget, NothingSaid
<1>6. QED
  BY <1>3, <1>4, <1>5

\* The client is told what the storage node has opened or renewed.
LEMMA TellsClientBudget ==
  ASSUME TypeInv, NEW n \in Clients, NEW i \in Ids, OrdersMatch(n), BudgetOK(n, i),
         TellsClient(n)
  PROVE  OrdersMatch(n)' /\ BudgetOK(n, i)'
<1> DEFINE o == SessionOrder(n, creating[n].kind)
<1>1. /\ pc \in [Nodes -> Labels] /\ n \in Nodes /\ creating[n] \in Creatings
      /\ toNode \in [Nodes -> Seq(OrdersOfHub)]
  BY DEF TypeInv, LabelsOK, LocalsOK, WiresOK, Nodes
<1>2. UNCHANGED <<conn, receiving, creating>> /\ pc[n] = "tell" /\ pc'[n] = "reserve"
      /\ SendNode(n, o)
  <2>1. UNCHANGED <<conn, receiving, creating>> /\ SendNode(n, o)
    BY DEF TellsClient, locals, clientState, storeState
  <2>2. pc[n] = "tell" /\ pc'[n] = "reserve"
    BY <1>1 DEF TellsClient, At, Goto
  <2>3. QED
    BY <2>1, <2>2
<1>3. /\ o \in OrdersOfHub /\ o.kind # "STORE" /\ o.id = creating[n].id
      /\ o.store = creating[n].store /\ o.budget = creating[n].budget
      /\ o.store \in Stores
  <2>1. creating[n].id \in Ids
    BY <1>2 DEF TypeInv, WorkOK
  <2>2. creating[n].kind \in {"grant", "index"} /\ creating[n].store \in Stores
    BY <1>1 DEF Creatings
  <2>3. o \in OrdersOfHub
    BY <2>1, <2>2, SessionOrderTypes
  <2>4. QED
    BY <2>2, <2>3 DEF SessionOrder, Order
<1> HIDE DEF o
<1>4. toNode'[n] = Append(toNode[n], o) /\ Members(toNode'[n]) = Members(toNode[n]) \cup {o}
  BY <1>1, <1>2, <1>3, AppendedTo DEF SendNode
<1>5. OrdersMatch(n)'
  <2>1. \A s \in Stores : Passes(toNode[s], toNode'[s], "STORE")
    BY <1>1, <1>2, <1>3, MessagesPass
  <2>2. \A s \in Stores : toNode[s] \in Seq(OrdersOfHub)
    BY <1>1 DEF Nodes
  <2>3. \A s \in Stores : \A p \in Members(toNode'[s]) : p.kind = "STORE" =>
          p \in Members(toNode[s])
    BY <2>1, <2>2, PassesMembers
  <2>4. QED
    BY <1>2, <2>3 DEF OrdersMatch
<1>6. ~Opened(n, i)'
  BY <1>2 DEF Opened, Making
<1>7. o \in GrantsOf(i) => Fits(n, i, o.store, o.budget)
  BY <1>2, <1>3 DEF BudgetOK, Opened, Making, GrantsOf
<1>8. \A s, b : Fits(n, i, s, b) => Fits(n, i, s, b)'
  BY <1>2 DEF Fits
<1>9. conn'[n][i].open => Open(n, i)'
  BY <1>2 DEF BudgetOK, Open, Receiver
<1>10. \A p \in Members(toNode'[n]) \cap GrantsOf(i) : Fits(n, i, p.store, p.budget)'
  BY <1>4, <1>7, <1>8 DEF BudgetOK
<1>11. QED
  BY <1>5, <1>6, <1>9, <1>10 DEF BudgetOK

\* The storage node opens or renews the session.
LEMMA StartStoreSessionBudget ==
  ASSUME TypeInv, NEW n \in Clients, NEW i \in Ids, OrdersMatch(n), BudgetOK(n, i),
         InTurn(n, i), ReceiversOK, NEW s \in Stores, StartStoreSession(s)
  PROVE  OrdersMatch(n)' /\ BudgetOK(n, i)'
<1> DEFINE o == Head(toNode[s])
           k == <<n, o.id>>
           r == receiving[s][k]
           new == IF r.open THEN [r EXCEPT !.budget = @ + o.budget]
                  ELSE [open |-> TRUE, awaited |-> TRUE, budget |-> o.budget, handled |-> 0]
<1>1. /\ s \in Nodes /\ n \in Nodes /\ toNode \in [Nodes -> Seq(OrdersOfHub)]
      /\ toNode[s] # <<>> /\ o.kind = "STORE" /\ toNode'[s] = Tail(toNode[s])
      /\ \A t \in Stores : t # s => toNode'[t] = toNode[t]
  BY DEF StartStoreSession, Receives, TypeInv, WiresOK, Nodes
<1>2. UNCHANGED <<conn, creating, pc>>
  BY DEF StartStoreSession, locals, clientState
<1>3. o \in Members(toNode[s]) /\ Members(toNode'[s]) \subseteq Members(toNode[s])
      /\ o \in OrdersOfHub
  BY <1>1, TakenFrom
<1>4. /\ pc[n] = "wait" /\ o.client = n /\ creating[n].store = s /\ o.id = creating[n].id
      /\ o.budget = creating[n].budget
  BY <1>1, <1>3 DEF OrdersMatch
<1>5. o.id \in Ids /\ o.budget \in Nat /\ k \in Clients \X Ids /\ r \in Receivers
  <2>1. o.id \in Ids /\ o.budget \in Nat
    BY <1>3, <1>4 DEF TypeInv, WorkOK, OrdersOfHub
  <2>2. QED
    BY <2>1 DEF TypeInv, StoresOK
<1>6. OrdersMatch(n)'
  <2>1. \A t \in Stores : Members(toNode'[t]) \subseteq Members(toNode[t])
    BY <1>1, <1>3
  <2>2. QED
    BY <1>2, <2>1 DEF OrdersMatch
<1>7. receiving' = [receiving EXCEPT ![s] = [receiving[s] EXCEPT ![k] = new]]
  BY <1>4 DEF StartStoreSession
<1>8. SameGranting(n, i)
  BY <1>1, NodeTakes DEF StartStoreSession
<1>9. new.open /\ new.budget \in Nat /\ new.budget >= o.budget /\ (r.open => new.budget = r.budget + o.budget)
  BY <1>5 DEF Receivers
<1> HIDE DEF new, k, o
<1>10. /\ receiving'[s][k] = new
       /\ \A t \in Stores : \A l \in Clients \X Ids : t # s \/ l # k =>
            receiving'[t][l] = receiving[t][l]
  <2>1. k \in Clients \X Ids
    BY <1>5
  <2> HIDE DEF r
  <2>2. receiving \in [Stores -> [Clients \X Ids -> Receivers]]
    BY DEF TypeInv, StoresOK
  <2>3. \A t \in Stores : receiving'[t] = IF t = s THEN [receiving[s] EXCEPT ![k] = new]
                                                 ELSE receiving[t]
    BY <1>7, <2>2
  <2>4. receiving[s] \in [Clients \X Ids -> Receivers]
    BY <2>2
  <2>5. QED
    BY <2>1, <2>3, <2>4
<1>11. CASE i # creating[n].id
  <2>1. \A t \in Stores : receiving'[t][<<n, i>>] = receiving[t][<<n, i>>]
    BY <1>4, <1>10, <1>11 DEF k
  <2>2. ~Opened(n, i)'
    BY <1>2, <1>11 DEF Opened, Making
  <2>3. QED
    BY <1>2, <1>6, <1>8, <2>1, <2>2, KeepsBudget
<1>12. CASE i = creating[n].id
  <2>1. k = <<n, i>>
    BY <1>4, <1>12 DEF k
  <2>2. Making(n, i) /\ Creates(n, i)
    BY <1>4, <1>12 DEF Making, Creates
  <2>3. ~Granting(n, i)'
    BY <1>8, <2>2 DEF InTurn, OneTurn, Granting, SameGranting
  <2>4. conn[n][i].open => conn[n][i].store = s /\ r.open /\ conn[n][i].budget <= r.budget
    <3>1. conn[n][i].open => Leads(n, i, conn[n][i].store) /\ Leads(n, i, s)
      BY <1>4, <2>2 DEF Leads
    <3>2. conn[n][i].open => conn[n][i].store = s
      BY <3>1, OpenTypes DEF InTurn, OnePlace
    <3>3. QED
      BY <2>1, <3>2 DEF BudgetOK, Open, Receiver
  <2>5. conn[n][i].budget \in Nat /\ r.budget \in Nat
    BY <1>5, OpenTypes DEF Conns, Receivers
  <2>6. conn'[n][i].open => Open(n, i)'
    BY <1>2, <1>5, <1>9, <1>10, <2>1, <2>4, <2>5 DEF Open, Receiver
  <2>7. \A b \in Nat : b = o.budget => Fits(n, i, s, b)'
    BY <1>2, <1>5, <1>9, <1>10, <2>1, <2>4, <2>5 DEF Fits
  <2>8. creating'[n].store = s /\ creating'[n].budget = o.budget
    BY <1>2, <1>4
  <2>9. Opened(n, i)' => Fits(n, i, creating[n].store, creating[n].budget)'
    BY <1>5, <2>7, <2>8
  <2>10. QED
    BY <1>6, <2>3, <2>6, <2>9 DEF BudgetOK, Granting
<1>13. QED
  BY <1>11, <1>12

\* A chunk goes over, the client asks for more, or a session is closed.
LEMMA ConsumesBudget ==
  ASSUME TypeInv, NEW n \in Clients, NEW i \in Ids, NEW j \in Ids, BudgetOK(n, i),
         InTurn(n, i), Consumes(n, j) \/ SessionBreaks(n, j)
  PROVE  BudgetOK(n, i)'
<1> DEFINE s == conn[n][j].store
<1>1. /\ UNCHANGED creating /\ SameGranting(n, i)
      /\ Opened(n, i)' => Opened(n, i) /\ creating'[n] = creating[n]
  <2>1. UNCHANGED creating
    BY DEF Consumes, SendsChunk, OutOfBudget, StopsConsuming, AsksAgain, EndsSession,
           SendsIndex, SessionBreaks, locals
  <2>2. QED
    BY <2>1, ClientOpensNone, OpensNoneKeeps DEF OpensNone
<1>2. /\ conn[n][j] \in Conns /\ s \in Stores /\ Receiver(n, j) \in Receivers
      /\ \A l \in Ids : <<n, l>> \in Clients \X Ids
  BY OpenTypes
<1>3. \/ (SendsChunk(n, j) \/ SendsIndex(n, j)) /\ Carry(n, j)
      \/ (StopsConsuming(n, j) \/ AsksAgain(n, j)) /\ UNCHANGED receiving
      \/ CloseConn(n, j) /\ CloseReceiver(n, j) /\ conn[n][j].open
  BY DEF Consumes, SendsChunk, SendsIndex, StopsConsuming, AsksAgain, OutOfBudget,
         EndsSession, SessionBreaks, storeState, Working, Ended
<1>4. CASE i # j
  <2>1. conn'[n][i] = conn[n][i]
    BY <1>4, ConnsBecome
  <2>2. ASSUME NEW t \in Stores
        PROVE  receiving'[t][<<n, i>>] = receiving[t][<<n, i>>]
    <3>1. <<n, i>> # <<n, j>>
      BY <1>4
    <3>2. CloseReceiver(n, j) \/ Carry(n, j) \/ UNCHANGED receiving
      BY <1>3
    <3>3. \A u \in Stores : \A l \in Clients \X Ids : u # s \/ l # <<n, j>> =>
            receiving'[u][l] = receiving[u][l]
      BY <3>2, ReceiversBecome
    <3>4. QED
      BY <1>2, <3>1, <3>3
  <2>3. QED
    BY <1>1, <2>1, <2>2, KeepsBudget
<1>5. CASE i = j /\ (\/ SendsChunk(n, j) \/ SendsIndex(n, j) \/ StopsConsuming(n, j)
                     \/ AsksAgain(n, j))
  <2>1. conn[n][i].open /\ Using(n, i)
    BY <1>5 DEF SendsChunk, SendsIndex, StopsConsuming, AsksAgain, Working, Ended, Using
  <2>2. ~Making(n, i) /\ ~Granting(n, i)
    BY <2>1 DEF InTurn, OneTurn
  <2>3. ~Opened(n, i)' /\ ~Granting(n, i)'
    BY <1>1, <2>2 DEF Opened, Granting, SameGranting
  <2>4. Open(n, i)
    BY <2>1 DEF BudgetOK
  <2>5. Open(n, i)'
    <3> DEFINE c == conn[n][j]
               r == Receiver(n, j)
    <3>1. CASE StopsConsuming(n, j) \/ AsksAgain(n, j)
      <4>1. /\ \/ conn'[n][j] = [c EXCEPT !.carries = "after"]
               \/ conn'[n][j] = [c EXCEPT !.carries = "nothing"]
            /\ receiving' = receiving
        BY <3>1, ConnsBecome DEF StopsConsuming, AsksAgain, storeState
      <4>2. conn'[n][j].store = c.store /\ conn'[n][j].budget = c.budget
        BY <1>2, <4>1 DEF Conns
      <4>3. QED
        BY <1>5, <2>4, <4>1, <4>2 DEF Open, Receiver
    <3>2. CASE SendsChunk(n, j) \/ SendsIndex(n, j)
      <4>1. Carry(n, j)
        BY <3>2 DEF SendsChunk, SendsIndex
      <4>2. receiving'[s][<<n, j>>] = [r EXCEPT !.budget = @ - 1, !.handled = @ + 1]
            /\ r.open
        BY <4>1, ReceiversBecome
      <4>3. receiving'[s][<<n, j>>].open /\ receiving'[s][<<n, j>>].budget = r.budget - 1
        BY <1>2, <4>2 DEF Receivers
      <4>4. conn'[n][j].store = s /\ conn'[n][j].budget = c.budget - 1
        <5>1. \/ conn'[n][j] = [c EXCEPT !.budget = @ - 1, !.handled = @ + 1]
              \/ conn'[n][j] = [c EXCEPT !.budget = @ - 1, !.handled = @ + 1,
                                         !.carries = "nothing"]
          BY <3>2, ConnsBecome
        <5>2. QED
          BY <1>2, <5>1 DEF Conns
      <4>5. c.budget \in Nat /\ r.budget \in Nat
        BY <1>2 DEF Conns, Receivers
      <4>6. QED
        BY <1>5, <2>4, <4>3, <4>4, <4>5 DEF Open, Receiver
    <3>3. QED
      BY <1>5, <3>1, <3>2
  <2>6. QED
    BY <2>3, <2>5 DEF BudgetOK, Granting
<1>6. CASE i = j /\ CloseConn(n, j) /\ CloseReceiver(n, j) /\ conn[n][j].open
  <2>1. conn'[n][i] = NoConn /\ receiving'[s][<<n, i>>] = NoReceiver
    BY <1>6, ConnsBecome, ReceiversBecome
  <2>2. ~conn'[n][i].open /\ ~receiving'[s][<<n, i>>].awaited
    BY <2>1 DEF NoConn, NoReceiver
  <2>3. \A t \in Stores : Leads(n, i, t) => t = s
    BY <1>2, <1>6 DEF Leads, InTurn, OnePlace
  <2>4. ASSUME Opened(n, i)'
        PROVE  Fits(n, i, creating[n].store, creating[n].budget)'
    <3>1. Opened(n, i) /\ creating[n].store \in Stores
      BY <1>1, <2>4 DEF TypeInv, LocalsOK, Creatings
    <3>2. creating[n].store = s
      BY <2>3, <3>1 DEF Leads, Opened, Making, Creates
    <3>3. \A t, b : t = s => Fits(n, i, t, b)'
      BY <2>2 DEF Fits
    <3>4. creating'[n].store = s
      BY <1>1, <3>2
    <3>5. QED
      BY <3>3, <3>4
  <2>5. ASSUME NEW o \in Members(toNode'[n]) \cap GrantsOf(i)
        PROVE  Fits(n, i, o.store, o.budget)'
    <3>1. o \in Members(toNode[n]) /\ o.store \in Stores
      BY <1>1 DEF SameGranting, GrantsOf, OrdersOfHub
    <3>2. o.store = s
      BY <2>3, <3>1 DEF Leads
    <3>3. QED
      BY <2>2, <3>2 DEF Fits
  <2>6. QED
    BY <2>2, <2>4, <2>5 DEF BudgetOK
<1>7. QED
  BY <1>3, <1>4, <1>5, <1>6

\* The client reads a grant.
LEMMA ReadsGrantBudget ==
  ASSUME TypeInv, NEW n \in Clients, NEW i \in Ids, BudgetOK(n, i), InTurn(n, i),
         ReceiversOK,
         ReusesSession(n) \/ ConnectsSession(n) \/ ConnectFails(n)
  PROVE  BudgetOK(n, i)'
<1> DEFINE o == Grant(n)
           j == o.id
<1>1. UNCHANGED <<creating, pc>> /\ Receives(n, {"grant", "index"})
  BY DEF ReusesSession, ConnectsSession, ConnectFails, locals
<1>2. n \in Nodes /\ toNode \in [Nodes -> Seq(OrdersOfHub)]
  BY DEF TypeInv, WiresOK, Nodes
<1>3. /\ o \in OrdersOfHub /\ o.kind \in {"grant", "index"} /\ j \in Ids \cup {0}
      /\ o.store \in Stores /\ o.handled \in Nat /\ o.budget \in Nat
  BY <1>1, <1>2, ReceivesType DEF Grant, OrdersOfHub
<1>4. toNode[n] # <<>> /\ toNode'[n] = Tail(toNode[n]) /\ o = Head(toNode[n])
  BY <1>1, <1>2 DEF Receives, Grant
<1>5. /\ SameGranting(n, i)
      /\ Opened(n, i)' => Opened(n, i) /\ creating'[n] = creating[n]
  BY ClientOpensNone, OpensNoneKeeps DEF OpensNone
<1>6. o \in Members(toNode[n])
  BY <1>2, <1>4, TakenFrom
<1>7. CASE ConnectFails(n)
  BY <1>5, <1>7, KeepsBudget DEF ConnectFails, clientState, storeState
<1>8. ASSUME NEW c, conn' = [conn EXCEPT ![n] = [conn[n] EXCEPT ![j] = c]]
      PROVE  /\ i = j => conn'[n][i] = c
             /\ i # j => conn'[n][i] = conn[n][i]
  <2>1. conn[n] \in [Ids -> Conns] /\ conn'[n] = [conn[n] EXCEPT ![j] = c]
    BY <1>8 DEF TypeInv, ClientsOK
  <2> HIDE DEF j
  <2>2. QED
    BY <2>1
<1>9. ASSUME NEW r, receiving' = [receiving EXCEPT ![o.store] =
                                    [receiving[o.store] EXCEPT ![<<n, j>>] = r]]
      PROVE  /\ i = j => receiving'[o.store][<<n, i>>] = r
             /\ i # j => \A t \in Stores : receiving'[t][<<n, i>>] = receiving[t][<<n, i>>]
  <2>1. receiving \in [Stores -> [Clients \X Ids -> Receivers]]
        /\ <<n, i>> \in Clients \X Ids
    BY DEF TypeInv, StoresOK
  <2>2. /\ receiving'[o.store] = [receiving[o.store] EXCEPT ![<<n, j>>] = r]
        /\ \A t \in Stores : t # o.store => receiving'[t] = receiving[t]
    BY <1>3, <1>9, <2>1
  <2>3. i # j => <<n, i>> # <<n, j>>
    OBVIOUS
  <2>4. receiving[o.store] \in [Clients \X Ids -> Receivers]
    BY <1>3, <2>1
  <2> HIDE DEF j, o
  <2>5. QED
    BY <2>1, <2>2, <2>3, <2>4
<1>10. ASSUME i = j
       PROVE  /\ ~Granting(n, i)' /\ ~Opened(n, i)' /\ Fits(n, i, o.store, o.budget)
              /\ conn[n][i].open => conn[n][i].store = o.store
  <2>1. o \in GrantsOf(i)
    BY <1>3, <1>10 DEF GrantsOf
  <2>2. Members(toNode'[n]) \cap GrantsOf(i) = {}
    <3>1. Lone(toNode[n], GrantsOf(i))
      BY DEF InTurn, OneTurn
    <3>2. QED
      BY <1>2, <1>4, <2>1, <3>1, TakenFrom
  <2>3. ~Making(n, i)
    BY <1>6, <2>1 DEF InTurn, OneTurn, Granting
  <2>4. Leads(n, i, o.store)
    BY <1>6, <2>1 DEF Leads
  <2>5. conn[n][i].open => conn[n][i].store = o.store
    BY <1>3, <2>4, OpenTypes DEF InTurn, OnePlace, Leads
  <2>6. Fits(n, i, o.store, o.budget)
    BY <1>6, <2>1 DEF BudgetOK
  <2>7. QED
    BY <1>5, <2>2, <2>3, <2>5, <2>6 DEF Granting, Opened
<1>11. CASE ReusesSession(n)
  <2> DEFINE c == [conn[n][j] EXCEPT !.budget = @ + o.budget,
                     !.carries = IF JobRuns(n) THEN Carries(n) ELSE @]
  <2>1. conn' = [conn EXCEPT ![n] = [conn[n] EXCEPT ![j] = c]] /\ conn[n][j].open
    BY <1>11 DEF ReusesSession, Grant
  <2>2. receiving' = receiving
    BY <1>11 DEF ReusesSession, storeState
  <2>3. CASE i # j
    BY <1>5, <1>8, <2>1, <2>2, <2>3, KeepsBudget
  <2>4. CASE i = j
    <3>1. conn[n][i] \in Conns
      BY OpenTypes
    <3>2. /\ c.open = conn[n][i].open /\ c.store = conn[n][i].store
          /\ c.budget = conn[n][i].budget + o.budget
      BY <2>4, <3>1 DEF Conns
    <3> HIDE DEF c
    <3>3. conn'[n][i] = c
      BY <1>8, <2>1, <2>4
    <3>4. Open(n, i)'
      BY <1>10, <2>1, <2>2, <2>4, <3>2, <3>3 DEF BudgetOK, Open, Receiver, Fits
    <3>5. QED
      BY <1>10, <2>4, <3>4 DEF BudgetOK, Granting
  <2>5. QED
    BY <2>3, <2>4
<1>12. CASE ConnectsSession(n)
  <2> DEFINE c == [open |-> TRUE, store |-> o.store, budget |-> o.budget,
                   handled |-> o.handled, carries |-> Carries(n)]
             r == receiving[o.store][<<n, j>>]
             taken == [r EXCEPT !.awaited = FALSE]
  <2>1. conn' = [conn EXCEPT ![n] = [conn[n] EXCEPT ![j] = c]]
    BY <1>12 DEF ConnectsSession
  <2>2. receiving' = [receiving EXCEPT ![o.store] =
                        [receiving[o.store] EXCEPT ![<<n, j>>] = taken]]
    BY <1>12 DEF ConnectsSession
  <2>3. CASE i # j
    <3> HIDE DEF c, taken
    <3>1. conn'[n][i] = conn[n][i]
      BY <1>8, <2>1, <2>3
    <3>2. \A t \in Stores : receiving'[t][<<n, i>>] = receiving[t][<<n, i>>]
      BY <1>9, <2>2, <2>3
    <3>3. QED
      BY <1>5, <3>1, <3>2, KeepsBudget
  <2>4. CASE i = j
    <3>1. r \in Receivers /\ r.awaited /\ ~conn[n][i].open /\ <<n, j>> \in Clients \X Ids
      BY <1>3, <1>12, <2>4 DEF ConnectsSession, TypeInv, StoresOK
    <3>2. r.open
      BY <1>3, <3>1 DEF ReceiversOK, NoReceiver
    <3>3. taken.open /\ taken.budget = r.budget
      BY <3>1, <3>2 DEF Receivers
    <3>4. o.budget <= r.budget
      BY <1>10, <2>4, <3>1 DEF Fits
    <3>5. c.store = o.store /\ c.budget = o.budget
      OBVIOUS
    <3> HIDE DEF c, taken
    <3>6. conn'[n][i] = c /\ receiving'[o.store][<<n, i>>] = taken
      BY <1>8, <1>9, <2>1, <2>2, <2>4
    <3>7. Open(n, i)'
      BY <3>3, <3>4, <3>5, <3>6 DEF Open, Receiver
    <3>8. QED
      BY <1>10, <2>4, <3>7 DEF BudgetOK, Granting
  <2>5. QED
    BY <2>3, <2>4
<1>13. QED
  BY <1>7, <1>11, <1>12

\* The ends of sessions at storage nodes, whatever happens to them.
LEMMA ReceiversNext ==
  ASSUME TypeInv, ReceiversOK, [Next]_vars
  PROVE  ReceiversOK'
<1>1. UNCHANGED receiving => ReceiversOK'
  BY DEF ReceiversOK
<1>2. ASSUME NEW s \in Stores, NEW k, NEW new, new.open \/ new = NoReceiver,
             receiving' = [receiving EXCEPT ![s] = [receiving[s] EXCEPT ![k] = new]]
      PROVE  ReceiversOK'
  <2>1. receiving \in [Stores -> [Clients \X Ids -> Receivers]]
    BY DEF TypeInv, StoresOK
  <2>2. /\ \A t \in Stores : t # s => receiving'[t] = receiving[t]
        /\ receiving'[s] = [receiving[s] EXCEPT ![k] = new]
        /\ receiving[s] \in [Clients \X Ids -> Receivers]
    BY <1>2, <2>1
  <2>3. \A l \in Clients \X Ids : receiving'[s][l] = receiving[s][l] \/ receiving'[s][l] = new
    BY <2>2
  <2>4. ASSUME NEW t \in Stores, NEW l \in Clients \X Ids
        PROVE  receiving'[t][l].open \/ receiving'[t][l] = NoReceiver
    BY <1>2, <2>2, <2>3 DEF ReceiversOK
  <2>5. QED
    BY <2>4 DEF ReceiversOK
<1>3. ASSUME NEW n \in Stores, StartStoreSession(n)
      PROVE  ReceiversOK'
  <2> DEFINE o == Head(toNode[n])
             k == <<o.client, o.id>>
             r == receiving[n][k]
             new == IF r.open THEN [r EXCEPT !.budget = @ + o.budget]
                    ELSE [open |-> TRUE, awaited |-> TRUE, budget |-> o.budget, handled |-> 0]
  <2>1. receiving' = [receiving EXCEPT ![n] = [receiving[n] EXCEPT ![k] = new]]
    BY <1>3 DEF StartStoreSession
  <2>2. CASE k \in Clients \X Ids
    <3>1. r \in Receivers
      BY <2>2 DEF TypeInv, StoresOK
    <3> HIDE DEF k
    <3>2. new.open
      BY <3>1 DEF Receivers
    <3> HIDE DEF new
    <3>3. QED
      BY <1>2, <2>1, <3>2
  <2>3. CASE k \notin Clients \X Ids
    <3>1. receiving[n] \in [Clients \X Ids -> Receivers]
          /\ receiving \in [Stores -> [Clients \X Ids -> Receivers]]
      BY DEF TypeInv, StoresOK
    <3> HIDE DEF k, new
    <3>2. [receiving[n] EXCEPT ![k] = new] = receiving[n]
      BY <2>3, <3>1
    <3>3. receiving' = receiving
      BY <2>1, <3>1, <3>2
    <3>4. QED
      BY <1>1, <3>3
  <2>4. QED
    BY <2>2, <2>3
<1>4. ASSUME NEW n \in Clients, ConnectsSession(n)
      PROVE  ReceiversOK'
  <2> DEFINE o == Grant(n)
             k == <<n, o.id>>
             r == receiving[o.store][k]
             new == [r EXCEPT !.awaited = FALSE]
  <2>1. receiving' = [receiving EXCEPT ![o.store] = [receiving[o.store] EXCEPT ![k] = new]]
        /\ r.awaited
    BY <1>4 DEF ConnectsSession
  <2>2. o.store \in Stores
    BY <1>4, GrantTypes DEF ConnectsSession
  <2>3. CASE k \in Clients \X Ids
    <3>1. r \in Receivers /\ r.open
      BY <2>1, <2>2, <2>3 DEF TypeInv, StoresOK, ReceiversOK, NoReceiver
    <3>2. new.open
      BY <3>1 DEF Receivers
    <3> HIDE DEF new
    <3>3. QED
      BY <1>2, <2>1, <2>2, <3>2
  <2>4. CASE k \notin Clients \X Ids
    <3>1. receiving[o.store] \in [Clients \X Ids -> Receivers]
          /\ receiving \in [Stores -> [Clients \X Ids -> Receivers]]
      BY <2>2 DEF TypeInv, StoresOK
    <3> HIDE DEF k, new
    <3>2. [receiving[o.store] EXCEPT ![k] = new] = receiving[o.store]
      BY <2>4, <3>1
    <3>3. receiving' = receiving
      BY <2>1, <3>1, <3>2
    <3>4. QED
      BY <1>1, <3>3
  <2>5. QED
    BY <2>3, <2>4
<1>5. ASSUME NEW n \in Clients, NEW j \in Ids, Consumes(n, j) \/ SessionBreaks(n, j)
      PROVE  ReceiversOK'
  <2> DEFINE s == conn[n][j].store
             r == Receiver(n, j)
             k == <<n, j>>
             carried == [r EXCEPT !.budget = @ - 1, !.handled = @ + 1]
  <2>1. s \in Stores /\ r \in Receivers
    BY OpenTypes
  <2>2. CASE Carry(n, j)
    <3>1. r.open /\ receiving' = [receiving EXCEPT ![s] = [receiving[s] EXCEPT ![k] = carried]]
      BY <2>2 DEF Carry
    <3>2. carried.open
      BY <2>1, <3>1 DEF Receivers
    <3> HIDE DEF carried, s, k
    <3>3. QED
      BY <1>2, <2>1, <3>1, <3>2
  <2>3. CASE CloseReceiver(n, j)
    <3>1. receiving' = [receiving EXCEPT ![s] = [receiving[s] EXCEPT ![k] = NoReceiver]]
      BY <2>3 DEF CloseReceiver
    <3> HIDE DEF s, k
    <3>2. QED
      BY <1>2, <2>1, <3>1
  <2>4. QED
    BY <1>1, <1>5, <2>2, <2>3
    DEF Consumes, SendsChunk, OutOfBudget, StopsConsuming, AsksAgain, EndsSession, SendsIndex,
        SessionBreaks, storeState
<1>6. ASSUME NEW n \in Nodes, HubThread(n)
      PROVE  ReceiversOK'
  <2>1. UNCHANGED receiving
    <3>1. CASE \/ HandleSessionEvent(n) \/ ConfirmsUsage(n) \/ ReleasesReserved(n)
               \/ HandleReady(n) \/ Rings(n) \/ AskStorage(n) \/ TaskDone(n)
               \/ FindsSession(n) \/ RemovesSession(n) \/ LowersLoad(n)
               \/ ChooseStorage(n) \/ NoStorage(n) \/ ChoiceFails(n)
      BY <3>1
      DEF HandleSessionEvent, ConfirmsUsage, ReleasesReserved, HandleReady, Rings, AskStorage,
          TaskDone, FindsSession, RemovesSession, LowersLoad, ChooseStorage, NoStorage,
          ChoiceFails, storeState
    <3>2. CASE \/ RenewStorageSession(n) \/ CreateStorageSessions(n) \/ CreatedAll(n)
               \/ SendsStore(n) \/ SendRefused(n) \/ Woken(n) \/ Resets(n) \/ TellsClient(n)
               \/ ReadsReserved(n) \/ Reserves(n) \/ ListsSession(n) \/ RaisesLoad(n)
      BY <3>2
      DEF RenewStorageSession, CreateStorageSessions, CreatedAll, SendsStore, SendRefused,
          Woken, Resets, TellsClient, ReadsReserved, Reserves, ListsSession, RaisesLoad,
          storeState
    <3>3. QED
      BY <1>6, <3>1, <3>2 DEF HubThread, Answers
  <2>2. QED
    BY <1>1, <2>1
<1>7. ASSUME NEW n \in Clients, ReusesSession(n) \/ ConnectFails(n) \/ CancelTask(n)
      PROVE  ReceiversOK'
  BY <1>1, <1>7 DEF ReusesSession, ConnectFails, CancelTask, storeState
<1>8. ASSUME \/ SchedulerThread
             \/ \E n \in Clients : WaitTimesOut(n) \/ AsksIndex(n)
             \/ \E s \in Stores : ClearNode(s) \/ PutNodeOnline(s)
      PROVE  ReceiversOK'
  BY <1>1, <1>8
  DEF SchedulerThread, HandleTaskEvent, SweepsSession, SweepsLoad, WaitTimesOut, AsksIndex,
      ClearNode, PutNodeOnline, storeState
<1>9. CASE UNCHANGED vars
  BY <1>1, <1>9 DEF vars, storeState
<1>10. QED
  BY <1>3, <1>4, <1>5, <1>6, <1>7, <1>8, <1>9 DEF Next, NodeReads

LEMMA BudgetInit == Init => BudgetInv
<1> SUFFICES ASSUME Init PROVE BudgetInv
  OBVIOUS
<1>1. ReceiversOK
  BY DEF Init, ReceiversOK
<1>2. /\ \A n \in Nodes : pc[n] = "idle" /\ toNode[n] = <<>>
      /\ Members(<<>>) = {}
  BY Empty DEF Init
<1>3. ASSUME NEW n \in Clients
      PROVE  OrdersMatch(n)
  BY <1>2 DEF OrdersMatch, Nodes
<1>4. ASSUME NEW n \in Clients, NEW i \in Ids
      PROVE  BudgetOK(n, i)
  <2>1. ~conn[n][i].open
    BY DEF Init, NoConn
  <2>2. ~Opened(n, i)
    BY <1>2 DEF Opened, Making, Nodes
  <2>3. Members(toNode[n]) = {}
    BY <1>2 DEF Nodes
  <2>4. QED
    BY <2>1, <2>2, <2>3 DEF BudgetOK
<1>5. QED
  BY <1>1, <1>3, <1>4 DEF BudgetInv

LEMMA BudgetNext ==
  ASSUME TypeInv, VerifiedOK, TurnInv, BudgetInv, AnswersOK, NEW n, Clients = {n}, [Next]_vars
  PROVE  BudgetInv'
<1>1. ReceiversOK /\ ReceiversOK'
  BY ReceiversNext DEF BudgetInv
<1>2. SUFFICES ASSUME Regular' PROVE OrdersMatch(n)' /\ \A i \in Ids : BudgetOK(n, i)'
  BY <1>1 DEF BudgetInv
<1>3. n \in Clients /\ n \in Nodes
  BY DEF Nodes
<1>4. CASE UNCHANGED vars
  <2>1. Regular /\ UNCHANGED <<toNode, conn, pc, creating, receiving>>
    BY <1>2, <1>4 DEF Regular, vars, tasks, wires, clientState, storeState, locals, counters
  <2>2. OrdersMatch(n) /\ \A i \in Ids : BudgetOK(n, i)
    BY <1>3, <2>1 DEF BudgetInv
  <2>3. OpensNone(n)
    BY <2>1, NothingSaid, MessagesPass DEF OpensNone
  <2>4. OrdersMatch(n)' /\ \A i \in Ids : Opened(n, i)' => Opened(n, i) /\ creating'[n] = creating[n]
    BY <1>3, <2>2, <2>3, OpensNoneKeeps
  <2>5. \A i \in Ids : BudgetOK(n, i)'
    BY <1>3, <2>1, <2>2, <2>3, <2>4, KeepsBudget DEF OpensNone
  <2>6. QED
    BY <2>4, <2>5
<1>5. CASE Next
  <2>1. Regular
    BY <1>2, <1>5, NothingForgotten, KeptRegular
  <2>2. /\ OrdersMatch(n)
        /\ \A i \in Ids : BudgetOK(n, i) /\ InTurn(n, i)
        /\ \A s \in Stores : Settled(s)
    BY <1>3, <2>1 DEF TurnInv, BudgetInv, AnswersOK, Regular
  <2>3. /\ ~SendRefused(n) /\ ~WaitTimesOut(n)
        /\ \A s \in Stores : ~ClearNode(s) /\ ~PutNodeOnline(s)
    BY <1>2, <1>3, <1>5, NoFailure DEF Regular
  <2>4. ASSUME OpensNone(n), UNCHANGED <<conn, receiving>>
        PROVE  OrdersMatch(n)' /\ \A i \in Ids : BudgetOK(n, i)'
    <3>1. OrdersMatch(n)' /\ \A i \in Ids : Opened(n, i)' => Opened(n, i) /\ creating'[n] = creating[n]
      BY <1>3, <2>2, <2>4, OpensNoneKeeps
    <3>2. \A i \in Ids : BudgetOK(n, i)'
      BY <1>3, <2>2, <2>4, <3>1, KeepsBudget DEF OpensNone
    <3>3. QED
      BY <3>1, <3>2
  <2>5. ASSUME NEW x \in Nodes, HubThread(x)
        PROVE  OrdersMatch(n)' /\ \A i \in Ids : BudgetOK(n, i)'
    <3>1. CASE \/ HandleSessionEvent(x) \/ ConfirmsUsage(x) \/ ReleasesReserved(x)
               \/ HandleReady(x) \/ Rings(x)
               \/ x \in Clients /\ (\/ AskStorage(x) \/ TaskDone(x) \/ FindsSession(x)
                                     \/ RemovesSession(x) \/ LowersLoad(x) \/ ChooseStorage(x)
                                     \/ NoStorage(x) \/ ChoiceFails(x) \/ RenewStorageSession(x)
                                     \/ CreateStorageSessions(x) \/ CreatedAll(x)
                                     \/ ReadsReserved(x) \/ Reserves(x) \/ ListsSession(x)
                                     \/ RaisesLoad(x))
      BY <1>3, <2>4, <3>1, HubOpensNone
    <3>2. CASE x \in Clients /\ (SendsStore(x) \/ Woken(x) \/ Resets(x) \/ TellsClient(x))
      <4>1. x = n /\ creating[n].id \in Ids
        BY <3>2 DEF SendsStore, Woken, Resets, TellsClient, At, TypeInv, WorkOK
      <4>2. \A i \in Ids : OrdersMatch(n)' /\ BudgetOK(n, i)'
        BY <1>3, <2>2, <3>2, <4>1, SendsStoreBudget, WokenBudget, TellsClientBudget
      <4>3. QED
        BY <4>1, <4>2
    <3>3. QED
      BY <2>3, <2>5, <3>1, <3>2 DEF HubThread, Answers
  <2>6. ASSUME NEW s \in Stores, StartStoreSession(s)
        PROVE  OrdersMatch(n)' /\ \A i \in Ids : BudgetOK(n, i)'
    <3>1. creating[n].id \in Ids
      <4>1. toNode[s] \in Seq(OrdersOfHub) /\ toNode[s] # <<>> /\ Head(toNode[s]).kind = "STORE"
        BY <2>6 DEF StartStoreSession, Receives, TypeInv, WiresOK, Nodes
      <4>2. Head(toNode[s]) \in Members(toNode[s])
        BY <4>1, TakenFrom
      <4>3. QED
        BY <1>3, <2>2, <4>1, <4>2 DEF OrdersMatch, TypeInv, WorkOK
    <3>2. \A i \in Ids : OrdersMatch(n)' /\ BudgetOK(n, i)'
      BY <1>1, <1>3, <2>2, <2>6, StartStoreSessionBudget
    <3>3. QED
      BY <3>1, <3>2
  <2>7. ASSUME ReusesSession(n) \/ ConnectsSession(n) \/ ConnectFails(n)
        PROVE  OrdersMatch(n)' /\ \A i \in Ids : BudgetOK(n, i)'
    <3>1. OpensNone(n)
      BY <1>3, <2>7, ClientOpensNone
    <3>2. \A i \in Ids : BudgetOK(n, i)'
      BY <1>1, <1>3, <2>2, <2>7, ReadsGrantBudget
    <3>3. QED
      BY <1>3, <2>2, <3>1, <3>2, OpensNoneKeeps
  <2>8. ASSUME CancelTask(n) \/ AsksIndex(n)
        PROVE  OrdersMatch(n)' /\ \A i \in Ids : BudgetOK(n, i)'
    <3>1. OpensNone(n)
      BY <1>3, <2>8, ClientOpensNone
    <3>2. UNCHANGED <<conn, receiving>>
      BY <2>8 DEF CancelTask, AsksIndex, clientState, storeState
    <3>3. QED
      BY <2>4, <3>1, <3>2
  <2>9. ASSUME NEW j \in Ids, Consumes(n, j) \/ SessionBreaks(n, j)
        PROVE  OrdersMatch(n)' /\ \A i \in Ids : BudgetOK(n, i)'
    <3>1. OpensNone(n)
      BY <1>3, <2>9, ClientOpensNone
    <3>2. \A i \in Ids : BudgetOK(n, i)'
      BY <1>3, <2>2, <2>9, ConsumesBudget
    <3>3. QED
      BY <1>3, <2>2, <3>1, <3>2, OpensNoneKeeps
  <2>10. CASE SchedulerThread
    BY <1>3, <2>4, <2>10, SchedulerOpensNone
  <2>11. QED
    BY <1>3, <1>5, <2>3, <2>5, <2>6, <2>7, <2>8, <2>9, <2>10 DEF Next, NodeReads
<1>6. QED
  BY <1>4, <1>5

\* What a client has to send of a session and what it is told it may send of it fit the
\* storage node's budget, so their sum does: there is at most one grant it has not read.
LEMMA BudgetInvCovers ==
  ASSUME TypeInv, TurnInv, BudgetInv
  PROVE  BudgetCovered
<1> SUFFICES ASSUME Regular, NEW n \in Clients, NEW i \in Ids, conn[n][i].open
             PROVE  conn[n][i].budget + GrantsUnderWay(n, i) <= Receiver(n, i).budget
  BY DEF BudgetCovered
<1> DEFINE D == Granted(n, i)
           f == [k \in D |-> toNode[n][k].budget]
<1>1. InTurn(n, i) /\ BudgetOK(n, i)
  BY DEF TurnInv, BudgetInv
<1>2. toNode[n] \in Seq(OrdersOfHub)
  BY DEF TypeInv, WiresOK, Nodes
<1>3. \A k \in D : /\ k \in 1..Len(toNode[n]) /\ toNode[n][k] \in GrantsOf(i)
                   /\ toNode[n][k] \in Members(toNode[n])
  BY <1>2 DEF Granted, GrantsOf, Members
<1>4. \A j, k \in D : j = k
  BY <1>1, <1>3 DEF InTurn, OneTurn, Lone
<1>5. conn[n][i].budget \in Nat /\ Receiver(n, i).budget \in Nat
  BY OpenTypes DEF Conns, Receivers
<1>6. CASE D = {}
  <2>1. Total(f) = 0
    BY <1>6, TotalOfZeros
  <2>2. Open(n, i)
    BY <1>1 DEF BudgetOK
  <2>3. QED
    BY <1>5, <2>1, <2>2 DEF GrantsUnderWay, Open
<1>7. ASSUME NEW k \in D
      PROVE  conn[n][i].budget + GrantsUnderWay(n, i) <= Receiver(n, i).budget
  <2>1. toNode[n][k].budget \in Nat /\ toNode[n][k].store \in Stores
    BY <1>3 DEF GrantsOf, OrdersOfHub
  <2>2. D = {k} /\ f \in [{k} -> Nat]
    BY <1>4, <2>1
  <2>3. Total(f) = toNode[n][k].budget
    BY <2>2, TotalOfOne
  <2>4. Fits(n, i, toNode[n][k].store, toNode[n][k].budget)
    BY <1>1, <1>3 DEF BudgetOK
  <2>5. toNode[n][k].store = conn[n][i].store
    BY <1>1, <1>3, <2>1, OpenTypes DEF InTurn, OnePlace, Leads
  <2>6. QED
    BY <2>3, <2>4, <2>5 DEF GrantsUnderWay, Fits, Receiver
<1>8. QED
  BY <1>6, <1>7

LEMMA OneClientAnswers ==
  ASSUME NEW n, Clients = {n}
  PROVE  Spec => []AnswersOK
<1>1. Apart
  BY DEF Apart
<1>2. QED
  BY <1>1, TypeInvCorrect, VerifiedCorrect, AnswersInit, AnswersNext, PTL DEF Spec

LEMMA BudgetInvCorrect ==
  ASSUME NEW n, Clients = {n}
  PROVE  Spec => []BudgetInv
<1>1. Spec => [](TurnInv /\ RenewalOK /\ SweepOK) /\ []AnswersOK
  BY TurnInvCorrect, OneClientAnswers
<1>2. TypeInv /\ VerifiedOK /\ TurnInv /\ AnswersOK /\ BudgetInv /\ [Next]_vars => BudgetInv'
  BY BudgetNext
<1>3. QED
  BY <1>1, <1>2, TypeInvCorrect, VerifiedCorrect, BudgetInit, PTL DEF Spec

\* The budget of a session at its two ends, which count it each on its own
\* (Session.Budget) and are told of a renewal at different times: what the client may
\* send, now or when it has read the grants on their way, the storage node accepts, for
\* one client and any number of storage nodes and sessions.
THEOREM OneClientCovered ==
  ASSUME NEW n, Clients = {n}
  PROVE  Spec => []BudgetCovered
<1>1. Spec => [](TurnInv /\ RenewalOK /\ SweepOK)
  BY TurnInvCorrect
<1>2. TypeInv /\ TurnInv /\ BudgetInv => BudgetCovered
  BY BudgetInvCovers
<1>3. QED
  BY <1>1, <1>2, TypeInvCorrect, BudgetInvCorrect, PTL
=============================================================================
