------------------------ MODULE MC_StorageSessions ------------------------
(* Small instances of StorageSessions for TLC. *)
EXTENDS StorageSessions

CONSTANTS c1, c2, n1, n2, n3

\* The first storage node is preferred.
FirstPreferred == [s \in Stores |-> IF s = n1 THEN 1 ELSE 2]

Setup(sizes, parallelism, needed, waiting, maxBreaks, maxFaults) ==
  [size |-> [s \in Stores |-> CASE s = n1 -> sizes[1] [] s = n2 -> sizes[2] [] s = n3 -> sizes[3]],
   parallelism |-> parallelism, needed |-> needed, feeds |-> waiting,
   breaks |-> maxBreaks, faults |-> maxFaults]

\* One session at a time for two feeds, with nodes that leave the hub; two
\* sessions, and a node without the room to renew its own, with two feeds or
\* with one and a session that breaks; three nodes and a session that breaks, of
\* one or of two; two sessions wanted and one node, which has the room for less
\* than both.
Varied ==
  {Setup(<<12, 12, 0>>, 1, 4, 2, 0, 1), Setup(<<4, 8, 0>>, 2, 4, 2, 0, 0),
   Setup(<<4, 8, 0>>, 2, 3, 1, 1, 0), Setup(<<8, 8, 8>>, 1, 3, 2, 1, 0),
   Setup(<<8, 8, 8>>, 2, 1, 1, 1, 0), Setup(<<3, 0, 0>>, 2, 5, 2, 1, 0)}

\* One node for all clients, and no failures.
Shared == {Setup(<<20, 0, 0>>, 1, 2, 1, 0, 0)}
=============================================================================
