------------------------------- MODULE Topic -------------------------------
(***************************************************************************)
(* A topic: mq/internal/topic.go, and the topics of Queue.CreateTopic      *)
(* (mq/internal/queue.go).                                                 *)
(*                                                                         *)
(* A topic sends each message to the partition that its partitioner gives  *)
(* for the key: NewTopic looks the hash of the key up in a ring of points, *)
(* CreateTopic takes it modulo the number of partitions.  The hash         *)
(* function (fnv32 of the key, and of a name per point) may be any.        *)
(* Partitions count from 0.  Keys are not empty (Produce refuses "").      *)
(***************************************************************************)
EXTENDS Integers, Sequences, FiniteSetsExt

CONSTANTS
  Key,          \* the keys of messages
  Partitions,   \* number of partitions of the topic
  Replicas,     \* points of each partition on the ring
  MaxHash,      \* the largest hash (2^32 - 1)
  MaxProduced   \* bound of the model: messages produced

ASSUME TopicAssumption ==
  /\ Partitions \in Nat \ {0} /\ Replicas \in Nat \ {0}
  /\ MaxHash \in Nat /\ MaxProduced \in Nat

Hash    == 0..MaxHash
Part    == 0..(Partitions - 1)
Copy    == 1..Replicas

-----------------------------------------------------------------------------
(* The ring.  It has points[<<p, r>>] for each partition p < n and each r.  *)

Ring(points, n) == {points[q] : q \in (0..(n - 1)) \X Copy}

\* hashMap: of the partitions with a point at x, the last one that was added.
Owner(points, n, x) == Max({p \in 0..(n - 1) : \E r \in Copy : points[<<p, r>>] = x})

\* The binary search finds the first point that is not before the hash; behind
\* the last point the ring begins again.
AtOrAfter(points, n, h) == {x \in Ring(points, n) : x >= h}
PointFor(points, n, h) ==
  IF AtOrAfter(points, n, h) = {} THEN Min(Ring(points, n))
  ELSE Min(AtOrAfter(points, n, h))

\* (mutant: the partitioner of CreateTopic)
ModuloLookup(points, n, h) == h % n
RingLookup(points, n, h) == Owner(points, n, PointFor(points, n, h))

\* The partitions of the keys on a ring of n partitions.
RingOf(hash, n) == [k \in Key |-> RingLookup(hash.point, n, hash.key[k])]

\* What a partitioner may make of the keys, over all hash functions.
RingPartitioners ==
  {RingOf(hash, Partitions) : hash \in [point : [Part \X Copy -> Hash], key : [Key -> Hash]]}
ModuloPartitioners ==
  {[k \in Key |-> hash[k] % Partitions] : hash \in [Key -> Hash]}

-----------------------------------------------------------------------------
VARIABLES
  partitioner,  \* key -> partition, chosen when the topic is created
  keys,         \* history: the key of each message, in the order of Produce
  log           \* partition -> numbers of its messages

topicVars == <<partitioner, keys, log>>

TopicInit ==
  /\ partitioner \in RingPartitioners \cup ModuloPartitioners
  /\ keys = <<>>
  /\ log = [p \in Part |-> <<>>]

\* (mutant: messages go to the partitions in turn)
InTurn(k) == (partitioner[k] + Len(keys)) % Partitions
Route(k)  == partitioner[k]

\* Produce(msg).  A partition that is full refuses it and nothing changes.
Produce(k) ==
  /\ Len(keys) < MaxProduced
  /\ keys' = Append(keys, k)
  /\ log' = [log EXCEPT ![Route(k)] = Append(@, Len(keys) + 1)]
  /\ UNCHANGED partitioner

-----------------------------------------------------------------------------
(* Properties.                                                             *)

TopicTypeOK ==
  /\ partitioner \in [Key -> Part]
  /\ keys \in Seq(Key)
  /\ log \in [Part -> Seq(Nat)]
  /\ \A p \in Part : \A i \in DOMAIN log[p] : log[p][i] \in DOMAIN keys

\* A ring, and the same with one partition more.
Grown ==
  {[before |-> RingOf(hash, Partitions), after |-> RingOf(hash, Partitions + 1)] :
     hash \in [point : [(0..Partitions) \X Copy -> Hash], key : [Key -> Hash]]}

\* "Distributes keys across partitions with minimal redistribution"
\* (mq/README.md:497, topic.go:45): were the topic made again with one partition
\* more, each key would stay where it is or go to the new partition, whatever
\* the hashes, also when points of two partitions, or a point and a key, have
\* the same hash.
MinimalMovement ==
  \A ring \in Grown : ring.before = partitioner =>
    \A k \in Key : ring.after[k] \in {partitioner[k], Partitions}
=============================================================================
