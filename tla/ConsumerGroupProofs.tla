------------------------ MODULE ConsumerGroupProofs ------------------------
(***************************************************************************)
(* Theorems about modules Topic and ConsumerGroup: the ring, for any       *)
(* number of partitions and of points and for any hashes; the group, for   *)
(* any number of members, keys and partitions, any partitioner of the two  *)
(* kinds and any batch size.                                               *)
(***************************************************************************)
EXTENDS ConsumerGroup, Extremes, SequenceTheorems, TLAPS

\* The greatest partition of a set that has the last one is the last one.
LEMMA MaxIsLast ==
  ASSUME NEW n \in Nat, NEW S \in SUBSET (0..n), n \in S
  PROVE  Max(S) = n
<1>1. \E x \in S : \A y \in S : x >= y
  OBVIOUS
<1>2. Max(S) \in S /\ \A y \in S : Max(S) >= y
  BY <1>1 DEF Max
<1>3. Max(S) >= n /\ Max(S) \in 0..n
  BY <1>2
<1> QED BY <1>3

-----------------------------------------------------------------------------
(* The ring.                                                               *)

\* A ring has a point, and its points are hashes.
LEMMA RingShape ==
  ASSUME NEW n \in Nat \ {0}, NEW m \in Nat, n <= m + 1,
         NEW points \in [(0..m) \X Copy -> Hash]
  PROVE  Ring(points, n) # {} /\ Ring(points, n) \in SUBSET Nat
<1> DEFINE D == (0..(n - 1)) \X Copy
<1>1. 1 \in Copy /\ 0 \in 0..(n - 1)
  BY TopicAssumption DEF Copy
<1>2. 0..(n - 1) \subseteq 0..m
  OBVIOUS
<1>3. D \subseteq (0..m) \X Copy
  BY <1>2
<1>4. \A q \in D : points[q] \in Nat
  <2>1. Hash \subseteq Nat
    BY TopicAssumption DEF Hash
  <2> HIDE DEF D
  <2> QED BY <1>3, <2>1
<1>5. <<0, 1>> \in D
  BY <1>1
<1>6. Ring(points, n) = {points[q] : q \in D}
  BY DEF Ring
<1> HIDE DEF D
<1> QED BY <1>4, <1>5, <1>6

\* With one partition more, the point of a hash is the same, or a new one.
LEMMA PointStaysOrIsNew ==
  ASSUME NEW n \in Nat \ {0}, NEW points \in [(0..n) \X Copy -> Hash], NEW h \in Hash,
         PointFor(points, n + 1, h) \in Ring(points, n)
  PROVE  PointFor(points, n + 1, h) = PointFor(points, n, h)
<1> DEFINE old == Ring(points, n)  new == Ring(points, n + 1)
           x == PointFor(points, n + 1, h)
<1>1. old # {} /\ old \in SUBSET Nat /\ new # {} /\ new \in SUBSET Nat
  <2>1. n \in Nat /\ n + 1 \in Nat \ {0} /\ n <= n + 1 /\ n + 1 <= n + 1
    OBVIOUS
  <2>2. old # {} /\ old \in SUBSET Nat
    BY <2>1, RingShape
  <2>3. new # {} /\ new \in SUBSET Nat
    BY <2>1, RingShape
  <2> QED BY <2>2, <2>3
<1>2. old \subseteq new
  <2>1. 0..(n - 1) \subseteq 0..((n + 1) - 1)
    OBVIOUS
  <2>2. (0..(n - 1)) \X Copy \subseteq (0..((n + 1) - 1)) \X Copy
    BY <2>1
  <2> QED BY <2>2 DEF Ring
<1>3. h \in Nat
  BY TopicAssumption DEF Hash
<1>4. CASE AtOrAfter(points, n + 1, h) = {}
  <2>1. AtOrAfter(points, n, h) = {}
    BY <1>2, <1>4 DEF AtOrAfter
  <2>2. x = Min(new) /\ PointFor(points, n, h) = Min(old)
    BY <1>4, <2>1 DEF PointFor
  <2>3. \A y \in old : x <= y
    BY <1>1, <1>2, <2>2, MinIsLeast
  <2> QED BY <1>1, <2>2, <2>3, MinUnique
<1>5. CASE AtOrAfter(points, n + 1, h) # {}
  <2>1. AtOrAfter(points, n + 1, h) \in SUBSET Nat /\ AtOrAfter(points, n, h) \in SUBSET Nat
    BY <1>1 DEF AtOrAfter
  <2>2. x = Min(AtOrAfter(points, n + 1, h))
    BY <1>5 DEF PointFor
  <2>3. x \in AtOrAfter(points, n + 1, h) /\ \A y \in AtOrAfter(points, n + 1, h) : x <= y
    BY <1>5, <2>1, <2>2, MinIsLeast
  <2>4. x \in AtOrAfter(points, n, h) /\ \A y \in AtOrAfter(points, n, h) : x <= y
    BY <1>2, <2>3 DEF AtOrAfter
  <2>5. Min(AtOrAfter(points, n, h)) = x
    BY <2>1, <2>4, MinUnique
  <2> QED BY <2>4, <2>5 DEF PointFor
<1> QED BY <1>4, <1>5

\* A ring with one partition more sends a hash where it went before, or to the
\* new partition.
LEMMA RingMoves ==
  ASSUME NEW n \in Nat \ {0}, NEW points \in [(0..n) \X Copy -> Hash], NEW h \in Hash
  PROVE  RingLookup(points, n + 1, h) \in {RingLookup(points, n, h), n}
<1>1. n \in Nat \ {0} /\ (n + 1) - 1 = n
  BY TopicAssumption
<1> DEFINE x == PointFor(points, n + 1, h)
           at(m) == {p \in 0..(m - 1) : \E r \in Copy : points[<<p, r>>] = x}
<1>2. RingLookup(points, n + 1, h) = Max(at(n + 1))
  BY DEF RingLookup, Owner
<1>3. at(n + 1) \in SUBSET (0..n) /\ (n \in at(n + 1) \/ at(n + 1) = at(n))
  <2>1. 0..((n + 1) - 1) = 0..n /\ 0..n = 0..(n - 1) \cup {n}
    BY <1>1
  <2> QED BY <2>1
<1>4. CASE n \in at(n + 1)
  BY <1>1, <1>2, <1>3, <1>4, MaxIsLast
<1>5. CASE at(n + 1) = at(n) /\ n \notin at(n + 1)
  <2>1. x \in Ring(points, n + 1)
    <3>1. Ring(points, n + 1) # {} /\ Ring(points, n + 1) \in SUBSET Nat
      BY <1>1, RingShape
    <3>2. AtOrAfter(points, n + 1, h) \subseteq Ring(points, n + 1)
      BY DEF AtOrAfter
    <3> QED BY <3>1, <3>2, MinIsLeast DEF PointFor
  <2>2. PICK p \in 0..((n + 1) - 1), r \in Copy : points[<<p, r>>] = x
    <3>1. PICK q \in (0..((n + 1) - 1)) \X Copy : points[q] = x
      BY <2>1 DEF Ring
    <3>2. q[1] \in 0..((n + 1) - 1) /\ q[2] \in Copy /\ q = <<q[1], q[2]>>
      OBVIOUS
    <3> QED BY <3>1, <3>2
  <2>3. p \in at(n + 1)
    BY <2>2
  <2>4. p \in 0..(n - 1)
    BY <1>5, <2>3
  <2>5. x \in Ring(points, n)
    BY <2>2, <2>4 DEF Ring
  <2>6. x = PointFor(points, n, h)
    BY <1>1, <2>5, PointStaysOrIsNew
  <2> QED BY <1>2, <1>5, <2>6 DEF RingLookup, Owner
<1> QED BY <1>3, <1>4, <1>5

\* "Minimal redistribution" (mq/README.md:497): whatever the hashes, a ring with
\* one partition more sends a key where it went before or to the new partition,
\* also where points of two partitions have the same hash (topic.go:52).
THEOREM MinimalMovementHolds == MinimalMovement
<1> SUFFICES ASSUME NEW ring \in Grown, ring.before = partitioner, NEW k \in Key
             PROVE  ring.after[k] \in {partitioner[k], Partitions}
  BY DEF MinimalMovement
<1>0. PICK hash \in [point : [(0..Partitions) \X Copy -> Hash], key : [Key -> Hash]] :
        ring = [before |-> RingOf(hash, Partitions), after |-> RingOf(hash, Partitions + 1)]
  BY DEF Grown
<1>1. hash.point \in [(0..Partitions) \X Copy -> Hash] /\ hash.key[k] \in Hash
  OBVIOUS
<1>2. RingLookup(hash.point, Partitions + 1, hash.key[k])
        \in {RingLookup(hash.point, Partitions, hash.key[k]), Partitions}
  BY <1>1, RingMoves, TopicAssumption
<1>3. /\ partitioner[k] = RingLookup(hash.point, Partitions, hash.key[k])
      /\ ring.after[k] = RingLookup(hash.point, Partitions + 1, hash.key[k])
  BY <1>0 DEF RingOf
<1> QED BY <1>2, <1>3

-----------------------------------------------------------------------------
\* The ring gives a partition for every hash.
LEMMA LookupType ==
  ASSUME NEW points \in [Part \X Copy -> Hash], NEW h \in Hash
  PROVE  RingLookup(points, Partitions, h) \in Part
<1> DEFINE N == Partitions  x == PointFor(points, N, h)
           at == {p \in 0..(N - 1) : \E r \in Copy : points[<<p, r>>] = x}
<1>1. N \in Nat \ {0} /\ N - 1 \in Nat /\ N <= (N - 1) + 1
  BY TopicAssumption
<1>2. Ring(points, N) # {} /\ Ring(points, N) \in SUBSET Nat
  BY <1>1, RingShape DEF Part
<1>3. x \in Ring(points, N)
  <2>1. AtOrAfter(points, N, h) \subseteq Ring(points, N)
    BY DEF AtOrAfter
  <2> QED BY <1>2, <2>1, MinIsLeast DEF PointFor
<1>4. PICK q \in (0..(N - 1)) \X Copy : points[q] = x
  BY <1>3 DEF Ring
<1>5. q[1] \in 0..(N - 1) /\ q[2] \in Copy /\ q = <<q[1], q[2]>>
  OBVIOUS
<1>6. q[1] \in at
  BY <1>4, <1>5
<1>7. Max(at) \in at
  BY <1>1, <1>6, MaxIsGreatest
<1> QED BY <1>7 DEF RingLookup, Owner, Part

-----------------------------------------------------------------------------
(* The invariant of the group.                                             *)

\* Offset off of partition p is in its log and has passed what was consumed.
Passed(p, off) == off <= Len(log[p]) /\ 1..off \subseteq consumed[p]

\* The messages that were consumed have a prefix of the log.
Prefix(p) == \A i \in consumed[p] : i \in DOMAIN log[p] /\ 1..i \subseteq consumed[p]

HasCell(c) == c.pc \in {"load", "read", "next", "set"}

\* A call that has partition p to itself works on its present state.
InStep(c, p) ==
  /\ c.pc \in {"create", "insert"} => partitions[p] = 0
  /\ HasCell(c) => c.cell = partitions[p]
  /\ c.pc \in {"read", "next"} => c.from = offset[c.cell]
  /\ c.pc \in {"got", "insert", "set"} => Passed(p, c.offset)

Alone == \A p \in Part \ shared : \A m, n \in Member : Busy(m, p) /\ Busy(n, p) => m = n

\* What is true of the partitions that no two members were busy with at once.
UnsharedInv ==
  \A p \in Part \ shared :
    Prefix(p) /\ Passed(p, Offset(p)) /\ \A m \in Member : Busy(m, p) => InStep(member[m], p)

\* A PartitionConsumer is of one partition, in the map and for those who use it.
CellInv ==
  \A p \in Part : partitions[p] # 0 =>
    /\ \A q \in Part : partitions[q] = partitions[p] => q = p
    /\ \A m \in Member : HasCell(member[m]) /\ member[m].cell = partitions[p] => member[m].part = p

\* A batch that was read is in the log.
BatchInv ==
  \A m \in Member : LET c == member[m]
                    IN  c.pc = "next" => c.from <= c.to /\ c.to <= Len(log[c.part])

\* Each partition has the messages of its keys, in the order of Produce.
LogInv ==
  /\ \A n \in DOMAIN keys :
       \E i \in DOMAIN log[Route(keys[n])] : log[Route(keys[n])][i] = n
  /\ \A p \in Part : \A i \in DOMAIN log[p] : Route(keys[log[p][i]]) = p
  /\ \A p \in Part : \A i, j \in DOMAIN log[p] : i < j => log[p][i] < log[p][j]

Inv == TypeOK /\ Alone /\ UnsharedInv /\ CellInv /\ BatchInv /\ LogInv

-----------------------------------------------------------------------------
(* Shapes.                                                                 *)

LEMMA CellType ==
  ASSUME TypeOK
  PROVE  Cell = 1..Len(offset) /\ Len(offset) \in Nat /\ \A k \in Cell : offset[k] \in Nat
<1>1. offset \in Seq(Nat)
  BY DEF TypeOK
<1> QED BY <1>1, LenProperties, ElementOfSeq DEF Cell

LEMMA LogType ==
  ASSUME TypeOK, NEW p \in Part
  PROVE  /\ log[p] \in Seq(Nat) /\ Len(log[p]) \in Nat /\ DOMAIN log[p] = 1..Len(log[p])
         /\ \A i \in DOMAIN log[p] : log[p][i] \in DOMAIN keys
<1>1. log[p] \in Seq(Nat)
  BY DEF TypeOK, TopicTypeOK
<1> QED BY <1>1, LenProperties DEF TypeOK, TopicTypeOK

\* The fields that a call has.
LEMMA Shape ==
  ASSUME NEW c \in MemberState
  PROVE  /\ c # Resting => c.part \in Part /\ c.pc # "rest"
         /\ c.pc = "rest" => c = Resting
         /\ c.pc \in {"rest", "create", "load", "read", "next", "got", "insert", "set"}
         /\ HasCell(c) => c.cell \in Cell
         /\ c.pc = "read" => c.from \in Nat
         /\ c.pc = "next" => c.from \in Nat /\ c.to \in Nat
         /\ c.pc \in {"got", "insert", "set"} => c.offset \in Nat
<1>1. CASE c = Resting
  BY <1>1 DEF Resting, HasCell
<1>2. CASE c \in [pc : {"create"}, part : Part]
  BY <1>2 DEF Resting, HasCell
<1>3. CASE c \in [pc : {"load"}, part : Part, cell : Cell]
  BY <1>3 DEF Resting, HasCell
<1>7. CASE c \in [pc : {"read"}, part : Part, cell : Cell, from : Nat]
  BY <1>7 DEF Resting, HasCell
<1>4. CASE c \in [pc : {"next"}, part : Part, cell : Cell, from : Nat, to : Nat]
  BY <1>4 DEF Resting, HasCell
<1>5. CASE c \in [pc : {"got", "insert"}, part : Part, offset : Nat]
  BY <1>5 DEF Resting, HasCell
<1>6. CASE c \in [pc : {"set"}, part : Part, offset : Nat, cell : Cell]
  BY <1>6 DEF Resting, HasCell
<1> QED BY <1>1, <1>2, <1>3, <1>4, <1>5, <1>6, <1>7 DEF MemberState

\* Resting is a state, and so is each record that an action makes.
LEMMA States ==
  ASSUME NEW p \in Part, NEW off \in Nat
  PROVE  /\ Resting \in MemberState
         /\ [pc |-> "create", part |-> p] \in MemberState
         /\ [pc |-> "got", part |-> p, offset |-> off] \in MemberState
         /\ [pc |-> "insert", part |-> p, offset |-> off] \in MemberState
         /\ \A k \in Cell :
              /\ [pc |-> "load", part |-> p, cell |-> k] \in MemberState
              /\ [pc |-> "read", part |-> p, cell |-> k, from |-> off] \in MemberState
              /\ [pc |-> "set", part |-> p, offset |-> off, cell |-> k] \in MemberState
              /\ \A to \in Nat :
                   [pc |-> "next", part |-> p, cell |-> k, from |-> off, to |-> to] \in MemberState
BY DEF MemberState

\* A state stays one when PartitionConsumers are added.
LEMMA StatesGrow ==
  ASSUME Cell \subseteq Cell', NEW c \in MemberState
  PROVE  c \in MemberState'
BY DEF MemberState, Resting

-----------------------------------------------------------------------------
(* Production.                                                             *)

\* A partitioner of either kind gives partitions.
LEMMA PartitionerType == TopicInit => partitioner \in [Key -> Part]
<1> SUFFICES ASSUME TopicInit PROVE partitioner \in [Key -> Part]
  OBVIOUS
<1>1. CASE partitioner \in ModuloPartitioners
  <2>1. PICK hash \in [Key -> Hash] : partitioner = [k \in Key |-> hash[k] % Partitions]
    BY <1>1 DEF ModuloPartitioners
  <2>2. \A k \in Key : hash[k] \in Nat
    BY TopicAssumption DEF Hash
  <2>3. \A k \in Key : hash[k] % Partitions \in Part
    BY <2>2, TopicAssumption DEF Part
  <2> QED BY <2>1, <2>3
<1>2. CASE partitioner \in RingPartitioners
  <2>1. PICK hash \in [point : [Part \X Copy -> Hash], key : [Key -> Hash]] :
          partitioner = [k \in Key |-> RingLookup(hash.point, Partitions, hash.key[k])]
    BY <1>2 DEF RingPartitioners, RingOf
  <2>2. \A k \in Key : RingLookup(hash.point, Partitions, hash.key[k]) \in Part
    <3> TAKE k \in Key
    <3>1. hash.point \in [Part \X Copy -> Hash] /\ hash.key[k] \in Hash
      OBVIOUS
    <3> QED BY <3>1, LookupType
  <2> QED BY <2>1, <2>2
<1> QED BY <1>1, <1>2 DEF TopicInit

LEMMA ProduceFrame ==
  ASSUME Inv, NEW k \in Key, Produce(k)
  PROVE  /\ keys' \in Seq(Key) /\ Len(keys) \in Nat /\ DOMAIN keys = 1..Len(keys)
         /\ DOMAIN keys' = 1..(Len(keys) + 1)
         /\ \A n \in DOMAIN keys : keys'[n] = keys[n]
         /\ keys'[Len(keys) + 1] = k
         /\ Route(k) \in Part
         /\ log' \in [Part -> Seq(Nat)]
         /\ \A p \in Part : p # Route(k) => log'[p] = log[p]
         /\ \A p \in Part : /\ Len(log[p]) \in Nat /\ DOMAIN log[p] = 1..Len(log[p])
                            /\ Len(log'[p]) >= Len(log[p]) /\ DOMAIN log'[p] = 1..Len(log'[p])
                            /\ Len(log'[p]) \in Nat
                            /\ \A i \in DOMAIN log[p] : log'[p][i] = log[p][i]
         /\ Len(log'[Route(k)]) = Len(log[Route(k)]) + 1
         /\ log'[Route(k)][Len(log[Route(k)]) + 1] = Len(keys) + 1
<1> DEFINE q == Route(k)
<1>1. keys \in Seq(Key) /\ log \in [Part -> Seq(Nat)] /\ q \in Part
  BY DEF Inv, TypeOK, TopicTypeOK, Route
<1>2. /\ keys' \in Seq(Key) /\ Len(keys') = Len(keys) + 1 /\ Len(keys) \in Nat
      /\ DOMAIN keys = 1..Len(keys) /\ DOMAIN keys' = 1..Len(keys')
      /\ \A n \in 1..Len(keys) : keys'[n] = keys[n]
      /\ keys'[Len(keys) + 1] = k
  BY <1>1, AppendProperties, LenProperties DEF Produce
<1>3. log' = [log EXCEPT ![q] = Append(log[q], Len(keys) + 1)]
  BY DEF Produce
<1> HIDE DEF q
<1>4. /\ log'[q] = Append(log[q], Len(keys) + 1)
      /\ \A p \in Part : p # q => log'[p] = log[p]
      /\ log' = [p \in Part |-> log'[p]]
  BY <1>1, <1>3
<1>5. log[q] \in Seq(Nat) /\ Len(keys) + 1 \in Nat
  BY <1>1, <1>2
<1>6. /\ log'[q] \in Seq(Nat) /\ Len(log'[q]) = Len(log[q]) + 1 /\ Len(log[q]) \in Nat
      /\ \A i \in 1..Len(log[q]) : log'[q][i] = log[q][i]
      /\ log'[q][Len(log[q]) + 1] = Len(keys) + 1
  BY <1>4, <1>5, AppendProperties, LenProperties
<1>7. log' \in [Part -> Seq(Nat)]
  <2>1. \A p \in Part : log'[p] \in Seq(Nat)
    BY <1>1, <1>4, <1>6
  <2> QED BY <1>4, <2>1
<1>8. ASSUME NEW p \in Part
      PROVE  /\ Len(log[p]) \in Nat /\ DOMAIN log[p] = 1..Len(log[p])
             /\ Len(log'[p]) >= Len(log[p]) /\ DOMAIN log'[p] = 1..Len(log'[p])
             /\ Len(log'[p]) \in Nat
             /\ \A i \in DOMAIN log[p] : log'[p][i] = log[p][i]
  <2>1. log[p] \in Seq(Nat) /\ log'[p] \in Seq(Nat)
    BY <1>1, <1>7
  <2>2. /\ Len(log[p]) \in Nat /\ DOMAIN log[p] = 1..Len(log[p])
        /\ Len(log'[p]) \in Nat /\ DOMAIN log'[p] = 1..Len(log'[p])
    BY <2>1, LenProperties
  <2> QED BY <1>4, <1>6, <2>2, SMTT(30)
<1> QED BY <1>1, <1>2, <1>4, <1>6, <1>7, <1>8 DEF q

LEMMA ProduceStep ==
  ASSUME Inv, NEW k \in Key, Produce(k), UNCHANGED <<groupVars, member, rewinds, consumed, shared>>
  PROVE  Inv'
<1> DEFINE q == Route(k)
<1>1. partitioner' = partitioner /\ UNCHANGED <<partitions, offset, member, rewinds, consumed, shared>>
  BY DEF Produce, groupVars
<1>2. \A key : Route(key)' = Route(key)
  BY <1>1 DEF Route
<1>3. TypeOK'
  <2>1. \A p \in Part : \A i \in DOMAIN log'[p] : log'[p][i] \in DOMAIN keys'
    <3> TAKE p \in Part
    <3> TAKE i \in DOMAIN log'[p]
    <3>1. CASE i \in DOMAIN log[p]
      BY <3>1, ProduceFrame, SMTT(30) DEF Inv, TypeOK, TopicTypeOK
    <3>2. CASE i \notin DOMAIN log[p]
      <4>1. p = q /\ i = Len(log[q]) + 1
        BY <3>2, ProduceFrame, SMTT(30)
      <4> QED BY <4>1, ProduceFrame
    <3> QED BY <3>1, <3>2
  <2> QED BY <1>1, <2>1, ProduceFrame, SMTT(30) DEF Inv, TypeOK, TopicTypeOK, MemberState, Cell, Resting
<1>4. Alone' /\ CellInv'
  BY <1>1 DEF Inv, Alone, CellInv, Busy, HasCell
<1>5. UnsharedInv'
  <2>1. ASSUME NEW p \in Part, p \notin shared
        PROVE  Prefix(p)' /\ Passed(p, Offset(p))' /\ \A m \in Member : Busy(m, p)' => InStep(member[m], p)'
    <3>1. Prefix(p) /\ Passed(p, Offset(p)) /\ \A m \in Member : Busy(m, p) => InStep(member[m], p)
      BY <2>1 DEF Inv, UnsharedInv
    <3>2. /\ Len(log[p]) \in Nat /\ Len(log'[p]) \in Nat /\ Len(log'[p]) >= Len(log[p])
          /\ DOMAIN log[p] \subseteq DOMAIN log'[p]
      BY ProduceFrame
    <3>3. Offset(p) \in Nat /\ Offset(p)' = Offset(p)
      BY <1>1, CellType DEF Inv, TypeOK, Offset
    <3>4. ASSUME NEW off \in Nat, Passed(p, off) PROVE off <= Len(log'[p]) /\ 1..off \subseteq consumed'[p]
      BY <1>1, <3>2, <3>4 DEF Passed
    <3>5. ASSUME NEW m \in Member, Busy(m, p)' PROVE InStep(member[m], p)'
      <4>1. member[m] \in MemberState /\ Busy(m, p) /\ InStep(member[m], p) /\ member'[m] = member[m]
        BY <1>1, <3>1, <3>5 DEF Inv, TypeOK, Busy
      <4>2. /\ member[m].pc = "next" => member[m].to \in Nat
            /\ member[m].pc \in {"got", "insert", "set"} => member[m].offset \in Nat
        BY <4>1, Shape
      <4> QED BY <1>1, <3>2, <3>4, <4>1, <4>2 DEF InStep, HasCell, Passed
    <3> QED BY <1>1, <3>1, <3>2, <3>3, <3>4, <3>5 DEF Prefix, Passed
  <2> QED BY <1>1, <2>1 DEF UnsharedInv
<1>6. LogInv'
  <2>1. ASSUME NEW n \in DOMAIN keys'
        PROVE  \E i \in DOMAIN log'[Route(keys'[n])] : log'[Route(keys'[n])][i] = n
    <3>1. CASE n \in DOMAIN keys
      <4>1. keys[n] \in Key /\ Route(keys[n]) \in Part
        BY <3>1, ElementOfSeq, ProduceFrame DEF Inv, TypeOK, TopicTypeOK, Route
      <4>2. PICK i \in DOMAIN log[Route(keys[n])] : log[Route(keys[n])][i] = n
        BY <3>1 DEF Inv, LogInv
      <4>3. i \in DOMAIN log'[Route(keys[n])] /\ log'[Route(keys[n])][i] = n
        BY <4>1, <4>2, ProduceFrame, SMTT(30)
      <4> QED BY <3>1, <4>3, ProduceFrame
    <3>2. CASE n = Len(keys) + 1
      <4>1. Len(log[q]) + 1 \in DOMAIN log'[q] /\ keys'[n] = k
        BY <3>2, ProduceFrame
      <4> QED BY <3>2, <4>1, ProduceFrame
    <3> QED BY <3>1, <3>2, ProduceFrame
  <2>2. ASSUME NEW p \in Part, NEW i \in DOMAIN log'[p], i \notin DOMAIN log[p]
        PROVE  p = q /\ i = Len(log[q]) + 1 /\ log'[p][i] = Len(keys) + 1
    BY <2>2, ProduceFrame, SMTT(30)
  <2>3. ASSUME NEW p \in Part, NEW i \in DOMAIN log[p]
        PROVE  log'[p][i] = log[p][i] /\ log[p][i] \in DOMAIN keys
    BY <2>3, ProduceFrame DEF Inv, TypeOK, TopicTypeOK
  <2>4. \A p \in Part : \A i \in DOMAIN log'[p] : Route(keys'[log'[p][i]]) = p
    <3> TAKE p \in Part
    <3> TAKE i \in DOMAIN log'[p]
    <3>1. CASE i \in DOMAIN log[p]
      <4>1. Route(keys[log[p][i]]) = p
        BY <3>1 DEF Inv, LogInv
      <4>2. keys'[log'[p][i]] = keys[log[p][i]]
        BY <2>3, <3>1, ProduceFrame
      <4> QED BY <4>1, <4>2
    <3>2. CASE i \notin DOMAIN log[p]
      BY <2>2, <3>2, ProduceFrame
    <3> QED BY <3>1, <3>2
  <2>5. \A p \in Part : \A i, j \in DOMAIN log'[p] : i < j => log'[p][i] < log'[p][j]
    <3> TAKE p \in Part
    <3> TAKE i, j \in DOMAIN log'[p]
    <3> SUFFICES ASSUME i < j PROVE log'[p][i] < log'[p][j]
      OBVIOUS
    <3>1. /\ DOMAIN log'[p] = 1..Len(log'[p]) /\ DOMAIN log[p] = 1..Len(log[p])
          /\ Len(log'[p]) \in Nat /\ Len(log[p]) \in Nat
      BY ProduceFrame
    <3>2. CASE j \in DOMAIN log[p]
      <4>1. i \in DOMAIN log[p]
        BY <3>1, <3>2
      <4> QED BY <2>3, <3>2, <4>1 DEF Inv, LogInv
    <3>3. CASE j \notin DOMAIN log[p]
      <4>1. p = q /\ j = Len(log[q]) + 1 /\ log'[p][j] = Len(keys) + 1
        BY <2>2, <3>3
      <4>2. i \in DOMAIN log[p]
        BY <3>1, <4>1
      <4>3. log'[p][i] \in 1..Len(keys) /\ Len(keys) \in Nat
        BY <2>3, <4>2, ProduceFrame
      <4> QED BY <4>1, <4>3
    <3> QED BY <3>2, <3>3
  <2> QED BY <1>2, <2>1, <2>4, <2>5 DEF LogInv
<1>7. BatchInv'
  <2> SUFFICES ASSUME NEW m \in Member, member[m].pc = "next"
               PROVE  member[m].from <= member[m].to /\ member[m].to <= Len(log'[member[m].part])
    BY <1>1 DEF BatchInv
  <2>1. member[m].part \in Part /\ member[m].to \in Nat
    <3>1. member[m] \in MemberState /\ member[m] # Resting
      BY DEF Inv, TypeOK, Resting
    <3> QED BY <3>1, Shape
  <2>2. member[m].from <= member[m].to /\ member[m].to <= Len(log[member[m].part])
    BY DEF Inv, BatchInv
  <2>3. /\ Len(log[member[m].part]) \in Nat /\ Len(log'[member[m].part]) \in Nat
        /\ Len(log'[member[m].part]) >= Len(log[member[m].part])
    BY <2>1, ProduceFrame
  <2> QED BY <2>1, <2>2, <2>3
<1> QED BY <1>3, <1>4, <1>5, <1>6, <1>7 DEF Inv

-----------------------------------------------------------------------------
(* The steps of a member.                                                  *)

\* What Becomes does, and that it leaves alone who is alone.
LEMMA BecomesFrame ==
  ASSUME TypeOK, NEW m \in Member, NEW s, Becomes(m, s)
  PROVE  /\ member'[m] = s
         /\ \A n \in Member \ {m} : member'[n] = member[n]
         /\ shared \subseteq shared' /\ shared' \subseteq Part
         /\ \A p \in Part \ shared' : s # Resting /\ s.part = p =>
              \A n \in Member \ {m} : ~ Busy(n, p)
BY DEF TypeOK, Becomes

LEMMA AloneStep ==
  ASSUME TypeOK, Alone, NEW m \in Member, NEW s, Becomes(m, s)
  PROVE  Alone'
<1> SUFFICES ASSUME NEW p \in Part, p \notin shared',
                    NEW a \in Member, NEW b \in Member, Busy(a, p)', Busy(b, p)', a # b
             PROVE  FALSE
  BY DEF Alone
<1>1. p \notin shared
  BY BecomesFrame
<1>2. CASE a # m /\ b # m
  <2>1. Busy(a, p) /\ Busy(b, p)
    BY <1>2, BecomesFrame DEF Busy
  <2> QED BY <1>1, <2>1 DEF Alone
<1>3. CASE a = m \/ b = m
  <2>1. s # Resting /\ s.part = p
    BY <1>3, BecomesFrame DEF Busy
  <2>2. \E n \in Member \ {m} : Busy(n, p)
    BY <1>3, BecomesFrame DEF Busy
  <2> QED BY <2>1, <2>2, BecomesFrame
<1> QED BY <1>2, <1>3

\* A step of member m at partition q that leaves the others' cells alone, and
\* leaves its own in order.
LEMMA UnsharedStep ==
  ASSUME Inv, NEW m \in Member, NEW q \in Part, NEW s, Becomes(m, s), UNCHANGED log,
         s # Resting => s.part = q,
         \/ Busy(m, q)
         \/ member[m] = Resting /\ s # Resting,
         \A p \in Part \ {q} :
           /\ partitions'[p] = partitions[p] /\ consumed'[p] = consumed[p]
           /\ partitions[p] # 0 => offset'[partitions[p]] = offset[partitions[p]],
         q \notin shared' =>
           Prefix(q)' /\ Passed(q, Offset(q))' /\ (s # Resting => InStep(member[m], q)')
  PROVE  UnsharedInv'
<1> SUFFICES ASSUME NEW p \in Part, p \notin shared'
             PROVE  /\ Prefix(p)' /\ Passed(p, Offset(p))'
                    /\ \A n \in Member : Busy(n, p)' => InStep(member[n], p)'
  BY DEF UnsharedInv
<1>0. TypeOK
  BY DEF Inv
<1>1. p \notin shared
  BY <1>0, BecomesFrame
<1>2. CASE p # q
  <2>1. Prefix(p) /\ Passed(p, Offset(p))
    BY <1>1 DEF Inv, UnsharedInv
  <2>2. Offset(p)' = Offset(p)
    BY <1>2 DEF Offset
  <2>3. ASSUME NEW n \in Member, Busy(n, p)' PROVE InStep(member[n], p)'
    <3>1. n # m
      BY <1>0, <1>2, <2>3, BecomesFrame DEF Busy
    <3>2. member'[n] = member[n] /\ Busy(n, p)
      BY <1>0, <2>3, <3>1, BecomesFrame DEF Busy
    <3>3. InStep(member[n], p)
      BY <1>1, <3>2 DEF Inv, UnsharedInv
    <3>4. member[n].pc \in {"read", "next"} => partitions[p] # 0
      <4>1. member[n] \in MemberState /\ Cell = 1..Len(offset)
        BY <1>0, CellType DEF TypeOK
      <4> QED BY <3>3, <4>1, Shape DEF InStep, HasCell
    <3> QED BY <1>2, <3>2, <3>3, <3>4 DEF InStep, HasCell, Passed
  <2> QED BY <1>2, <2>1, <2>2, <2>3 DEF Prefix, Passed
<1>3. CASE p = q
  <2>1. ASSUME NEW n \in Member, Busy(n, p)' PROVE InStep(member[n], p)'
    <3>1. CASE n = m
      BY <1>0, <1>3, <2>1, <3>1, BecomesFrame DEF Busy
    <3>2. CASE n # m
      <4>1. Busy(n, q)
        BY <1>0, <1>3, <2>1, <3>2, BecomesFrame DEF Busy
      <4>2. ~ Busy(m, q)
        BY <1>1, <1>3, <3>2, <4>1 DEF Inv, Alone
      <4> QED BY <1>0, <1>3, <3>2, <4>1, <4>2, BecomesFrame
    <3> QED BY <3>1, <3>2
  <2> QED BY <1>3, <2>1
<1> QED BY <1>2, <1>3

LEMMA TypeStep ==
  ASSUME TypeOK, NEW m \in Member, NEW s, Becomes(m, s), UNCHANGED topicVars,
         offset' \in Seq(Nat), Cell \subseteq Cell', partitions' \in [Part -> {0} \cup Cell'],
         s \in MemberState', rewinds' \in Nat, consumed' \in [Part -> SUBSET Nat]
  PROVE  TypeOK'
<1>1. member' \in [Member -> MemberState']
  <2>1. member' = [n \in Member |-> member'[n]]
    BY DEF TypeOK, Becomes
  <2>2. \A n \in Member : member'[n] \in MemberState'
    BY BecomesFrame, StatesGrow DEF TypeOK
  <2> QED BY <2>1, <2>2
<1> QED BY <1>1, BecomesFrame DEF TypeOK, TopicTypeOK, topicVars

LEMMA LogStep == ASSUME LogInv, UNCHANGED topicVars PROVE LogInv'
BY DEF LogInv, topicVars, Route

LEMMA BatchStep ==
  ASSUME TypeOK, BatchInv, NEW m \in Member, NEW s, Becomes(m, s), UNCHANGED log,
         s.pc = "next" => s.from <= s.to /\ s.to <= Len(log[s.part])
  PROVE  BatchInv'
BY BecomesFrame DEF BatchInv

\* The map does not change, and a member gets a cell from it or has it.
LEMMA CellKept ==
  ASSUME TypeOK, CellInv, NEW m \in Member, NEW s, Becomes(m, s), UNCHANGED partitions,
         HasCell(s) =>
           /\ s.part \in Part
           /\ \/ s.cell = partitions[s.part]
              \/ HasCell(member[m]) /\ s.cell = member[m].cell /\ s.part = member[m].part
  PROVE  CellInv'
<1> SUFFICES ASSUME NEW p \in Part, partitions[p] # 0
             PROVE  /\ \A q \in Part : partitions[q] = partitions[p] => q = p
                    /\ \A n \in Member :
                         HasCell(member'[n]) /\ member'[n].cell = partitions[p] => member'[n].part = p
  BY DEF CellInv, HasCell
<1>1. \A q \in Part : partitions[q] = partitions[p] => q = p
  BY DEF CellInv
<1>2. \A n \in Member : HasCell(member[n]) /\ member[n].cell = partitions[p] => member[n].part = p
  BY DEF CellInv
<1> QED BY <1>1, <1>2, BecomesFrame

\* A new PartitionConsumer is of one partition.
LEMMA InsertFrame ==
  ASSUME TypeOK, NEW q \in Part, NEW off \in Nat, Insert(q, off)
  PROVE  /\ offset' \in Seq(Nat) /\ Cell \subseteq Cell' /\ Len(offset) + 1 \in Cell'
         /\ Len(offset) + 1 \notin Cell /\ Len(offset) + 1 # 0
         /\ offset'[Len(offset) + 1] = off
         /\ \A k \in Cell : offset'[k] = offset[k]
         /\ partitions' \in [Part -> {0} \cup Cell']
         /\ partitions'[q] = Len(offset) + 1
         /\ \A p \in Part \ {q} : partitions'[p] = partitions[p]
<1>1. offset \in Seq(Nat) /\ offset' = Append(offset, off)
  BY DEF TypeOK, Insert
<1>2. /\ offset' \in Seq(Nat) /\ Len(offset') = Len(offset) + 1 /\ Len(offset) \in Nat
      /\ Cell = 1..Len(offset) /\ Cell' = 1..Len(offset')
      /\ \A k \in 1..Len(offset) : offset'[k] = offset[k]
      /\ offset'[Len(offset) + 1] = off
  BY <1>1, AppendProperties, LenProperties DEF Cell
<1>3. partitions' = [partitions EXCEPT ![q] = Len(offset) + 1] /\ partitions \in [Part -> {0} \cup Cell]
  BY DEF TypeOK, Insert
<1>4. Cell \subseteq Cell' /\ Len(offset) + 1 \in Cell'
  BY <1>2
<1>5. Len(offset) + 1 \notin Cell /\ Len(offset) + 1 # 0
  BY <1>2
<1> HIDE DEF Cell
<1>6. \A k \in Cell : offset'[k] = offset[k]
  BY <1>2
<1> QED BY <1>2, <1>3, <1>4, <1>5, <1>6

LEMMA CellInserted ==
  ASSUME TypeOK, CellInv, NEW m \in Member, NEW s, Becomes(m, s),
         NEW q \in Part, NEW off \in Nat, Insert(q, off),
         HasCell(s) => s.part = q /\ s.cell = Len(offset) + 1
  PROVE  CellInv'
<1> DEFINE new == Len(offset) + 1
<1>1. /\ new \notin Cell /\ new # 0 /\ partitions'[q] = new
      /\ \A p \in Part \ {q} : partitions'[p] = partitions[p]
  BY InsertFrame
<1>2. \A p \in Part : partitions[p] # new
  BY <1>1 DEF TypeOK
<1>3. \A n \in Member : HasCell(member[n]) => member[n].cell # new
  BY <1>1, Shape DEF TypeOK
<1> HIDE DEF new
<1> SUFFICES ASSUME NEW p \in Part, partitions'[p] # 0
             PROVE  /\ \A r \in Part : partitions'[r] = partitions'[p] => r = p
                    /\ \A n \in Member :
                         HasCell(member'[n]) /\ member'[n].cell = partitions'[p] => member'[n].part = p
  BY DEF CellInv, HasCell
<1>4. CASE p = q
  <2>1. \A r \in Part : partitions'[r] = partitions'[p] => r = p
    BY <1>1, <1>2, <1>4
  <2>2. \A n \in Member : HasCell(member'[n]) /\ member'[n].cell = new => member'[n].part = q
    BY <1>3, BecomesFrame
  <2> QED BY <1>1, <1>4, <2>1, <2>2
<1>5. CASE p # q
  <2>1. partitions'[p] = partitions[p]
    BY <1>1, <1>5
  <2>2. \A r \in Part : partitions'[r] = partitions'[p] => r = p
    BY <1>1, <1>2, <1>5, <2>1 DEF CellInv
  <2>3. \A n \in Member : HasCell(member'[n]) /\ member'[n].cell = partitions'[p] => member'[n].part = p
    BY <1>2, <2>1, BecomesFrame DEF CellInv, new
  <2> QED BY <2>2, <2>3
<1> QED BY <1>4, <1>5

\* A step of a call that changes neither the map nor an offset.
LEMMA LocalStep ==
  ASSUME Inv, NEW m \in Member, NEW q \in Part, NEW s \in MemberState, Becomes(m, s),
         UNCHANGED <<topicVars, groupVars, consumed>>, rewinds' \in Nat,
         s # Resting => s.part = q,
         \/ Busy(m, q)
         \/ member[m] = Resting /\ s # Resting,
         HasCell(s) => s.cell = partitions[q] \/ (HasCell(member[m]) /\ s.cell = member[m].cell),
         s.pc = "next" => s.from <= s.to /\ s.to <= Len(log[q]),
         q \notin shared /\ s # Resting => InStep(s, q)
  PROVE  Inv'
<1>1. UNCHANGED <<partitioner, keys, log, partitions, offset, consumed>>
  BY DEF topicVars, groupVars
<1>2. Cell' = Cell
  BY <1>1 DEF Cell
<1>3. TypeOK'
  BY <1>1, <1>2, TypeStep, StatesGrow DEF Inv, TypeOK
<1>4. Alone' /\ LogInv'
  BY AloneStep, LogStep DEF Inv
<1>5. HasCell(s) \/ s.pc = "next" => s.part = q
  BY DEF HasCell, Resting
<1>6. BatchInv'
  BY <1>1, <1>5, BatchStep DEF Inv
<1>7. CellInv'
  <2>1. HasCell(member[m]) => Busy(m, q)
    BY DEF HasCell, Resting
  <2> QED BY <1>1, <1>5, <2>1, CellKept DEF Inv, Busy
<1>8. UnsharedInv'
  <2>1. ASSUME q \notin shared' PROVE Prefix(q)' /\ Passed(q, Offset(q))' /\ (s # Resting => InStep(member[m], q)')
    <3>1. q \notin shared /\ member'[m] = s
      BY <2>1, BecomesFrame DEF Inv
    <3>2. Prefix(q) /\ Passed(q, Offset(q)) /\ (s # Resting => InStep(s, q))
      BY <3>1 DEF Inv, UnsharedInv
    <3> QED BY <1>1, <3>1, <3>2 DEF Prefix, Passed, Offset, InStep, HasCell
  <2> QED BY <1>1, <2>1, UnsharedStep
<1> QED BY <1>3, <1>4, <1>6, <1>7, <1>8 DEF Inv

\* A call is at its partition.
LEMMA Calling ==
  ASSUME Inv, NEW m \in Member, member[m] # Resting
  PROVE  /\ member[m] \in MemberState /\ member[m].part \in Part /\ Busy(m, member[m].part)
         /\ member[m].part \notin shared =>
              /\ Prefix(member[m].part)
              /\ Passed(member[m].part, Offset(member[m].part))
              /\ InStep(member[m], member[m].part)
<1>1. member[m] \in MemberState /\ Busy(m, member[m].part)
  BY DEF Inv, TypeOK, Busy
<1>2. member[m].part \in Part
  BY <1>1, Shape
<1> QED BY <1>1, <1>2 DEF Inv, UnsharedInv

LEMMA LookupStep ==
  ASSUME Inv, NEW m \in Member, NEW p \in Part, ConsumeLookup(m, p)
  PROVE  Inv'
<1> DEFINE s == IF partitions[p] = 0 THEN [pc |-> "create", part |-> p]
                ELSE [pc |-> "load", part |-> p, cell |-> partitions[p]]
<1>1. s \in MemberState
  <2>1. partitions[p] \in {0} \cup Cell
    BY DEF Inv, TypeOK
  <2> QED BY <2>1, States
<1>2. /\ s # Resting /\ s.part = p /\ s.pc # "next"
      /\ HasCell(s) => s.cell = partitions[p]
      /\ InStep(s, p)
  BY DEF Resting, HasCell, InStep
<1>3. /\ Becomes(m, s) /\ member[m] = Resting /\ UNCHANGED <<topicVars, groupVars, consumed>>
      /\ rewinds' \in Nat
  BY DEF ConsumeLookup, Inv, TypeOK
<1> HIDE DEF s
<1> QED BY <1>1, <1>2, <1>3, LocalStep

\* The lookups of Commit, for an offset that may be committed.
LEMMA CallStep ==
  ASSUME Inv, NEW m \in Member, NEW p \in Part, NEW off \in Nat, Call(m, p, off),
         member[m] = Resting \/ Busy(m, p),
         p \notin shared => Passed(p, off),
         UNCHANGED <<topicVars, groupVars, consumed>>, rewinds' \in Nat
  PROVE  Inv'
<1> DEFINE s == IF partitions[p] = 0 THEN [pc |-> "insert", part |-> p, offset |-> off]
                ELSE [pc |-> "set", part |-> p, offset |-> off, cell |-> partitions[p]]
<1>1. s \in MemberState
  <2>1. partitions[p] \in {0} \cup Cell
    BY DEF Inv, TypeOK
  <2> QED BY <2>1, States
<1>2. /\ s # Resting /\ s.part = p /\ s.pc # "next"
      /\ HasCell(s) => s.cell = partitions[p]
      /\ p \notin shared => InStep(s, p)
  BY DEF Resting, HasCell, InStep
<1>3. Becomes(m, s)
  BY DEF Call
<1> HIDE DEF s
<1> QED BY <1>1, <1>2, <1>3, LocalStep

LEMMA RewindStep ==
  ASSUME Inv, NEW m \in Member, NEW p \in Part, Rewind(m, p)
  PROVE  Inv'
<1>1. Passed(p, 0)
  BY LogType DEF Passed, Inv
<1>2. /\ member[m] = Resting /\ Call(m, p, 0) /\ UNCHANGED <<topicVars, groupVars, consumed>>
      /\ rewinds' \in Nat
  BY DEF Rewind, Inv, TypeOK
<1> QED BY <1>1, <1>2, CallStep

LEMMA CommitLookupStep ==
  ASSUME Inv, NEW m \in Member, CommitLookup(m)
  PROVE  Inv'
<1> DEFINE q == member[m].part
<1>1. member[m] # Resting /\ member[m].pc = "got"
  BY DEF CommitLookup, Resting
<1>2. q \in Part /\ Busy(m, q) /\ member[m].offset \in Nat
  BY <1>1, Calling, Shape
<1>3. q \notin shared => Passed(q, member[m].offset)
  BY <1>1, Calling DEF InStep
<1>4. /\ Call(m, q, member[m].offset) /\ UNCHANGED <<topicVars, groupVars, consumed>>
      /\ rewinds' \in Nat
  BY DEF CommitLookup, Inv, TypeOK
<1> QED BY <1>2, <1>3, <1>4, CallStep

LEMMA GiveUpStep ==
  ASSUME Inv, NEW m \in Member, GiveUp(m)
  PROVE  Inv'
<1>1. member[m] # Resting
  BY DEF GiveUp, Resting
<1>2. Becomes(m, Resting) /\ UNCHANGED <<topicVars, groupVars, consumed>> /\ rewinds' \in Nat
  BY DEF GiveUp, Inv, TypeOK
<1>3. Resting \in MemberState /\ ~ HasCell(Resting) /\ Resting.pc # "next"
  BY DEF MemberState, HasCell, Resting
<1> QED BY <1>1, <1>2, <1>3, Calling, LocalStep

LEMMA LoadStep ==
  ASSUME Inv, NEW m \in Member, ConsumeLoad(m)
  PROVE  Inv'
<1> DEFINE q == member[m].part
           s == [pc |-> "read", part |-> q, cell |-> member[m].cell, from |-> offset[member[m].cell]]
<1>1. member[m] # Resting /\ HasCell(member[m])
  BY DEF ConsumeLoad, Resting, HasCell
<1>2. q \in Part /\ Busy(m, q) /\ member[m] \in MemberState
  BY <1>1, Calling
<1>3. member[m].cell \in Cell /\ offset[member[m].cell] \in Nat
  BY <1>1, <1>2, Shape, CellType DEF Inv
<1>4. s \in MemberState
  BY <1>2, <1>3, States
<1>5. /\ s # Resting /\ s.part = q /\ s.cell = member[m].cell /\ s.pc # "next"
      /\ q \notin shared => InStep(s, q)
  BY <1>1, Calling DEF InStep, HasCell, Resting
<1>6. Becomes(m, s) /\ UNCHANGED <<topicVars, groupVars, consumed>> /\ rewinds' \in Nat
  BY DEF ConsumeLoad, Inv, TypeOK
<1> HIDE DEF s
<1> QED BY <1>1, <1>2, <1>4, <1>5, <1>6, LocalStep

LEMMA ReadStep ==
  ASSUME Inv, NEW m \in Member, ConsumeRead(m)
  PROVE  Inv'
<1> DEFINE q == member[m].part
           from == member[m].from
           to == Lesser(from + Batch, Len(log[q]))
           next == [pc |-> "next", part |-> q, cell |-> member[m].cell, from |-> from, to |-> to]
<1>1. member[m] # Resting /\ member[m].pc = "read" /\ HasCell(member[m])
  BY DEF ConsumeRead, Resting, HasCell
<1>2. q \in Part /\ Busy(m, q) /\ member[m] \in MemberState
  BY <1>1, Calling
<1>3. member[m].cell \in Cell /\ from \in Nat
  BY <1>1, <1>2, Shape
<1>4. Len(log[q]) \in Nat
  BY <1>2, LogType DEF Inv
<1>5. to \in Nat /\ to <= Len(log[q]) /\ (from <= Len(log[q]) => from <= to)
  BY <1>3, <1>4, GroupAssumption DEF Lesser
<1>6. UNCHANGED <<topicVars, groupVars, consumed>> /\ rewinds' \in Nat
  BY DEF ConsumeRead, Inv, TypeOK
<1>7. CASE from > Len(log[q])
  <2>1. Becomes(m, Resting)
    BY <1>7 DEF ConsumeRead
  <2>2. Resting \in MemberState /\ ~ HasCell(Resting) /\ Resting.pc # "next"
    BY DEF MemberState, HasCell, Resting
  <2> QED BY <1>2, <1>6, <2>1, <2>2, LocalStep
<1>8. CASE ~ (from > Len(log[q]))
  <2>1. Becomes(m, next)
    BY <1>8 DEF ConsumeRead
  <2>2. next \in MemberState
    BY <1>2, <1>3, <1>5, States
  <2>3. /\ next # Resting /\ next.part = q /\ next.cell = member[m].cell
        /\ next.from <= next.to /\ next.to <= Len(log[q])
    BY <1>3, <1>4, <1>5, <1>8 DEF Resting
  <2>4. q \notin shared => InStep(next, q)
    BY <1>1, Calling DEF InStep, HasCell
  <2> HIDE DEF next
  <2> QED BY <1>1, <1>2, <1>6, <2>1, <2>2, <2>3, <2>4, LocalStep
<1> QED BY <1>7, <1>8

LEMMA ReturnStep ==
  ASSUME Inv, NEW m \in Member, ConsumeReturn(m)
  PROVE  Inv'
<1>a. PICK c : c = member[m]
  OBVIOUS
<1>b. PICK q : q = c.part
  OBVIOUS
<1>c. PICK s : s = [pc |-> "got", part |-> q, offset |-> NextOff(c)]
  OBVIOUS
<1>1. c # Resting /\ c.pc = "next" /\ HasCell(c)
  BY <1>a DEF ConsumeReturn, Resting, HasCell
<1>2. /\ q \in Part /\ Busy(m, q) /\ c \in MemberState
      /\ q \notin shared => Prefix(q) /\ Passed(q, Offset(q)) /\ InStep(c, q)
  BY <1>1, <1>a, <1>b, Calling
<1>3. /\ c.cell \in Cell /\ offset[c.cell] \in Nat /\ c.from \in Nat /\ c.to \in Nat
      /\ c.from <= c.to /\ c.to <= Len(log[q])
      /\ Len(log[q]) \in Nat /\ DOMAIN log[q] = 1..Len(log[q])
  <2>1. c.cell \in Cell /\ c.from \in Nat /\ c.to \in Nat
    BY <1>1, <1>2, Shape
  <2>2. c.from <= c.to /\ c.to <= Len(log[q])
    BY <1>1, <1>a, <1>b DEF Inv, BatchInv
  <2> QED BY <1>2, <2>1, <2>2, CellType, LogType DEF Inv
<1>4. NextOff(c) = offset[c.cell] + (c.to - c.from) /\ NextOff(c) \in Nat
  BY <1>3 DEF NextOff
<1>5. /\ Becomes(m, s) /\ rewinds' = rewinds
      /\ UNCHANGED <<partitioner, keys, log, partitions, offset>>
      /\ consumed' = [consumed EXCEPT ![q] = @ \cup (c.from + 1)..c.to]
  BY <1>a, <1>b, <1>c DEF ConsumeReturn, topicVars, groupVars
<1>6. /\ s \in MemberState /\ s # Resting /\ s.pc = "got" /\ s.part = q /\ s.offset = NextOff(c)
  BY <1>2, <1>4, <1>c, States DEF Resting
<1>7. /\ consumed' \in [Part -> SUBSET Nat]
      /\ consumed'[q] = consumed[q] \cup (c.from + 1)..c.to
      /\ \A p \in Part \ {q} : consumed'[p] = consumed[p]
  <2>1. consumed \in [Part -> SUBSET Nat] /\ (c.from + 1)..c.to \subseteq Nat
    BY <1>3 DEF Inv, TypeOK
  <2> QED BY <1>2, <1>5, <2>1
<1>8. TypeOK'
  <2>1. Cell' = Cell
    BY <1>5 DEF Cell
  <2> QED BY <1>5, <1>6, <1>7, <2>1, TypeStep, StatesGrow DEF Inv, TypeOK, topicVars
<1>9. Alone' /\ LogInv' /\ BatchInv' /\ CellInv'
  <2>1. ~ HasCell(s) /\ s.pc # "next"
    BY <1>6 DEF HasCell
  <2> QED BY <1>5, <2>1, AloneStep, LogStep, BatchStep, CellKept DEF Inv, topicVars
<1>10. UnsharedInv'
  <2>1. ASSUME q \notin shared'
        PROVE Prefix(q)' /\ Passed(q, Offset(q))' /\ (s # Resting => InStep(member[m], q)')
    <3>1. q \notin shared /\ member'[m] = s
      BY <1>5, <2>1, BecomesFrame DEF Inv
    <3>2. Prefix(q) /\ Passed(q, Offset(q)) /\ c.cell = partitions[q] /\ c.from = offset[c.cell]
      BY <1>1, <1>2, <3>1 DEF InStep
    <3>3. partitions[q] # 0
      BY <1>3, <3>2, CellType DEF Inv
    <3>4. Offset(q) = c.from /\ Offset(q)' = c.from
      BY <1>5, <3>2, <3>3 DEF Offset
    <3>5. 1..c.from \subseteq consumed[q]
      BY <3>2, <3>4 DEF Passed
    <3>6. 1..c.to \subseteq consumed'[q]
      BY <1>3, <1>7, <3>5
    <3>7. Prefix(q)'
      <4> SUFFICES ASSUME NEW i \in consumed'[q]
                   PROVE  i \in DOMAIN log'[q] /\ 1..i \subseteq consumed'[q]
        BY DEF Prefix
      <4>1. CASE i \in consumed[q]
        BY <1>5, <1>7, <3>2, <4>1 DEF Prefix
      <4>2. CASE i \in (c.from + 1)..c.to
        <5>1. i \in 1..Len(log[q]) /\ 1..i \subseteq 1..c.to
          BY <1>3, <4>2
        <5> QED BY <1>3, <1>5, <3>6, <5>1
      <4> QED BY <1>7, <4>1, <4>2
    <3>8. Passed(q, Offset(q))'
      BY <1>3, <1>5, <1>7, <3>4, <3>5 DEF Passed
    <3>9. InStep(member[m], q)'
      <4>1. NextOff(c) = c.to
        BY <1>3, <1>4, <3>2
      <4> QED BY <1>3, <1>5, <1>6, <3>1, <3>6, <4>1 DEF InStep, HasCell, Passed
    <3> QED BY <3>7, <3>8, <3>9
  <2>2. Busy(m, q)
    BY <1>2
  <2> QED BY <1>2, <1>5, <1>6, <1>7, <2>1, UnsharedStep
<1> QED BY <1>8, <1>9, <1>10 DEF Inv

\* The two steps that put a new PartitionConsumer into the map.
LEMMA InsertStep ==
  ASSUME Inv, NEW m \in Member, member[m] # Resting, NEW off \in Nat, NEW s \in MemberState',
         Insert(member[m].part, off), Becomes(m, s),
         UNCHANGED <<topicVars, rewinds, consumed>>,
         s = Resting \/ s = [pc |-> "load", part |-> member[m].part, cell |-> Len(offset) + 1],
         member[m].part \notin shared => Passed(member[m].part, off)
  PROVE  Inv'
<1>a. PICK q : q = member[m].part
  OBVIOUS
<1>b. PICK new : new = Len(offset) + 1
  OBVIOUS
<1>1. /\ q \in Part /\ Busy(m, q)
      /\ q \notin shared => Prefix(q) /\ Passed(q, off)
  BY <1>a, Calling
<1>2. UNCHANGED <<partitioner, keys, log, rewinds, consumed>>
  BY DEF topicVars
<1>3. /\ s # Resting => s.part = q
      /\ s.pc # "next"
      /\ HasCell(s) => s.part = q /\ s.cell = new
  BY <1>a, <1>b DEF Resting, HasCell
<1>4. /\ offset' \in Seq(Nat) /\ Cell \subseteq Cell' /\ new # 0 /\ offset'[new] = off
      /\ \A k \in Cell : offset'[k] = offset[k]
      /\ partitions' \in [Part -> {0} \cup Cell']
      /\ partitions'[q] = new
      /\ \A p \in Part \ {q} : partitions'[p] = partitions[p]
  BY <1>1, <1>a, <1>b, InsertFrame DEF Inv
<1>5. TypeOK'
  BY <1>2, <1>4, TypeStep DEF Inv, TypeOK, topicVars
<1>6. Alone' /\ LogInv' /\ BatchInv' /\ CellInv'
  <2>1. CellInv'
    BY <1>1, <1>3, <1>a, <1>b, CellInserted DEF Inv
  <2> QED BY <1>2, <1>3, <2>1, AloneStep, LogStep, BatchStep DEF Inv
<1>7. UnsharedInv'
  <2>1. ASSUME q \notin shared'
        PROVE Prefix(q)' /\ Passed(q, Offset(q))' /\ (s # Resting => InStep(member[m], q)')
    <3>1. q \notin shared /\ member'[m] = s
      BY <2>1, BecomesFrame DEF Inv
    <3>2. Offset(q)' = off
      BY <1>4 DEF Offset
    <3>3. Prefix(q)' /\ Passed(q, Offset(q))'
      BY <1>1, <1>2, <3>1, <3>2 DEF Prefix, Passed
    <3>4. s # Resting => InStep(s, q)'
      <4>1. s # Resting => s.pc = "load"
        OBVIOUS
      <4> QED BY <1>3, <1>4, <4>1 DEF InStep, HasCell
    <3> QED BY <3>1, <3>3, <3>4 DEF InStep, HasCell, Passed
  <2>2. \A p \in Part \ {q} :
           /\ partitions'[p] = partitions[p] /\ consumed'[p] = consumed[p]
           /\ partitions[p] # 0 => offset'[partitions[p]] = offset[partitions[p]]
    BY <1>2, <1>4 DEF Inv, TypeOK
  <2> QED BY <1>1, <1>2, <1>3, <2>1, <2>2, UnsharedStep
<1> QED BY <1>5, <1>6, <1>7 DEF Inv

LEMMA CreateStep ==
  ASSUME Inv, NEW m \in Member, ConsumeCreate(m)
  PROVE  Inv'
<1>a. PICK q : q = member[m].part
  OBVIOUS
<1>b. PICK s : s = [pc |-> "load", part |-> q, cell |-> Len(offset) + 1]
  OBVIOUS
<1>1. member[m] # Resting /\ Insert(q, 0) /\ Becomes(m, s) /\ UNCHANGED <<topicVars, rewinds, consumed>>
  BY <1>a, <1>b DEF ConsumeCreate, Resting
<1>2. q \in Part
  BY <1>1, <1>a, Calling
<1>3. s \in MemberState'
  <2>1. Len(offset) + 1 \in Cell'
    BY <1>1, <1>2, InsertFrame DEF Inv
  <2>2. s \in [pc : {"load"}, part : Part, cell : Cell']
    BY <1>2, <1>b, <2>1
  <2> QED BY <2>2 DEF MemberState
<1>4. Passed(q, 0)
  BY <1>2, LogType DEF Passed, Inv
<1> QED BY <1>1, <1>3, <1>4, <1>a, <1>b, InsertStep

LEMMA CommitInsertStep ==
  ASSUME Inv, NEW m \in Member, CommitInsert(m)
  PROVE  Inv'
<1>1. /\ member[m] # Resting /\ member[m].pc = "insert"
      /\ Insert(member[m].part, member[m].offset) /\ Becomes(m, Resting)
      /\ UNCHANGED <<topicVars, rewinds, consumed>>
  BY DEF CommitInsert, Resting
<1>2. member[m].offset \in Nat
  BY <1>1, Calling, Shape
<1>3. member[m].part \notin shared => Passed(member[m].part, member[m].offset)
  BY <1>1, Calling DEF InStep
<1>4. Resting \in MemberState'
  BY DEF MemberState
<1> QED BY <1>1, <1>2, <1>3, <1>4, InsertStep

LEMMA CommitSetStep ==
  ASSUME Inv, NEW m \in Member, CommitSet(m)
  PROVE  Inv'
<1>a. PICK c : c = member[m]
  OBVIOUS
<1>b. PICK q : q = c.part
  OBVIOUS
<1>1. c # Resting /\ c.pc = "set" /\ HasCell(c)
  BY <1>a DEF CommitSet, Resting, HasCell
<1>2. /\ q \in Part /\ Busy(m, q) /\ c \in MemberState /\ c.cell \in Cell /\ c.offset \in Nat
      /\ q \notin shared => Prefix(q) /\ InStep(c, q)
  BY <1>1, <1>a, <1>b, Calling, Shape
<1>3. /\ offset' = [offset EXCEPT ![c.cell] = c.offset] /\ Becomes(m, Resting)
      /\ UNCHANGED <<partitioner, keys, log, partitions, rewinds, consumed>>
  BY <1>a DEF CommitSet, topicVars
<1>4. /\ offset' \in Seq(Nat) /\ Cell' = Cell /\ offset'[c.cell] = c.offset
      /\ \A k \in Cell : k # c.cell => offset'[k] = offset[k]
  <2>1. offset \in Seq(Nat) /\ c.cell \in 1..Len(offset)
    BY <1>2, CellType DEF Inv, TypeOK
  <2>2. offset' \in Seq(Nat) /\ Len(offset') = Len(offset)
    BY <1>2, <1>3, <2>1, ExceptSeq
  <2> QED BY <1>2, <1>3, <2>1, <2>2, LenProperties DEF Cell
<1>5. TypeOK'
  <2>1. Resting \in MemberState'
    BY DEF MemberState
  <2> QED BY <1>3, <1>4, <2>1, TypeStep DEF Inv, TypeOK, topicVars
<1>6. Alone' /\ LogInv' /\ BatchInv' /\ CellInv'
  <2>1. ~ HasCell(Resting) /\ Resting.pc # "next"
    BY DEF HasCell, Resting
  <2> QED BY <1>3, <2>1, AloneStep, LogStep, BatchStep, CellKept DEF Inv, topicVars
<1>7. UnsharedInv'
  <2>1. ASSUME q \notin shared'
        PROVE Prefix(q)' /\ Passed(q, Offset(q))'
    <3>1. q \notin shared
      BY <1>3, <2>1, BecomesFrame DEF Inv
    <3>2. c.cell = partitions[q] /\ Passed(q, c.offset) /\ Prefix(q)
      BY <1>1, <1>2, <3>1 DEF InStep
    <3>3. partitions[q] # 0
      BY <1>2, <3>2, CellType DEF Inv
    <3>4. Offset(q)' = c.offset
      BY <1>3, <1>4, <3>2, <3>3 DEF Offset
    <3> QED BY <1>3, <3>2, <3>4 DEF Prefix, Passed
  <2>2. ASSUME NEW p \in Part \ {q}, partitions[p] # 0
        PROVE  offset'[partitions[p]] = offset[partitions[p]]
    <3>1. partitions[p] # c.cell
      BY <1>1, <1>a, <1>b, <2>2 DEF Inv, CellInv
    <3> QED BY <1>4, <2>2, <3>1 DEF Inv, TypeOK
  <2> QED BY <1>2, <1>3, <2>1, <2>2, UnsharedStep
<1> QED BY <1>5, <1>6, <1>7 DEF Inv

-----------------------------------------------------------------------------
(* The invariant, and what follows.                                        *)

LEMMA InvInit == Init => Inv
<1> SUFFICES ASSUME Init PROVE Inv
  OBVIOUS
<1>1. /\ partitioner \in [Key -> Part] /\ keys = <<>> /\ log = [p \in Part |-> <<>>]
      /\ partitions = [p \in Part |-> 0] /\ offset = <<>>
      /\ member = [m \in Member |-> Resting] /\ rewinds = 0
      /\ consumed = [p \in Part |-> {}] /\ shared = {}
  BY PartitionerType DEF Init, TopicInit
<1>2. \A p \in Part : log[p] = <<>> /\ log[p] \in Seq(Nat) /\ DOMAIN log[p] = {} /\ Len(log[p]) = 0
  BY <1>1
<1>3. TypeOK
  <2>1. keys \in Seq(Key) /\ offset \in Seq(Nat)
    BY <1>1
  <2>2. member \in [Member -> MemberState]
    BY <1>1 DEF MemberState
  <2> QED BY <1>1, <1>2, <2>1, <2>2 DEF TypeOK, TopicTypeOK
<1>4. Alone /\ CellInv /\ BatchInv
  BY <1>1 DEF Alone, CellInv, BatchInv, Busy, Resting
<1>5. UnsharedInv
  BY <1>1, <1>2 DEF UnsharedInv, Prefix, Passed, Offset, Busy
<1>6. LogInv
  <2>1. DOMAIN keys = {}
    BY <1>1
  <2> QED BY <1>2, <2>1 DEF LogInv
<1> QED BY <1>3, <1>4, <1>5, <1>6 DEF Inv

LEMMA InvStep == Inv /\ [Next]_vars => Inv'
<1> SUFFICES ASSUME Inv, [Next]_vars PROVE Inv'
  OBVIOUS
<1>1. CASE \E k \in Key : Produce(k) /\ UNCHANGED <<groupVars, member, rewinds, consumed, shared>>
  BY <1>1, ProduceStep
<1>2. CASE \E m \in Member : \E p \in Part : ConsumeLookup(m, p) \/ Rewind(m, p)
  BY <1>2, LookupStep, RewindStep
<1>3. CASE \E m \in Member : ConsumeCreate(m)
  BY <1>3, CreateStep
<1>4. CASE \E m \in Member : ConsumeLoad(m) \/ ConsumeRead(m)
  BY <1>4, LoadStep, ReadStep
<1>5. CASE \E m \in Member : ConsumeReturn(m)
  BY <1>5, ReturnStep
<1>6. CASE \E m \in Member : GiveUp(m)
  BY <1>6, GiveUpStep
<1>7. CASE \E m \in Member : CommitLookup(m)
  BY <1>7, CommitLookupStep
<1>8. CASE \E m \in Member : CommitInsert(m)
  BY <1>8, CommitInsertStep
<1>9. CASE \E m \in Member : CommitSet(m)
  BY <1>9, CommitSetStep
<1>10. CASE UNCHANGED vars
  <2>1. /\ UNCHANGED <<partitioner, keys, log, partitions, offset, member, rewinds, consumed, shared>>
    BY <1>10 DEF vars, topicVars, groupVars
  <2>2. TypeOK'
    BY <2>1 DEF Inv, TypeOK, TopicTypeOK, MemberState, Cell, Resting
  <2>3. Alone' /\ CellInv' /\ BatchInv'
    BY <2>1 DEF Inv, Alone, CellInv, BatchInv, Busy, HasCell
  <2>4. UnsharedInv'
    BY <2>1 DEF Inv, UnsharedInv, Prefix, Passed, Offset, Busy, InStep, HasCell
  <2>5. LogInv'
    BY <2>1 DEF Inv, LogInv, Route
  <2> QED BY <2>2, <2>3, <2>4, <2>5 DEF Inv
<1> QED BY <1>1, <1>2, <1>3, <1>4, <1>5, <1>6, <1>7, <1>8, <1>9, <1>10 DEF Next

LEMMA Invariance == Spec => []Inv
<1>1. Init => Inv
  BY InvInit
<1>2. Inv /\ [Next]_vars => Inv'
  BY InvStep
<1> QED BY <1>1, <1>2, PTL DEF Spec

\* Whatever the members do at the same time, the map and their calls point to
\* PartitionConsumers that exist.
THEOREM TypeCorrect == Spec => []TypeOK
<1>1. Inv => TypeOK
  BY DEF Inv
<1> QED BY <1>1, Invariance, PTL

\* The offset of a partition that no two members were busy with at once has
\* passed only what was consumed, although they share the map.
THEOREM OffsetTracksConsumedHolds == Spec => []OffsetTracksConsumed
<1>1. Inv => OffsetTracksConsumed
  BY DEF Inv, UnsharedInv, Passed, OffsetTracksConsumed
<1> QED BY <1>1, Invariance, PTL

\* A key has one partition, its messages are there in the order of Produce, and
\* what was consumed of the partition is a prefix: so the earlier messages of
\* the key were consumed.
LEMMA InvKeyOrder == Inv => KeyOrder
<1> SUFFICES ASSUME Inv, NEW p \in Part, p \notin shared, NEW i \in consumed[p],
                    NEW n \in 1..(log[p][i] - 1), keys[n] = keys[log[p][i]]
             PROVE  \E q \in Part : \E j \in consumed[q] : log[q][j] = n
  BY DEF KeyOrder
<1>1. i \in DOMAIN log[p] /\ 1..i \subseteq consumed[p]
  BY DEF Inv, UnsharedInv, Prefix
<1>2. /\ DOMAIN log[p] = 1..Len(log[p]) /\ Len(log[p]) \in Nat
      /\ log[p][i] \in DOMAIN keys /\ keys \in Seq(Key)
  BY <1>1, LogType DEF Inv, TypeOK, TopicTypeOK
<1>3. n \in DOMAIN keys /\ n < log[p][i] /\ n \in Nat /\ log[p][i] \in Nat
  <2>1. DOMAIN keys = 1..Len(keys) /\ Len(keys) \in Nat
    BY <1>2, LenProperties
  <2> QED BY <1>2, <2>1
<1>4. Route(keys[n]) = p
  BY <1>1 DEF Inv, LogInv
<1>5. PICK j \in DOMAIN log[p] : log[p][j] = n
  BY <1>3, <1>4 DEF Inv, LogInv
<1>6. j <= i
  <2>1. i < j => log[p][i] < log[p][j]
    BY <1>1, <1>5 DEF Inv, LogInv
  <2> QED BY <1>1, <1>2, <1>3, <1>5, <2>1
<1>7. j \in consumed[p]
  BY <1>1, <1>2, <1>5, <1>6
<1> QED BY <1>5, <1>7

\* No message of such a partition is consumed before the earlier messages of its key.
THEOREM KeyOrderHolds == Spec => []KeyOrder
BY InvKeyOrder, Invariance, PTL
=============================================================================
