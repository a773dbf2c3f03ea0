--------------------------- MODULE ConsumerGroup ---------------------------
(***************************************************************************)
(* A consumer group in memory: mq/internal/consumer_group.go, on a topic   *)
(* of module Topic.  Goroutines, here members, share the group.            *)
(*                                                                         *)
(* The map from partitions to PartitionConsumers is behind an RWMutex, but *)
(* Consume and Commit take it once to look a partition up and once more to *)
(* store what they found missing, and Consume reads the offset twice and   *)
(* without the mutex.  Each of these is an action.  The reads of a word    *)
(* that another goroutine writes see the old value or the new one.         *)
(***************************************************************************)
EXTENDS Topic

CONSTANTS
  Member,       \* goroutines that use the group
  Batch,        \* the batch size that they pass (> 0: consumer_group.go:40)
  MaxRewinds    \* bound of the model: commits of offset 0

ASSUME GroupAssumption == Batch \in Nat \ {0} /\ MaxRewinds \in Nat

VARIABLES
  partitions,   \* the map: partition -> its PartitionConsumer, 0 if absent
  offset,       \* the heap: offset[k] is that of the k-th PartitionConsumer
  member,       \* the call that each member is in
  rewinds,      \* number of commits of offset 0
  consumed,     \* history: partition -> indices of the messages returned
  shared        \* history: partitions that two members were busy with at once

groupVars == <<partitions, offset>>
vars == <<topicVars, groupVars, member, rewinds, consumed, shared>>

Resting == [pc |-> "rest"]

Lesser(a, b) == IF a < b THEN a ELSE b

\* Offset(partition)
Offset(p) == IF partitions[p] = 0 THEN 0 ELSE offset[partitions[p]]

Init ==
  /\ TopicInit
  /\ partitions = [p \in Part |-> 0]
  /\ offset = <<>>
  /\ member = [m \in Member |-> Resting]
  /\ rewinds = 0
  /\ consumed = [p \in Part |-> {}]
  /\ shared = {}

-----------------------------------------------------------------------------
\* History: member m goes on to state s.
Busy(m, p) == member[m] # Resting /\ member[m].part = p
Becomes(m, s) ==
  /\ member' = [member EXCEPT ![m] = s]
  /\ shared' = shared \cup
       {p \in Part : s # Resting /\ s.part = p /\ \E n \in Member \ {m} : Busy(n, p)}

\* A new PartitionConsumer replaces whatever the map holds by now.
\* (mutant: it is in the map before it exists)
InsertEarly(p, off) ==
  /\ partitions' = [partitions EXCEPT ![p] = Len(offset) + 1]
  /\ UNCHANGED offset
Insert(p, off) ==
  /\ offset' = Append(offset, off)
  /\ partitions' = [partitions EXCEPT ![p] = Len(offset) + 1]

-----------------------------------------------------------------------------
(* Consume(p, Batch) by member m.                                          *)

ConsumeLookup(m, p) ==
  /\ member[m] = Resting
  /\ Becomes(m, IF partitions[p] = 0 THEN [pc |-> "create", part |-> p]
                ELSE [pc |-> "load", part |-> p, cell |-> partitions[p]])
  /\ UNCHANGED <<topicVars, groupVars, rewinds, consumed>>

ConsumeCreate(m) ==
  /\ member[m].pc = "create"
  /\ Insert(member[m].part, 0)
  /\ Becomes(m, [pc |-> "load", part |-> member[m].part, cell |-> Len(offset) + 1])
  /\ UNCHANGED <<topicVars, rewinds, consumed>>

\* pc.offset is read for ReadFrom.
ConsumeLoad(m) ==
  /\ member[m].pc = "load"
  /\ LET c == member[m]
     IN  Becomes(m, [pc |-> "read", part |-> c.part, cell |-> c.cell, from |-> offset[c.cell]])
  /\ UNCHANGED <<topicVars, groupVars, rewinds, consumed>>

\* ReadFrom(from, batch), of the messages "from" + 1 to "to"; an offset beyond the
\* log is an error.
ConsumeRead(m) ==
  /\ member[m].pc = "read"
  /\ LET c   == member[m]
         len == Len(log[c.part])
     IN  Becomes(m, IF c.from > len THEN Resting
                    ELSE [pc |-> "next", part |-> c.part, cell |-> c.cell, from |-> c.from,
                          to |-> Lesser(c.from + Batch, len)])
  /\ UNCHANGED <<topicVars, groupVars, rewinds, consumed>>

\* nextOff := pc.offset + len(msgs)
\* (mutant: the batch size is taken for the number of messages)
NextByBatch(c) == offset[c.cell] + Batch
NextOff(c)     == offset[c.cell] + (c.to - c.from)

ConsumeReturn(m) ==
  /\ member[m].pc = "next"
  /\ LET c == member[m]
     IN  /\ consumed' = [consumed EXCEPT ![c.part] = @ \cup (c.from + 1)..c.to]
         /\ Becomes(m, [pc |-> "got", part |-> c.part, offset |-> NextOff(c)])
  /\ UNCHANGED <<topicVars, groupVars, rewinds>>

\* The member does not commit what it could not process.
GiveUp(m) ==
  /\ member[m].pc = "got"
  /\ Becomes(m, Resting)
  /\ UNCHANGED <<topicVars, groupVars, rewinds, consumed>>

-----------------------------------------------------------------------------
(* Commit(p, off) by member m: of the offset that Consume has returned, or *)
(* of 0, to read the partition again.                                      *)

Call(m, p, off) ==
  Becomes(m, IF partitions[p] = 0 THEN [pc |-> "insert", part |-> p, offset |-> off]
             ELSE [pc |-> "set", part |-> p, offset |-> off, cell |-> partitions[p]])

CommitLookup(m) ==
  /\ member[m].pc = "got"
  /\ Call(m, member[m].part, member[m].offset)
  /\ UNCHANGED <<topicVars, groupVars, rewinds, consumed>>

Rewind(m, p) ==
  /\ member[m] = Resting /\ rewinds < MaxRewinds
  /\ rewinds' = rewinds + 1
  /\ Call(m, p, 0)
  /\ UNCHANGED <<topicVars, groupVars, consumed>>

CommitInsert(m) ==
  /\ member[m].pc = "insert"
  /\ Insert(member[m].part, member[m].offset)
  /\ Becomes(m, Resting)
  /\ UNCHANGED <<topicVars, rewinds, consumed>>

CommitSet(m) ==
  /\ member[m].pc = "set"
  /\ offset' = [offset EXCEPT ![member[m].cell] = member[m].offset]
  /\ Becomes(m, Resting)
  /\ UNCHANGED <<topicVars, partitions, rewinds, consumed>>

-----------------------------------------------------------------------------
Next ==
  \/ \E k \in Key : Produce(k) /\ UNCHANGED <<groupVars, member, rewinds, consumed, shared>>
  \/ \E m \in Member :
       \/ \E p \in Part : ConsumeLookup(m, p) \/ Rewind(m, p)
       \/ ConsumeCreate(m) \/ ConsumeLoad(m) \/ ConsumeRead(m) \/ ConsumeReturn(m) \/ GiveUp(m)
       \/ CommitLookup(m) \/ CommitInsert(m) \/ CommitSet(m)

Spec == Init /\ [][Next]_vars

-----------------------------------------------------------------------------
(* Properties.                                                             *)

Cell == DOMAIN offset

MemberState ==
  {Resting}
    \cup [pc : {"create"}, part : Part]
    \cup [pc : {"load"}, part : Part, cell : Cell]
    \cup [pc : {"read"}, part : Part, cell : Cell, from : Nat]
    \cup [pc : {"next"}, part : Part, cell : Cell, from : Nat, to : Nat]
    \cup [pc : {"got", "insert"}, part : Part, offset : Nat]
    \cup [pc : {"set"}, part : Part, offset : Nat, cell : Cell]

\* Types; the partitions of the map, and those of calls, point to what exists.
TypeOK ==
  /\ TopicTypeOK
  /\ offset \in Seq(Nat)
  /\ partitions \in [Part -> {0} \cup Cell]
  /\ member \in [Member -> MemberState]
  /\ rewinds \in Nat
  /\ consumed \in [Part -> SUBSET Nat]
  /\ shared \subseteq Part

\* "coordinated offset tracking" (consumer_group.go:8), for every partition that
\* no two members have been busy with at once, although all share the map: the
\* offset has passed nothing but what was consumed, whatever was given up or
\* read again, and the next Consume is within the log.
OffsetTracksConsumed ==
  \A p \in Part \ shared :
    Offset(p) <= Len(log[p]) /\ 1..Offset(p) \subseteq consumed[p]

\* "ordering guarantees per key" (README.md:175): on such a partition, no
\* message is given out before the earlier messages of its key have been.
KeyOrder ==
  \A p \in Part \ shared : \A i \in consumed[p] :
    \A n \in 1..(log[p][i] - 1) : keys[n] = keys[log[p][i]] =>
      \E q \in Part : \E j \in consumed[q] : log[q][j] = n
=============================================================================
