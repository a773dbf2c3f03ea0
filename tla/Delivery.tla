------------------------------ MODULE Delivery ------------------------------
(***************************************************************************)
(* A partition and the collectors that poll it over HTTP: Queue.Consume    *)
(* (mq/internal/queue.go), HandleConsume and HandleAck (mq/api/handler.go) *)
(* and the poll loop of a collector (collector/internal/collector.go),     *)
(* around the partition of module Partition.                               *)
(*                                                                         *)
(* A poll touches the partition three times, each time on its own: Consume *)
(* looks up the group's offset, then reads the messages, and HandleConsume *)
(* looks the offset up again to number the messages and to compute the     *)
(* next_offset of the response.  The collector acknowledges with that      *)
(* number, in a later request that another goroutine of the server runs.   *)
(***************************************************************************)
EXTENDS Partition

CONSTANTS
  Consumer,     \* collector processes
  GroupOf,      \* the consumer group of each
  Batch,        \* batch size they poll with (> 0: handler.go:199)
  CompactWhen   \* "never": compaction is disabled; "anytime": the scheduler runs
                \* it; "quiet": an operator runs it with every collector stopped,
                \* after each group has committed once

ASSUME DeliveryAssumption ==
  /\ GroupOf \in [Consumer -> Group]
  /\ Batch \in Nat \ {0}
  /\ CompactWhen \in {"never", "quiet", "anytime"}

VARIABLES
  poll,         \* what each collector, or the request it waits for, is doing
  delivered,    \* history: messages of the responses a group has received
  polled        \* history: groups that have received a response

clientVars == <<poll, delivered, polled>>
allVars    == <<vars, clientVars>>

NoPoll == [pc |-> "idle"]

DInit ==
  /\ Init
  /\ poll = [c \in Consumer |-> NoPoll]
  /\ delivered = [g \in Group |-> {}]
  /\ polled = {}

Quiet == \A c \in Consumer : poll[c] = NoPoll

\* The deployment: an operator compacts at rest, and when every group is known, or
\* the scheduler does at any time.  The code itself tests nothing of the kind.
MayCompact ==
  \/ CompactWhen = "anytime"
  \/ CompactWhen = "quiet" /\ Quiet /\ Registered = Group

MayPoll == CompactWhen = "quiet" => Unlocked

-----------------------------------------------------------------------------
(* The poll request of collector c.                                        *)

\* start := part.Offset(group) (queue.go:128)
PollOffset(c) ==
  /\ poll[c] = NoPoll
  /\ MayPoll
  /\ poll' = [poll EXCEPT ![c] = [pc |-> "read", start |-> Offset(GroupOf[c])]]
  /\ UNCHANGED <<vars, delivered, polled>>

\* part.ReadFrom(start, batch) (queue.go:129); out of range is status 500, and
\* the collector goes on to its next poll.
PollRead(c) ==
  /\ poll[c].pc = "read"
  /\ Unlocked
  /\ poll' = [poll EXCEPT ![c] =
       IF InRange(poll[c].start)
       THEN [pc |-> "respond", msgs |-> ReadFrom(poll[c].start, Batch)]
       ELSE NoPoll]
  /\ UNCHANGED <<vars, delivered, polled>>

\* nextOffset = startOffset + len(msgs), where startOffset is the group's offset
\* looked up again (handler.go:231-240).
\* (mutants: the batch size is taken for the number of messages returned; the
\* first offset is taken for the next; the first offset is left out)
NextByCount(c) == Len(poll[c].msgs)
NextByBatch(c) == Offset(GroupOf[c]) + Batch
NextUnmoved(c) == Offset(GroupOf[c])
NextOffset(c)  == Offset(GroupOf[c]) + Len(poll[c].msgs)

\* HandleConsume computes the response and the collector receives it.  It does
\* not acknowledge an empty one (collector.go:65).
PollRespond(c) ==
  LET g    == GroupOf[c]
      msgs == poll[c].msgs
  IN
  /\ poll[c].pc = "respond"
  /\ poll' = [poll EXCEPT ![c] =
       IF msgs = <<>> THEN NoPoll
       ELSE [pc |-> "got", next |-> NextOffset(c)]]
  /\ delivered' = [delivered EXCEPT ![g] = @ \cup {msgs[i] : i \in DOMAIN msgs}]
  /\ polled' = polled \cup {g}
  /\ UNCHANGED vars

\* The response is lost; Consume returns an error to the collector.
PollLost(c) ==
  /\ poll[c].pc = "respond"
  /\ poll' = [poll EXCEPT ![c] = NoPoll]
  /\ UNCHANGED <<vars, delivered, polled>>

-----------------------------------------------------------------------------
(* The ack request of collector c, run by goroutine p of the server.       *)

Acking(c, p) == poll[c] = [pc |-> "acking", via |-> p]
Free(p)      == commit[p] = Idle /\ \A c \in Consumer : ~ Acking(c, p)

Ack(c, p) ==
  /\ poll[c].pc = "got"
  /\ Free(p)
  /\ CommitCall(p, GroupOf[c], poll[c].next)
  /\ poll' = [poll EXCEPT ![c] = [pc |-> "acking", via |-> p]]
  /\ UNCHANGED <<delivered, polled>>

\* The request is lost, or the collector restarts before it sends it: the next
\* poll starts afresh (an ack is never retried, collector.go:87-89).
AckLost(c) ==
  /\ poll[c].pc = "got"
  /\ poll' = [poll EXCEPT ![c] = NoPoll]
  /\ UNCHANGED <<vars, delivered, polled>>

\* The collector has the answer, an error or not, and goes on.
AckDone(c) ==
  /\ poll[c].pc = "acking"
  /\ commit[poll[c].via] = Idle
  /\ poll' = [poll EXCEPT ![c] = NoPoll]
  /\ UNCHANGED <<vars, delivered, polled>>

-----------------------------------------------------------------------------
Publish    == AppendMessage /\ UNCHANGED clientVars
Compaction == CompactLock /\ MayCompact /\ UNCHANGED clientVars
Compacting == CompactStep /\ UNCHANGED clientVars
Checking(p)   == CommitCheck(p) /\ UNCHANGED clientVars
Committing(p) == CommitStep(p) /\ UNCHANGED clientVars

DNext ==
  \/ Publish
  \/ Compaction
  \/ Compacting
  \/ \E p \in Proc : Checking(p) \/ Committing(p)
  \/ \E c \in Consumer :
       \/ PollOffset(c) \/ PollRead(c) \/ PollRespond(c) \/ PollLost(c)
       \/ AckLost(c) \/ AckDone(c)
       \/ \E p \in Proc : Ack(c, p)

DSpec == DInit /\ [][DNext]_allVars

\* Goroutines run; a reader that waits for the mutex gets it after the writer,
\* as sync.RWMutex lets waiting readers in on Unlock; a collector keeps polling
\* (collector.go:49), and is not stopped for ever; and neither responses nor
\* acks are lost for ever.
DFairness ==
  /\ \A p \in Proc : SF_allVars(Checking(p) \/ Committing(p))
  /\ WF_allVars(Compacting)
  /\ \A c \in Consumer :
       /\ SF_allVars(PollOffset(c) \/ PollRead(c))
       /\ SF_allVars(PollRespond(c))
       /\ SF_allVars(AckDone(c) \/ \E p \in Proc : Ack(c, p))

DFairSpec == DSpec /\ DFairness

-----------------------------------------------------------------------------
(* Properties.                                                             *)

PollState ==
  {NoPoll}
    \cup [pc : {"read"}, start : Nat]
    \cup [pc : {"respond"}, msgs : Seq(Nat)]
    \cup [pc : {"got"}, next : Nat]
    \cup [pc : {"acking"}, via : Proc]

DTypeOK ==
  /\ TypeOK
  /\ poll \in [Consumer -> PollState]
  /\ delivered \in [Group -> SUBSET Nat]
  /\ polled \subseteq Group

\* The position of g in the history of the partition.  While Compact is at
\* work the counters change one by one and the position is the one it found.
Position(g) == IF Unlocked THEN removed + Offset(g) ELSE start[g]

\* "Reliability: At-least-once delivery semantics via consumer group offset
\* management" (mq/README.md:26): every message that a group's committed offset
\* has passed was given to one of its collectors, so none is skipped.
NothingSkipped ==
  Unlocked => \A g \in Group :
    1..Lesser(removed + Offset(g), appended) \subseteq delivered[g]

\* "messages are only deleted once ALL consumer groups have consumed them"
\* (partition.go:228), for the groups that poll.
DeletedWereConsumed ==
  \A g \in polled : 1..removed \subseteq delivered[g]

\* A collector that polls alone for its group is the only one to move its
\* offset, so what it is told to acknowledge is what it was given.
AckMatchesBatch ==
  \A c \in Consumer : poll[c].pc = "got" =>
    1..(removed + poll[c].next) \subseteq delivered[GroupOf[c]]

\* The broker gives each group its messages at least once and in order.
Promise == INSTANCE AtLeastOnce
             WITH published <- appended,
                  position <- [g \in Group |-> Position(g)]
AtLeastOnceSpec == Promise!Spec

\* A collector is never left waiting: each poll and each acknowledgement comes
\* to an end, although requests queue behind compactions that may run at any
\* time and other collectors may have moved the offset that it acknowledges.
PollsReturn == \A c \in Consumer : poll[c] # NoPoll ~> poll[c] = NoPoll

\* Every message that is published reaches every group that has a collector:
\* again and again, each group has been given all there is.
EveryMessageArrives ==
  []<>(\A c \in Consumer : 1..appended \subseteq delivered[GroupOf[c]])
=============================================================================
