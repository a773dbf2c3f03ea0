----------------------------- MODULE Compactor -----------------------------
(***************************************************************************)
(* The compaction scheduler: mq/internal/compactor.go, with what it uses   *)
(* of mq/internal/queue.go (ListTopics, GetPartitionStats, CompactTopic).  *)
(*                                                                         *)
(* One goroutine, the owner, calls Start, Stop and UpdateConfig one after  *)
(* the other, as the server's main and the tests do.  Each Start may leave *)
(* a loop goroutine behind, which waits for a tick or for the done channel *)
(* and compacts.  UpdateConfig replaces the channel and the sync.Once      *)
(* without the mutex, in two steps of its own, and a loop reads the        *)
(* channel afresh each time it comes to wait.                              *)
(*                                                                         *)
(* A partition is its length and its watermark, the lowest committed       *)
(* offset: module Partition says how Compact gets from one to the other.   *)
(* A commit is checked against the length in one step and stored in        *)
(* another, with no lock between them.                                     *)
(* A ticker may tick at any time; intervals are positive.                  *)
(***************************************************************************)
EXTENDS Integers, FiniteSets

CONSTANTS
  Topic,        \* topic names
  Partitions,   \* number of partitions of each topic
  Threshold,    \* values of ThresholdMessages
  Call,         \* which of "Stop", "UpdateConfig" the owner calls besides Start
  Loop,         \* bound of the model: loops that exist at a time
  MaxChannels,  \* bound of the model: done channels made
  MaxLength,    \* bound of the model: messages of each partition of a topic
  MaxCommits    \* bound of the model: commits between their check and their store

ASSUME CompactorAssumption ==
  /\ Partitions \in Nat \ {0}
  /\ Threshold \subseteq Nat
  /\ Call \subseteq {"Stop", "UpdateConfig"}
  /\ MaxChannels \in Nat /\ MaxCommits \in Nat
  /\ MaxLength \in [1..Partitions -> Nat]

VARIABLES
  running, config,  \* fields of the Compactor, guarded by its mutex
  done,             \* number of the channel that field done holds
  closed,           \* channels that have been closed
  once,             \* whether stopOnce has been used
  owner,            \* what the owner is doing
  loop,             \* what each loop goroutine is doing
  topics,           \* topics that exist
  length, low,      \* length and watermark of each partition
  commits           \* offsets that are checked and not yet stored

schedulerVars == <<running, config, done, closed, once, owner>>
logVars == <<topics, length, low, commits>>
vars    == <<schedulerVars, loop, logVars>>

Config == [enabled : BOOLEAN, threshold : Threshold]
Part   == Topic \X (1..Partitions)
NoCall == [pc |-> "idle"]
NoLoop == [pc |-> "none"]
AtTop  == [pc |-> "top"]

Init ==
  /\ running = FALSE
  /\ config \in Config
  /\ done = 1 /\ closed = {} /\ once = FALSE
  /\ owner = NoCall
  /\ loop = [l \in Loop |-> NoLoop]
  /\ topics = {}
  /\ length = [q \in Part |-> 0]
  /\ low = [q \in Part |-> 0]
  /\ commits = {}

-----------------------------------------------------------------------------
(* The owner.                                                              *)

\* The body of Start, under the mutex.
Launch ==
  IF running \/ ~ config.enabled
  THEN UNCHANGED <<running, loop>>
  ELSE \E l \in Loop :
         /\ loop[l] = NoLoop
         /\ loop' = [loop EXCEPT ![l] = AtTop]
         /\ running' = TRUE

Start ==
  /\ owner = NoCall
  /\ Launch
  /\ UNCHANGED <<config, done, closed, once, owner, logVars>>

\* stopOnce.Do(func() { close(c.done) })
CloseDone ==
  /\ closed' = IF once THEN closed ELSE closed \cup {done}
  /\ once' = TRUE

\* Stop drops the mutex between its two halves; it does nothing if nothing runs.
StopMark ==
  /\ owner = NoCall /\ "Stop" \in Call
  /\ running
  /\ running' = FALSE
  /\ owner' = [pc |-> "stopClose"]
  /\ UNCHANGED <<config, done, closed, once, loop, logVars>>

\* (mutant: the channel is not closed)
StopUnclosed ==
  /\ owner.pc = "stopClose"
  /\ owner' = NoCall
  /\ UNCHANGED <<running, config, done, closed, once, loop, logVars>>
StopClose ==
  /\ owner.pc = "stopClose"
  /\ CloseDone
  /\ owner' = NoCall
  /\ UNCHANGED <<running, config, done, loop, logVars>>

UpdateMark ==
  /\ owner = NoCall /\ "UpdateConfig" \in Call
  /\ done < MaxChannels
  /\ config' \in Config
  /\ running' = FALSE
  /\ owner' = [pc |-> "updateClose", wasRunning |-> running]
  /\ UNCHANGED <<done, closed, once, loop, logVars>>

\* (mutant: the loops of the old configuration are not told)
UpdateUnclosed ==
  /\ owner.pc = "updateClose"
  /\ owner' = IF config.enabled THEN [pc |-> "updateDone"] ELSE NoCall
  /\ UNCHANGED <<running, config, done, closed, once, loop, logVars>>
UpdateClose ==
  /\ owner.pc = "updateClose"
  /\ IF owner.wasRunning THEN CloseDone ELSE UNCHANGED <<closed, once>>
  /\ owner' = IF config.enabled THEN [pc |-> "updateDone"] ELSE NoCall
  /\ UNCHANGED <<running, config, done, loop, logVars>>

\* (mutant: the channel is kept)
UpdateKeepsDone ==
  /\ owner.pc = "updateDone"
  /\ owner' = [pc |-> "updateOnce"]
  /\ UNCHANGED <<running, config, done, closed, once, loop, logVars>>
UpdateDone ==
  /\ owner.pc = "updateDone"
  /\ done' = done + 1
  /\ owner' = [pc |-> "updateOnce"]
  /\ UNCHANGED <<running, config, closed, once, loop, logVars>>

UpdateOnce ==
  /\ owner.pc = "updateOnce"
  /\ once' = FALSE
  /\ owner' = [pc |-> "updateStart"]
  /\ UNCHANGED <<running, config, done, closed, loop, logVars>>

UpdateStart ==
  /\ owner.pc = "updateStart"
  /\ Launch
  /\ owner' = NoCall
  /\ UNCHANGED <<config, done, closed, once, logVars>>

-----------------------------------------------------------------------------
(* Loop goroutine l.                                                       *)

Becomes(l, s) ==
  /\ loop' = [loop EXCEPT ![l] = s]
  /\ UNCHANGED <<schedulerVars, topics, commits>>

\* The select evaluates c.done when the loop comes to it.
LoopWait(l) ==
  /\ loop[l].pc = "top"
  /\ Becomes(l, [pc |-> "select", chan |-> done])
  /\ UNCHANGED <<length, low>>

LoopExit(l) ==
  /\ loop[l].pc = "select"
  /\ loop[l].chan \in closed
  /\ Becomes(l, NoLoop)
  /\ UNCHANGED <<length, low>>

\* A tick, after which the loop may find the compactor stopped or disabled.
LoopTick(l) ==
  /\ loop[l].pc = "select"
  /\ Becomes(l, IF running /\ config.enabled THEN [pc |-> "list"] ELSE AtTop)
  /\ UNCHANGED <<length, low>>

\* checkAndCompact goes through the topics there are now, in any order.
LoopList(l) ==
  /\ loop[l].pc = "list"
  /\ Becomes(l, [pc |-> "next", todo |-> topics])
  /\ UNCHANGED <<length, low>>

LoopRoundOver(l) ==
  /\ loop[l].pc = "next"
  /\ loop[l].todo = {}
  /\ Becomes(l, AtTop)
  /\ UNCHANGED <<length, low>>

At(l, pc, i) == [loop[l] EXCEPT !.pc = pc, !.part = i]
Current(l)   == <<loop[l].topic, loop[l].part>>

\* checkTopicTriggers reads the threshold once for all partitions of a topic.
LoopTopic(l) ==
  /\ loop[l].pc = "next"
  /\ \E t \in loop[l].todo :
       Becomes(l, [pc |-> "length", todo |-> loop[l].todo \ {t}, topic |-> t,
                   part |-> 1, threshold |-> config.threshold])
  /\ UNCHANGED <<length, low>>

\* GetPartitionStats takes the length and the watermark at different times.
LoopLength(l) ==
  /\ loop[l].pc = "length"
  /\ LET max == loop[l].threshold
     IN  IF max > 0 /\ length[Current(l)] > max
         THEN Becomes(l, At(l, "compact", 1))
         ELSE Becomes(l, At(l, "watermark", loop[l].part))
  /\ UNCHANGED <<length, low>>

\* On to the next partition of the topic, or to the next topic.
NextPart(l) ==
  IF loop[l].part < Partitions
  THEN Becomes(l, [loop[l] EXCEPT !.part = @ + 1,
                                  !.pc = IF @ = "watermark" THEN "length" ELSE @])
  ELSE Becomes(l, [pc |-> "next", todo |-> loop[l].todo])

\* (mutant: the whole threshold is demanded, and not half of it)
DueAtThreshold(count, max) == count > max
Due(count, max)            == count > max \div 2

LoopWatermark(l) ==
  /\ loop[l].pc = "watermark"
  /\ IF Due(low[Current(l)], loop[l].threshold)
     THEN Becomes(l, At(l, "compact", 1))
     ELSE NextPart(l)
  /\ UNCHANGED <<length, low>>

\* CompactTopic compacts every partition of the topic, whichever triggered it.
\* The watermark may lie beyond the messages: then all of them go, and what is
\* left of it stays.
\* (mutant: the watermark is not clipped to the messages there are)
Lesser(a, b) == IF a < b THEN a ELSE b

TrimUnclipped(q) ==
  /\ length' = [length EXCEPT ![q] = @ - low[q]]
  /\ low' = [low EXCEPT ![q] = 0]
Trim(q) ==
  LET cut == Lesser(low[q], length[q])
  IN  /\ length' = [length EXCEPT ![q] = @ - cut]
      /\ low' = [low EXCEPT ![q] = @ - cut]

LoopCompact(l) ==
  /\ loop[l].pc = "compact"
  /\ Trim(Current(l))
  /\ NextPart(l)

LoopStep(l) ==
  \/ LoopWait(l) \/ LoopExit(l) \/ LoopTick(l) \/ LoopList(l) \/ LoopRoundOver(l)
  \/ LoopTopic(l) \/ LoopLength(l) \/ LoopWatermark(l) \/ LoopCompact(l)

-----------------------------------------------------------------------------
(* The clients of the queue.                                               *)

CreateTopic ==
  /\ \E t \in Topic \ topics : topics' = topics \cup {t}
  /\ UNCHANGED <<schedulerVars, loop, length, low, commits>>

Publish ==
  /\ \E q \in Part :
       /\ q[1] \in topics
       /\ length[q] < MaxLength[q[2]]
       /\ length' = [length EXCEPT ![q] = @ + 1]
  /\ UNCHANGED <<schedulerVars, loop, topics, low, commits>>

\* The offset is no greater than the length that the commit reads.
CommitCheck ==
  /\ Cardinality(commits) < MaxCommits
  /\ \E q \in Part : \E n \in 0..length[q] :
       /\ q[1] \in topics
       /\ commits' = commits \cup {<<q, n>>}
  /\ UNCHANGED <<schedulerVars, loop, topics, length, low>>

\* A commit, or the first commit of a new group, moves the watermark either way,
\* whatever became of the partition since the check.
CommitStore ==
  /\ \E c \in commits :
       /\ low' = [low EXCEPT ![c[1]] = c[2]]
       /\ commits' = commits \ {c}
  /\ UNCHANGED <<schedulerVars, loop, topics, length>>

-----------------------------------------------------------------------------
OwnerStep ==
  \/ StopClose
  \/ UpdateClose \/ UpdateDone \/ UpdateOnce \/ UpdateStart

Next ==
  \/ Start \/ StopMark \/ UpdateMark \/ OwnerStep
  \/ \E l \in Loop : LoopStep(l)
  \/ CreateTopic \/ Publish \/ CommitCheck \/ CommitStore

Spec == Init /\ [][Next]_vars

\* Tickers tick and goroutines run; a select whose two channels are ready does
\* not take the tick for ever.
Fairness ==
  /\ WF_vars(OwnerStep)
  /\ \A l \in Loop : WF_vars(LoopStep(l)) /\ SF_vars(LoopExit(l))

FairSpec == Spec /\ Fairness

-----------------------------------------------------------------------------
(* Properties.                                                             *)

LoopState ==
  {NoLoop, AtTop, [pc |-> "list"]}
    \cup [pc : {"select"}, chan : 1..done]
    \cup [pc : {"next"}, todo : SUBSET topics]
    \cup [pc : {"length", "watermark", "compact"}, todo : SUBSET topics, topic : topics,
          part : 1..Partitions, threshold : Threshold]

\* Types; compaction takes no more messages than a partition has, though a commit
\* that was checked before another compaction may have left its watermark beyond
\* the last of them (partition.go:162-190, 256-259).
TypeOK ==
  /\ running \in BOOLEAN /\ once \in BOOLEAN
  /\ config \in Config
  /\ done \in Nat \ {0} /\ closed \subseteq 1..done
  /\ owner \in [pc : {"idle", "stopClose", "updateDone", "updateOnce", "updateStart"}]
               \cup [pc : {"updateClose"}, wasRunning : BOOLEAN]
  /\ topics \subseteq Topic
  /\ loop \in [Loop -> LoopState]
  /\ length \in [Part -> Nat]
  /\ low \in [Part -> Nat]
  /\ commits \subseteq Part \X Nat

\* No channel is closed twice, which would end the server with a panic: the
\* sync.Once that Stop and UpdateConfig share is only fresh when the channel
\* is (compactor.go:86-90, 109-118).
CloseOnce ==
  owner.pc \in {"stopClose", "updateClose"} /\ ~ once => done \notin closed

\* A loop that waits will hear: it waits for the channel of now, which the next
\* Stop or UpdateConfig closes, or for one that is closed; and once nothing is to
\* run, whatever loops are left find the channel of now closed when they come to
\* wait.  No order of Start, Stop and UpdateConfig leaves a loop behind a channel
\* that nobody can close any more (compactor.go:107-119).
Quiet == done \in closed \/ \A l \in Loop : loop[l] = NoLoop

EveryLoopHears ==
  /\ \A l \in Loop : loop[l].pc = "select" => loop[l].chan \in closed \cup {done}
  /\ owner = NoCall /\ ~ running => Quiet

\* "Stop gracefully stops the background compaction routine" (compactor.go:76):
\* every loop that was ever started ends once nothing is to run, those that
\* were compacting when the channel was closed or replaced included.
StopStops ==
  owner = NoCall /\ ~ running ~> running \/ owner # NoCall \/ \A l \in Loop : loop[l] = NoLoop

\* "Prevents unbounded memory growth" (mq/README.md:43): while the compactor
\* runs and is left alone, a partition with more than half the threshold to
\* free is compacted, whatever happened before: loops of earlier configurations,
\* and rounds begun under them.  (A Start that follows Stop is excepted, see
\* RunningHasLoop: it leaves no loop, and its channel is closed.)
LeftAlone == running /\ owner = NoCall /\ done \notin closed

Freeable(q) == Lesser(low[q], length[q])

DueIsCompacted ==
  \A q \in Part :
    LeftAlone /\ Freeable(q) > config.threshold \div 2
      ~> ~ LeftAlone \/ Freeable(q) <= config.threshold \div 2

\* "Start begins the background compaction routine. Safe to call multiple
\* times." (compactor.go:57): between calls, a compactor that says it is
\* running has a loop.
RunningHasLoop == running /\ owner = NoCall => \E l \in Loop : loop[l] # NoLoop
=============================================================================
