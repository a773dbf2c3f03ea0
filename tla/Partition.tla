----------------------------- MODULE Partition -----------------------------
(***************************************************************************)
(* One partition of the broker: mq/internal/partition.go.                  *)
(*                                                                         *)
(* The partition is a slice of messages behind an RWMutex and a sync.Map   *)
(* from consumer group to a pointer to an atomic counter.  Append, the     *)
(* reads and the bounds check of Commit take the mutex for one             *)
(* indivisible section, so each is one action.  Commit goes on without the *)
(* mutex, and Compact holds it over many sync.Map and atomic operations    *)
(* that commits interleave with: both are split into one action per        *)
(* operation on shared memory.                                             *)
(*                                                                         *)
(* A message is the number of its Append.  Payloads, keys and log lines    *)
(* are left out, and so is the empty group name, which Commit refuses      *)
(* before it touches anything (Group holds the non-empty names).           *)
(***************************************************************************)
EXTENDS Integers, Sequences, FiniteSets

CONSTANTS
  Group,        \* consumer group names
  Proc,         \* goroutines that call Commit
  AckOffset,    \* offsets that clients pass to Commit
  MaxMessage,   \* capacity of the partition, <= 0 means unlimited
  MaxAppends    \* bound of the model: successful appends

ASSUME PartitionAssumption ==
  /\ AckOffset \subseteq Int
  /\ MaxMessage \in Int
  /\ MaxAppends \in Nat

VARIABLES
  messages,     \* the slice: what is retained, oldest first
  offsets,      \* the sync.Map: group -> number of its counter, 0 if absent
  counter,      \* the heap of atomic.Int64: counter[k] is the k-th allocated
  commit,       \* the Commit call each goroutine is in
  cpc,          \* where Compact is; it holds the write lock unless "idle"
  todo,         \* groups in the map when the current Range began
  seen,         \* groups the current Range has visited
  cell,         \* counter handed to the callback of the current Range
  minOffset,    \* Compact's minOffset
  oldOffset,    \* Compact's oldOffset, in the second Range
  appended,     \* history: number of successful appends
  removed,      \* history: sum of the counts Compact has returned
  start,        \* history: position of each group when Compact took the lock
  dirty         \* history: groups that committed since Compact took the lock

logVars     == <<messages, appended, removed>>
offsetVars  == <<offsets, counter>>
rangeVars   == <<cpc, todo, seen, cell, minOffset, oldOffset>>
historyVars == <<start, dirty>>
vars == <<logVars, offsetVars, commit, rangeVars, historyVars>>

Idle    == [pc |-> "idle"]
Unknown == -1            \* start of a group that was not in the map

-----------------------------------------------------------------------------
(* Reads.                                                                  *)

TailOffset    == Len(messages)
Registered    == {g \in Group : offsets[g] # 0}
Lesser(a, b)  == IF a < b THEN a ELSE b
Greater(a, b) == IF a < b THEN b ELSE a

\* (mutant: a group that is not in the map is given an invalid offset)
OffsetOrInvalid(g) == IF offsets[g] # 0 THEN counter[offsets[g]] ELSE -1
Offset(g)     == IF offsets[g] # 0 THEN counter[offsets[g]] ELSE 0

\* The bounds that Commit and ReadFrom demand of an offset.
\* (mutant: the tail is not tested)
NotNegative(offset) == 0 <= offset
InRange(offset) == 0 <= offset /\ offset <= TailOffset

\* What ReadFrom(offset, max) returns for an offset in range.
\* (mutant: the first message is skipped)
ReadAfter(offset, max) ==
  SubSeq(messages, offset + 2,
         IF max > 0 THEN Lesser(offset + max, TailOffset) ELSE TailOffset)
ReadFrom(offset, max) ==
  SubSeq(messages, offset + 1,
         IF max > 0 THEN Lesser(offset + max, TailOffset) ELSE TailOffset)

\* The mutex can be taken: every other critical section is a single action.
Unlocked == cpc = "idle"

-----------------------------------------------------------------------------
Init ==
  /\ messages = <<>>
  /\ offsets = [g \in Group |-> 0]
  /\ counter = <<>>
  /\ commit = [p \in Proc |-> Idle]
  /\ cpc = "idle" /\ todo = {} /\ seen = {}
  /\ cell = 0 /\ minOffset = -1 /\ oldOffset = 0
  /\ appended = 0 /\ removed = 0
  /\ start = [g \in Group |-> Unknown] /\ dirty = {}

\* A full partition refuses the message (ErrPartitionFull) and nothing changes.
AppendMessage ==
  /\ Unlocked
  /\ appended < MaxAppends
  /\ MaxMessage > 0 => Len(messages) < MaxMessage
  /\ messages' = Append(messages, appended + 1)
  /\ appended' = appended + 1
  /\ UNCHANGED <<removed, offsetVars, commit, rangeVars, historyVars>>

-----------------------------------------------------------------------------
(* Commit(consumer, offset) by goroutine p.                                *)

CommitCall(p, g, off) ==
  /\ commit[p] = Idle
  /\ commit' = [commit EXCEPT ![p] = [pc |-> "check", group |-> g, offset |-> off]]
  /\ UNCHANGED <<logVars, offsetVars, rangeVars, historyVars>>

\* (mutant: an offset beyond the tail waits for the tail instead of being refused)
CommitAwait(p) ==
  /\ commit[p].pc = "check"
  /\ Unlocked
  /\ InRange(commit[p].offset)
  /\ commit' = [commit EXCEPT ![p].pc = "load"]
  /\ UNCHANGED <<logVars, offsetVars, rangeVars, historyVars>>

\* The bounds check reads the tail under the read lock and releases it; an
\* offset out of bounds is refused (ErrCommitTooLarge).
CommitCheck(p) ==
  /\ commit[p].pc = "check"
  /\ Unlocked
  /\ commit' = [commit EXCEPT ![p] =
                  IF InRange(@.offset) THEN [@ EXCEPT !.pc = "load"] ELSE Idle]
  /\ UNCHANGED <<logVars, offsetVars, rangeVars, historyVars>>

CommitLoad(p) ==
  /\ commit[p].pc = "load"
  /\ LET c == commit[p]
         k == offsets[c.group]
     IN  commit' = [commit EXCEPT ![p] =
           IF k # 0
           THEN [pc |-> "store", group |-> c.group, offset |-> c.offset, cell |-> k]
           ELSE [pc |-> "register", group |-> c.group, offset |-> c.offset]]
  /\ UNCHANGED <<logVars, offsetVars, rangeVars, historyVars>>

\* History: g has moved while Compact is at work.
Touch(g) == dirty' = IF Unlocked THEN dirty ELSE dirty \cup {g}

\* The store goes to the counter loaded before, in the map or not any more.
CommitStore(p) ==
  /\ commit[p].pc = "store"
  /\ counter' = [counter EXCEPT ![commit[p].cell] = commit[p].offset]
  /\ commit' = [commit EXCEPT ![p] = Idle]
  /\ Touch(commit[p].group)
  /\ UNCHANGED <<logVars, offsets, rangeVars, start>>

\* A new counter replaces whatever the map holds by now.
CommitRegister(p) ==
  /\ commit[p].pc = "register"
  /\ counter' = Append(counter, commit[p].offset)
  /\ offsets' = [offsets EXCEPT ![commit[p].group] = Len(counter) + 1]
  /\ commit' = [commit EXCEPT ![p] = Idle]
  /\ Touch(commit[p].group)
  /\ UNCHANGED <<logVars, rangeVars, start>>

-----------------------------------------------------------------------------
(* Compact(), under the write lock from CompactLock to CompactNothing or   *)
(* CompactUnlock.  A Range visits in any order every group that is in the  *)
(* map when it begins, and perhaps groups that join the map meanwhile.     *)

BeginRange ==
  /\ todo' = Registered
  /\ seen' = {}

\* (mutant: an early return that leaves the mutex locked)
ReleaseForgotten ==
  /\ todo' = {} /\ seen' = {}
  /\ cell' = 0 /\ minOffset' = -1 /\ oldOffset' = 0
  /\ UNCHANGED <<cpc, start, dirty>>
Release ==
  /\ cpc' = "idle" /\ todo' = {} /\ seen' = {}
  /\ cell' = 0 /\ minOffset' = -1 /\ oldOffset' = 0
  /\ start' = [g \in Group |-> Unknown] /\ dirty' = {}

\* An empty partition is left as it is.
CompactLock ==
  /\ Unlocked
  /\ messages # <<>>
  /\ cpc' = "scan"
  /\ BeginRange
  /\ start' = [g \in Group |-> IF g \in Registered THEN removed + Offset(g) ELSE Unknown]
  /\ UNCHANGED <<logVars, offsetVars, commit, cell, minOffset, oldOffset, dirty>>

CompactVisit(g) ==
  /\ cpc \in {"scan", "shift"}
  /\ g \in Registered \ seen
  /\ cell' = offsets[g]
  /\ seen' = seen \cup {g}
  /\ cpc' = IF cpc = "scan" THEN "scanLoad" ELSE "shiftLoad"
  /\ UNCHANGED <<logVars, offsetVars, commit, todo, minOffset, oldOffset, historyVars>>

\* (mutant: the comparison is reversed)
HigherBound(min, offset) == IF min = -1 \/ offset > min THEN offset ELSE min
LowerBound(min, offset)  == IF min = -1 \/ offset < min THEN offset ELSE min

CompactScanLoad ==
  /\ cpc = "scanLoad"
  /\ minOffset' = LowerBound(minOffset, counter[cell])
  /\ cell' = 0
  /\ cpc' = "scan"
  /\ UNCHANGED <<logVars, offsetVars, commit, todo, seen, oldOffset, historyVars>>

\* No group in the map, or one that has committed nothing.
CompactNothing ==
  /\ cpc = "scan" /\ todo \subseteq seen
  /\ minOffset <= 0
  /\ Release
  /\ UNCHANGED <<logVars, offsetVars, commit>>

\* The watermark is clipped to the messages there are before the slice is cut.
\* (mutants: it is not; one message too many is kept)
Unclipped(n)     == n
Clip(n)          == Lesser(n, Len(messages))
KeptInclusive(n) == SubSeq(messages, n, Len(messages))
Kept(n)          == SubSeq(messages, n + 1, Len(messages))

CompactCut ==
  /\ cpc = "scan" /\ todo \subseteq seen
  /\ minOffset > 0
  /\ minOffset' = Clip(minOffset)
  /\ messages' = Kept(minOffset')
  /\ removed' = removed + minOffset'
  /\ cpc' = "shift"
  /\ BeginRange
  /\ UNCHANGED <<appended, offsetVars, commit, cell, oldOffset, historyVars>>

CompactShiftLoad ==
  /\ cpc = "shiftLoad"
  /\ oldOffset' = counter[cell]
  /\ cpc' = "shiftStore"
  /\ UNCHANGED <<logVars, offsetVars, commit, todo, seen, cell, minOffset, historyVars>>

\* A commit or a new group may have put an offset below the watermark meanwhile.
\* (mutants: offsets stay as they were; they may become negative)
Unshifted(old, min)    == old
ShiftedBelow(old, min) == old - min
Shifted(old, min)      == Greater(old - min, 0)

CompactShiftStore ==
  /\ cpc = "shiftStore"
  /\ counter' = [counter EXCEPT ![cell] = Shifted(oldOffset, minOffset)]
  /\ cell' = 0 /\ oldOffset' = 0
  /\ cpc' = "shift"
  /\ UNCHANGED <<logVars, offsets, commit, todo, seen, minOffset, historyVars>>

CompactUnlock ==
  /\ cpc = "shift" /\ todo \subseteq seen
  /\ Release
  /\ UNCHANGED <<logVars, offsetVars, commit>>

-----------------------------------------------------------------------------
CommitStep(p) == CommitLoad(p) \/ CommitStore(p) \/ CommitRegister(p)

CompactStep ==
  \/ \E g \in Group : CompactVisit(g)
  \/ CompactScanLoad
  \/ CompactNothing
  \/ CompactCut
  \/ CompactShiftLoad
  \/ CompactShiftStore
  \/ CompactUnlock

Next ==
  \/ AppendMessage
  \/ \E p \in Proc, g \in Group, off \in AckOffset : CommitCall(p, g, off)
  \/ \E p \in Proc : CommitCheck(p) \/ CommitStep(p)
  \/ CompactLock
  \/ CompactStep

Spec == Init /\ [][Next]_vars

-----------------------------------------------------------------------------
(* Properties.                                                             *)

CommitState ==
  {Idle}
    \cup [pc : {"check"}, group : Group, offset : Int]
    \cup [pc : {"load", "register"}, group : Group, offset : Nat]
    \cup [pc : {"store"}, group : Group, offset : Nat, cell : DOMAIN counter]

Shifting == cpc \in {"shift", "shiftLoad", "shiftStore"}

\* Types, and the ranges that the code relies on without testing them: no
\* counter is ever negative, the map and the callbacks point to counters that
\* exist, and in its second Range Compact has something to subtract.
TypeOK ==
  /\ messages \in Seq(Nat)
  /\ appended \in Nat /\ removed \in Nat
  /\ counter \in Seq(Nat)
  /\ offsets \in [Group -> {0} \cup DOMAIN counter]
  /\ commit \in [Proc -> CommitState]
  /\ cpc \in {"idle", "scan", "scanLoad", "shift", "shiftLoad", "shiftStore"}
  /\ todo \subseteq Registered /\ seen \subseteq Registered
  /\ cell \in {0} \cup DOMAIN counter
  /\ cpc \in {"scanLoad", "shiftLoad", "shiftStore"} => cell # 0
  /\ minOffset \in Nat \cup {-1} /\ oldOffset \in Nat
  /\ Shifting => minOffset > 0
  /\ start \in [Group -> Nat \cup {Unknown}]
  /\ dirty \subseteq Group

\* The slice holds every appended message that Compact has not counted as
\* removed, in order and once: Append and Compact's re-slicing lose nothing,
\* whatever the offsets were when the watermark was taken (partition.go:257
\* clips a watermark that lies beyond the tail).
LogIntegrity ==
  /\ removed + Len(messages) = appended
  /\ \A i \in DOMAIN messages : messages[i] = removed + i

\* Compact removes nothing that a group still had to read when Compact took
\* the lock (partition.go:226-229), for each group that was in the map then
\* and has not committed since.
WatermarkRespected ==
  Shifting => \A g \in Group \ dirty : start[g] # Unknown => removed <= start[g]

\* Compact moves no group: when it returns, each group that did not commit
\* meanwhile reads on from the message it would have read before, although
\* offsets count from the first retained message and each counter is adjusted
\* by a separate load and store (partition.go:274-283).
PositionKept ==
  [][ cpc # "idle" /\ cpc' = "idle" =>
        \A g \in Group \ dirty : start[g] # Unknown => removed + Offset(g) = start[g] ]_vars

\* "The committed offset must be between 0 and TailOffset()" (partition.go:151):
\* no group's offset lies beyond the log, so none is refused its next read.
CommittedInRange ==
  Unlocked => \A g \in Group : 0 <= Offset(g) /\ Offset(g) <= TailOffset

\* Compact always returns and so gives the write lock back, whichever of its
\* returns it takes (partition.go:230-289) and however many groups register
\* while it ranges over the map.
CompactReturns == cpc # "idle" ~> cpc = "idle"

\* The partition is a log that is appended to at its tail and trimmed at its head.
Retained     == INSTANCE RetainedLog WITH log <- messages, first <- removed
RetainedSpec == Retained!Spec
=============================================================================
