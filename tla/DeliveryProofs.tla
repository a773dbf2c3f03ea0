--------------------------- MODULE DeliveryProofs ---------------------------
(***************************************************************************)
(* Theorems about module Delivery: when each group has one collector that  *)
(* waits for the answer to its acknowledgement, and compaction is off or   *)
(* done while the collectors are stopped, the broker keeps its promise,    *)
(* for any number of groups, messages, batch sizes and server goroutines.  *)
(***************************************************************************)
EXTENDS Delivery, PartitionProofs

\* The deployments these theorems are about.
Solo ==
  /\ CompactWhen # "anytime"
  /\ \A c, d \in Consumer : GroupOf[c] = GroupOf[d] => c = d

\* Each Commit that is running belongs to one collector, which waits for it;
\* Compact runs alone, when every group is in the map.
ServerInv ==
  /\ \A p \in Proc : commit[p] # Idle =>
       \E c \in Consumer : Acking(c, p) /\ commit[p].group = GroupOf[c]
  /\ \A p \in Proc, c, d \in Consumer : Acking(c, p) /\ Acking(d, p) => c = d
  /\ CompactWhen = "never" => Unlocked
  /\ dirty = {}
  /\ ~ Unlocked => Quiet /\ \A g \in Group : start[g] # Unknown

\* Offset off of group g is not behind its position, and all that it passes
\* over has been delivered.
Earned(g, off) ==
  /\ off \in Nat
  /\ Position(g) <= removed + off /\ removed + off <= appended
  /\ 1..(removed + off) \subseteq delivered[g]

\* Collector c may be in state s: what it holds is what follows the position of
\* its group, and what it acknowledges, or the server commits for it, is earned.
PollOK(c, s) ==
  /\ s # NoPoll => Unlocked
  /\ s.pc = "read" => s.start = Offset(GroupOf[c])
  /\ s.pc = "respond" =>
       /\ removed + Offset(GroupOf[c]) + Len(s.msgs) <= appended
       /\ \A i \in DOMAIN s.msgs : s.msgs[i] = removed + Offset(GroupOf[c]) + i
  /\ s.pc = "got" => Earned(GroupOf[c], s.next)
  /\ s.pc = "acking" /\ commit[s.via] # Idle => Earned(GroupOf[c], commit[s.via].offset)

\* The same in the next state, for a state s of this one.
EarnedNext(g, off) ==
  /\ off \in Nat
  /\ Position(g)' <= removed' + off /\ removed' + off <= appended'
  /\ 1..(removed' + off) \subseteq delivered'[g]
PollOKNext(c, s) ==
  /\ s # NoPoll => Unlocked'
  /\ s.pc = "read" => s.start = Offset(GroupOf[c])'
  /\ s.pc = "respond" =>
       /\ removed' + Offset(GroupOf[c])' + Len(s.msgs) <= appended'
       /\ \A i \in DOMAIN s.msgs : s.msgs[i] = removed' + Offset(GroupOf[c])' + i
  /\ s.pc = "got" => EarnedNext(GroupOf[c], s.next)
  /\ s.pc = "acking" /\ commit'[s.via] # Idle => EarnedNext(GroupOf[c], commit'[s.via].offset)

PollInv == \A c \in Consumer : PollOK(c, poll[c])

GroupInv ==
  \A g \in Group : Position(g) <= appended /\ 1..Position(g) \subseteq delivered[g]

\* A Commit stores to the counter that the map holds for its group: no other
\* Commit of the group can have replaced it.
Linked == \A p \in Proc : commit[p].pc = "store" => commit[p].cell = offsets[commit[p].group]

PartitionInv == TypeInv /\ LogIntegrity /\ Owned /\ TrackInv

DeliveryInv == DTypeOK /\ ServerInv /\ PollInv /\ GroupInv

DInv == PartitionInv /\ Linked /\ DeliveryInv

-----------------------------------------------------------------------------
(* Steps of Delivery are steps of the partition.                           *)

\* What DTypeOK says of a collector, by control state.
LEMMA PollShape ==
  ASSUME DTypeOK, NEW c \in Consumer
  PROVE  /\ poll[c].pc \in {"idle", "read", "respond", "got", "acking"}
         /\ poll[c] = NoPoll <=> poll[c].pc = "idle"
         /\ poll[c].pc = "read" => poll[c].start \in Nat
         /\ poll[c].pc = "respond" => poll[c].msgs \in Seq(Nat)
         /\ poll[c].pc = "got" => poll[c].next \in Nat
         /\ poll[c].pc = "acking" => poll[c].via \in Proc /\ Acking(c, poll[c].via)
         /\ GroupOf[c] \in Group
BY DeliveryAssumption DEF DTypeOK, PollState, NoPoll, Acking

LEMMA DNextIsAnyNext ==
  ASSUME DTypeOK, [DNext]_allVars
  PROVE  [AnyNext]_vars
<1>1. ASSUME NEW c \in Consumer, NEW p \in Proc, Ack(c, p) PROVE AnyNext
  <2>1. poll[c].next \in Int /\ GroupOf[c] \in Group
    BY <1>1, PollShape DEF Ack
  <2> QED BY <1>1, <2>1 DEF Ack, AnyNext
<1> QED BY <1>1 DEF DNext, AnyNext, allVars, Publish, Compaction, Compacting, Checking, Committing,
     PollOffset, PollRead, PollRespond, PollLost, AckLost, AckDone

LEMMA CompactStepShape ==
  ASSUME CompactStep
  PROVE  /\ ~ Unlocked
         /\ UNCHANGED <<commit, appended>>
         /\ dirty' = dirty \/ dirty' = {}
         /\ ~ Unlocked' => start' = start
         /\ Unlocked' => UNCHANGED <<removed, offsets, counter>>
BY DEF CompactStep, Unlocked, CompactVisit, CompactScanLoad, CompactNothing, CompactCut,
   CompactShiftLoad, CompactShiftStore, CompactUnlock, Release, logVars, offsetVars, historyVars

LEMMA PartitionInvInit == Init => PartitionInv
BY TypeInvInit, LogIntegrityInit, OwnedInit, TrackInvInit DEF PartitionInv

LEMMA PartitionInvStep == PartitionInv /\ [AnyNext]_vars => PartitionInv'
BY TypeInvStep, LogIntegrityStep, OwnedStep, TrackInvStep DEF PartitionInv

LEMMA OffsetIsNat == ASSUME TypeOK, NEW g \in Group PROVE Offset(g) \in Nat
BY LenProperties, ElementOfSeq DEF TypeOK, Offset

\* A batch holds the messages that follow the offset, in order.
LEMMA ReadFromIsNext ==
  ASSUME TypeInv, LogIntegrity, NEW o \in Nat, InRange(o)
  PROVE  /\ ReadFrom(o, Batch) \in Seq(Nat)
         /\ removed + o + Len(ReadFrom(o, Batch)) <= appended
         /\ \A i \in DOMAIN ReadFrom(o, Batch) : ReadFrom(o, Batch)[i] = removed + o + i
<1> DEFINE last == Lesser(o + Batch, Len(messages))
           r    == SubSeq(messages, o + 1, last)
<1>1. /\ messages \in Seq(Nat) /\ Len(messages) \in Nat /\ DOMAIN messages = 1..Len(messages)
      /\ removed \in Nat /\ appended \in Nat /\ removed + Len(messages) = appended
  BY LenProperties DEF TypeInv, TypeOK, LogIntegrity
<1>2. ReadFrom(o, Batch) = r /\ Batch \in Nat \ {0}
  <2>1. Batch \in Nat \ {0}
    BY DeliveryAssumption
  <2>2. Batch > 0
    BY <2>1
  <2> QED BY <2>1, <2>2 DEF ReadFrom, TailOffset
<1>3. last \in Nat /\ o <= last /\ last <= Len(messages)
  <2>1. o <= Len(messages)
    BY DEF InRange, TailOffset
  <2> QED BY <1>1, <1>2, <2>1 DEF Lesser
<1> HIDE DEF last
<1>4. ASSUME NEW i \in Int, o + 1 <= i, i <= last PROVE messages[i] \in Nat /\ messages[i] = removed + i
  <2>1. i \in 1..Len(messages)
    BY <1>1, <1>3, <1>4
  <2> QED BY <1>1, <2>1, ElementOfSeq DEF LogIntegrity
<1>5. /\ r \in Seq(Nat)
      /\ Len(r) = IF o + 1 <= last THEN last - (o + 1) + 1 ELSE 0
      /\ \A i \in 1..(last - (o + 1) + 1) : r[i] = messages[o + 1 + i - 1]
  <2>1. \A i \in (o + 1)..last : messages[i] \in Nat
    BY <1>3, <1>4
  <2>2. o + 1 \in Int /\ last \in Int
    BY <1>3
  <2> QED BY <2>1, <2>2, SubSeqProperties
<1> HIDE DEF r
<1>6. Len(r) = last - o
  BY <1>3, <1>5
<1>7. DOMAIN r = 1..(last - o)
  BY <1>5, <1>6, LenProperties
<1>8. ASSUME NEW i \in 1..(last - o) PROVE r[i] = removed + o + i
  <2>1. /\ i \in 1..(last - (o + 1) + 1) /\ o + 1 + i - 1 = o + i
        /\ o + i \in Int /\ o + 1 <= o + i /\ o + i <= last
    BY <1>3
  <2>2. r[i] = messages[o + i]
    BY <1>5, <2>1
  <2>3. messages[o + i] = removed + (o + i)
    BY <1>4, <2>1
  <2> QED BY <1>1, <2>2, <2>3
<1>9. removed + o + Len(r) <= appended
  BY <1>1, <1>3, <1>6
<1> QED BY <1>2, <1>5, <1>7, <1>8, <1>9

LEMMA DTypeInit == DInit => PartitionInv /\ DTypeOK
<1> SUFFICES ASSUME DInit PROVE PartitionInv /\ DTypeOK
  OBVIOUS
<1>1. PartitionInv
  BY PartitionInvInit DEF DInit
<1> QED BY <1>1 DEF PartitionInv, TypeInv, DInit, DTypeOK, PollState, NoPoll

LEMMA DTypeStep ==
  PartitionInv /\ DTypeOK /\ [DNext]_allVars => PartitionInv' /\ DTypeOK'
<1> SUFFICES ASSUME PartitionInv, DTypeOK, [DNext]_allVars PROVE PartitionInv' /\ DTypeOK'
  OBVIOUS
<1>1. PartitionInv' /\ TypeOK'
  BY DNextIsAnyNext, PartitionInvStep DEF PartitionInv, TypeInv
<1>2. ASSUME NEW c \in Consumer, NEW v \in PollState, poll' = [poll EXCEPT ![c] = v],
             delivered' \in [Group -> SUBSET Nat], polled' \subseteq Group
      PROVE  DTypeOK'
  BY <1>1, <1>2 DEF DTypeOK, PollState
<1>3. ASSUME UNCHANGED clientVars PROVE DTypeOK'
  BY <1>1, <1>3 DEF DTypeOK, PollState, clientVars
<1>4. /\ NoPoll \in PollState
      /\ \A p \in Proc : [pc |-> "acking", via |-> p] \in PollState
      /\ \A n \in Nat : [pc |-> "read", start |-> n] \in PollState
      /\ \A n \in Nat : [pc |-> "got", next |-> n] \in PollState
      /\ \A r \in Seq(Nat) : [pc |-> "respond", msgs |-> r] \in PollState
  BY DEF PollState
<1>5. ASSUME NEW c \in Consumer
      PROVE  GroupOf[c] \in Group /\ Offset(GroupOf[c]) \in Nat
  BY PollShape, OffsetIsNat DEF DTypeOK
<1>6. delivered \in [Group -> SUBSET Nat] /\ polled \subseteq Group
  BY DEF DTypeOK
<1>7. ASSUME NEW c \in Consumer, PollRead(c) PROVE DTypeOK'
  <2>1. poll[c].start \in Nat /\ UNCHANGED <<delivered, polled>>
    BY <1>7, PollShape DEF PollRead
  <2>2. CASE InRange(poll[c].start)
    <3> DEFINE r == ReadFrom(poll[c].start, Batch)
    <3>1. r \in Seq(Nat) /\ poll' = [poll EXCEPT ![c] = [pc |-> "respond", msgs |-> r]]
      BY <1>7, <2>1, <2>2, ReadFromIsNext DEF PollRead, PartitionInv
    <3> HIDE DEF r
    <3> QED BY <1>2, <1>4, <1>6, <2>1, <3>1
  <2>3. CASE ~ InRange(poll[c].start)
    BY <1>2, <1>4, <1>6, <1>7, <2>1, <2>3 DEF PollRead
  <2> QED BY <2>2, <2>3
<1>8. ASSUME NEW c \in Consumer, PollRespond(c) PROVE DTypeOK'
  <2> DEFINE m == poll[c].msgs
             v == IF m = <<>> THEN NoPoll ELSE [pc |-> "got", next |-> NextOffset(c)]
             d == {m[i] : i \in DOMAIN m}
  <2>1. m \in Seq(Nat) /\ Len(m) \in Nat /\ d \subseteq Nat
    <3>1. m \in Seq(Nat)
      BY <1>8, PollShape DEF PollRespond
    <3> QED BY <3>1, LenProperties, ElementOfSeq
  <2>2. /\ poll' = [poll EXCEPT ![c] = v]
        /\ delivered' = [delivered EXCEPT ![GroupOf[c]] = @ \cup d]
        /\ polled' = polled \cup {GroupOf[c]}
    BY <1>8 DEF PollRespond
  <2>3. v \in PollState
    BY <1>4, <1>5, <2>1 DEF NextOffset
  <2> HIDE DEF v, d
  <2> QED BY <1>2, <1>5, <1>6, <2>1, <2>2, <2>3
<1>9. ASSUME NEW c \in Consumer,
             PollOffset(c) \/ PollLost(c) \/ AckLost(c) \/ AckDone(c)
      PROVE  DTypeOK'
  BY <1>2, <1>4, <1>5, <1>6, <1>9 DEF PollOffset, PollLost, AckLost, AckDone
<1>10. ASSUME NEW c \in Consumer, NEW p \in Proc, Ack(c, p) PROVE DTypeOK'
  BY <1>2, <1>4, <1>6, <1>10 DEF Ack
<1> QED BY <1>1, <1>3, <1>7, <1>8, <1>9, <1>10 DEF DNext, Publish, Compaction, Compacting,
     Checking, Committing, allVars

\* Every reachable state is well typed, in every deployment, collectors that
\* share a group or are overtaken by compactions included: no request
\* passes the partition an offset below zero.
THEOREM DeliveryTypeCorrect == DSpec => []DTypeOK
BY DTypeInit, DTypeStep, PTL DEF DSpec

\* In every deployment, whatever offsets the collectors acknowledge, the log
\* is only appended to at its tail and trimmed at its head.
THEOREM DeliveryRetainsLog == DSpec => RetainedSpec
<1>1. DInit => Retained!Init
  BY RetainedInit DEF DInit
<1>2. PartitionInv /\ DTypeOK /\ [DNext]_allVars => [Retained!Next]_<<messages, removed>>
  BY DNextIsAnyNext, RetainedStep DEF PartitionInv
<1> QED BY <1>1, <1>2, DTypeInit, DTypeStep, PTL DEF DSpec, RetainedSpec, Retained!Spec

\* In every deployment a compaction leaves each group at the message where it
\* was, unless one of its acknowledgements arrives meanwhile.
THEOREM DeliveryKeepsPosition == DSpec => PositionKept
<1>1. PartitionInv /\ DTypeOK /\ [DNext]_allVars =>
        [ cpc # "idle" /\ cpc' = "idle" =>
            \A g \in Group \ dirty : start[g] # Unknown => removed + Offset(g) = start[g] ]_vars
  BY DNextIsAnyNext, PositionKeptStep DEF PartitionInv
<1> QED BY <1>1, DTypeInit, DTypeStep, PTL DEF DSpec, PositionKept

\* Without compaction, counters and checked commits stay within the log.
BoundInv ==
  /\ Unlocked
  /\ \A k \in DOMAIN counter : counter[k] <= Len(messages)
  /\ \A p \in Proc :
       commit[p].pc \in {"load", "register", "store"} => commit[p].offset <= Len(messages)

LEMMA BoundInvStep ==
  ASSUME CompactWhen = "never", PartitionInv, DTypeOK, BoundInv, [DNext]_allVars
  PROVE  BoundInv'
<1>0. /\ TypeOK /\ TypeInv /\ messages \in Seq(Nat) /\ Len(messages) \in Nat
      /\ counter \in Seq(Nat) /\ DOMAIN counter = 1..Len(counter) /\ Len(counter) \in Nat
      /\ \A k \in DOMAIN counter : counter[k] \in Nat
      /\ DOMAIN commit = Proc
  BY LenProperties, ElementOfSeq DEF PartitionInv, TypeInv, TypeOK
<1>1. \/ AppendMessage
      \/ \E p \in Proc, g \in Group, off \in Int : CommitCall(p, g, off)
      \/ \E p \in Proc : CommitCheck(p) \/ CommitStep(p)
      \/ UNCHANGED vars
  <2>1. ~ CompactStep
    BY CompactStepShape DEF BoundInv
  <2>2. ASSUME NEW c \in Consumer, NEW p \in Proc, Ack(c, p)
        PROVE  \E g \in Group, off \in Int : CommitCall(p, g, off)
    <3>1. poll[c].next \in Int /\ GroupOf[c] \in Group
      BY <2>2, PollShape DEF Ack
    <3> QED BY <2>2, <3>1 DEF Ack
  <2> QED BY <2>1, <2>2 DEF DNext, allVars, Publish, Compaction, Compacting, MayCompact, Checking,
       Committing, PollOffset, PollRead, PollRespond, PollLost, AckLost, AckDone
<1>2. CASE AppendMessage
  <2>1. /\ Len(messages') = Len(messages) + 1
        /\ UNCHANGED <<cpc, counter, commit>>
    BY <1>0, <1>2, AppendProperties DEF AppendMessage, offsetVars, rangeVars
  <2>2. \A p \in Proc : commit[p].pc \in {"load", "register", "store"} => commit[p].offset \in Nat
    BY <1>0, CommitShape
  <2> QED BY <1>0, <2>1, <2>2 DEF BoundInv, Unlocked
<1>3. ASSUME NEW p \in Proc, NEW v,
             v.pc \in {"load", "register", "store"} => v.offset <= Len(messages),
             commit' = [commit EXCEPT ![p] = v], UNCHANGED <<cpc, counter, messages>>
      PROVE  BoundInv'
  BY <1>0, <1>3 DEF BoundInv, Unlocked
<1>4. ASSUME NEW p \in Proc, NEW g \in Group, NEW off \in Int, CommitCall(p, g, off) PROVE BoundInv'
  BY <1>3, <1>4 DEF CommitCall, offsetVars, rangeVars, logVars
<1>5. ASSUME NEW p \in Proc, CommitCheck(p) PROVE BoundInv'
  <2> DEFINE s == commit[p]
             v == [pc |-> "load", group |-> s.group, offset |-> s.offset]
  <2>1. [s EXCEPT !.pc = "load"] = v
    <3>1. s = [pc |-> "check", group |-> s.group, offset |-> s.offset]
      BY <1>0, <1>5, CommitShape DEF CommitCheck
    <3> QED BY <3>1
  <2>2. /\ commit' = [commit EXCEPT ![p] = IF InRange(s.offset) THEN v ELSE Idle]
        /\ UNCHANGED <<cpc, counter, messages>>
    BY <1>5, <2>1 DEF CommitCheck, offsetVars, rangeVars, logVars
  <2> HIDE DEF s
  <2>3. CASE InRange(s.offset)
    <3>1. v.offset <= Len(messages) /\ commit' = [commit EXCEPT ![p] = v]
      BY <2>2, <2>3 DEF InRange, TailOffset
    <3> HIDE DEF v
    <3> QED BY <1>3, <2>2, <3>1
  <2>4. CASE ~ InRange(s.offset)
    BY <1>3, <2>2, <2>4 DEF Idle
  <2> QED BY <2>3, <2>4
<1>6. ASSUME NEW p \in Proc, CommitLoad(p) PROVE BoundInv'
  <2>1. commit[p].offset <= Len(messages)
    BY <1>6 DEF CommitLoad, BoundInv
  <2> QED BY <1>3, <1>6, <2>1 DEF CommitLoad, offsetVars, rangeVars, logVars
<1>7. ASSUME NEW p \in Proc, CommitStore(p) \/ CommitRegister(p) PROVE BoundInv'
  <2> DEFINE off == commit[p].offset
  <2>1. /\ commit' = [commit EXCEPT ![p] = Idle] /\ UNCHANGED <<cpc, messages>>
        /\ off <= Len(messages) /\ off \in Nat
    BY <1>0, <1>7, CommitShape DEF CommitStore, CommitRegister, rangeVars, logVars, BoundInv
  <2>2. \A k \in DOMAIN counter' : counter'[k] = off \/ (k \in DOMAIN counter /\ counter'[k] = counter[k])
    <3>1. CASE CommitStore(p)
      BY <1>0, <3>1 DEF CommitStore
    <3>2. CASE CommitRegister(p)
      <4>1. counter' = Append(counter, off)
        BY <3>2 DEF CommitRegister
      <4>2. /\ counter' \in Seq(Nat) /\ Len(counter') = Len(counter) + 1
            /\ \A k \in 1..Len(counter) : counter'[k] = counter[k]
            /\ counter'[Len(counter) + 1] = off
        BY <1>0, <2>1, <4>1, AppendProperties
      <4>3. DOMAIN counter' = 1..(Len(counter) + 1)
        BY <4>2, LenProperties
      <4> QED BY <1>0, <4>2, <4>3
    <3> QED BY <1>7, <3>1, <3>2
  <2> QED BY <1>0, <2>1, <2>2 DEF BoundInv, Unlocked, Idle
<1>8. CASE UNCHANGED vars
  BY <1>8 DEF vars, logVars, offsetVars, rangeVars, BoundInv, Unlocked
<1> QED BY <1>1, <1>2, <1>4, <1>5, <1>6, <1>7, <1>8 DEF CommitStep

\* Without compaction, a committed offset never lies beyond the log, whatever
\* the collectors acknowledge: Commit tests it against a tail that only grows.
THEOREM CommittedInRangeHolds == ASSUME CompactWhen = "never" PROVE DSpec => []CommittedInRange
<1>1. DInit => PartitionInv /\ DTypeOK /\ BoundInv
  BY DTypeInit DEF DInit, Init, BoundInv, Unlocked, Idle
<1>2. PartitionInv /\ DTypeOK /\ BoundInv /\ [DNext]_allVars => PartitionInv' /\ DTypeOK' /\ BoundInv'
  BY DTypeStep, BoundInvStep
<1>3. PartitionInv /\ BoundInv => CommittedInRange
  <2> SUFFICES ASSUME PartitionInv, BoundInv, NEW g \in Group
               PROVE  0 <= Offset(g) /\ Offset(g) <= TailOffset
    BY DEF CommittedInRange
  <2>1. TypeOK /\ Offset(g) \in Nat /\ Len(messages) \in Nat
    BY OffsetIsNat, LenProperties DEF PartitionInv, TypeInv, TypeOK
  <2> QED BY <2>1 DEF Offset, BoundInv, TailOffset, TypeOK
<1> QED BY <1>1, <1>2, <1>3, PTL DEF DSpec

-----------------------------------------------------------------------------
(* Steps of the collectors.                                                *)

LEMMA PollInvNext == (\A c \in Consumer : PollOKNext(c, poll'[c])) => PollInv'
BY DEF PollInv, PollOK, PollOKNext, Earned, EarnedNext

\* A step that gives collector c the state v and leaves the partition alone.
LEMMA PollStep ==
  ASSUME PartitionInv, DeliveryInv, NEW c \in Consumer, NEW v \in PollState,
         poll' = [poll EXCEPT ![c] = v], UNCHANGED vars,
         delivered' \in [Group -> SUBSET Nat], polled' \subseteq Group,
         \A g \in Group : delivered[g] \subseteq delivered'[g],
         poll[c].pc = "acking" => commit[poll[c].via] = Idle,
         v.pc # "acking",
         PollOKNext(c, v)
  PROVE  DeliveryInv'
<1>1. /\ TypeOK' /\ (Unlocked' <=> Unlocked)
      /\ \A g \in Group : Offset(g)' = Offset(g) /\ Position(g)' = Position(g)
      /\ UNCHANGED <<removed, appended, commit, dirty, start>>
  BY DEF DeliveryInv, DTypeOK, vars, logVars, offsetVars, rangeVars, historyVars, TypeOK,
     Registered, Shifting, CommitState, Unlocked, Offset, Position
<1>2. /\ poll \in [Consumer -> PollState] /\ GroupOf \in [Consumer -> Group]
      /\ v # NoPoll => v.pc # "idle"
  BY DeliveryAssumption DEF DeliveryInv, DTypeOK, PollState, NoPoll
<1>3. poll' \in [Consumer -> PollState] /\ poll'[c] = v /\ \A d \in Consumer \ {c} : poll'[d] = poll[d]
  BY <1>2
<1>4. DTypeOK'
  BY <1>1, <1>3 DEF DTypeOK, PollState
<1>5. ServerInv'
  <2>1. ASSUME NEW p \in Proc, commit[p] # Idle
        PROVE  \E d \in Consumer : Acking(d, p)' /\ commit[p].group = GroupOf[d]
    <3>1. PICK d \in Consumer : Acking(d, p) /\ commit[p].group = GroupOf[d]
      BY <2>1 DEF DeliveryInv, ServerInv
    <3>2. d # c
      BY <2>1, <3>1 DEF Acking
    <3> QED BY <1>3, <3>1, <3>2 DEF Acking
  <2>2. \A p \in Proc, d \in Consumer : Acking(d, p)' => Acking(d, p)
    BY <1>3 DEF Acking
  <2>3. ~ Unlocked => Quiet' /\ \A g \in Group : start[g] # Unknown
    <3>1. ~ Unlocked => v = NoPoll
      BY <1>1 DEF PollOKNext
    <3> QED BY <1>3, <3>1 DEF DeliveryInv, ServerInv, Quiet
  <2> QED BY <1>1, <2>1, <2>2, <2>3 DEF DeliveryInv, ServerInv
<1>6. PollInv'
  <2>1. \A g \in Group : \A off : Earned(g, off) => EarnedNext(g, off)
    BY <1>1 DEF Earned, EarnedNext
  <2>2. ASSUME NEW d \in Consumer, d # c PROVE PollOKNext(d, poll[d])
    <3>1. PollOK(d, poll[d]) /\ GroupOf[d] \in Group
      BY <1>2 DEF DeliveryInv, PollInv
    <3> QED BY <1>1, <2>1, <3>1 DEF PollOK, PollOKNext
  <2>3. \A d \in Consumer : PollOKNext(d, poll'[d])
    BY <1>3, <2>2
  <2> QED BY <2>3, PollInvNext
<1>7. GroupInv'
  BY <1>1 DEF DeliveryInv, GroupInv
<1> QED BY <1>4, <1>5, <1>6, <1>7 DEF DeliveryInv

LEMMA PollActionStep ==
  ASSUME PartitionInv, DeliveryInv, Solo, NEW c \in Consumer,
         \/ PollOffset(c) \/ PollRead(c) \/ PollRespond(c) \/ PollLost(c)
         \/ AckLost(c) \/ AckDone(c)
  PROVE  DeliveryInv'
<1> DEFINE g == GroupOf[c]
<1>0. /\ DTypeOK /\ TypeOK /\ g \in Group /\ Offset(g) \in Nat
      /\ PollOK(c, poll[c]) /\ removed \in Nat
      /\ delivered \in [Group -> SUBSET Nat] /\ polled \subseteq Group
  BY PollShape, OffsetIsNat DEF DeliveryInv, DTypeOK, PollInv, TypeOK
<1>00. /\ NoPoll \in PollState /\ NoPoll.pc \notin {"read", "respond", "got", "acking"}
       /\ PollOKNext(c, NoPoll)
  BY DEF PollState, NoPoll, PollOKNext
<1>1. CASE PollOffset(c)
  <2> DEFINE v == [pc |-> "read", start |-> Offset(g)]
  <2>1. v \in PollState /\ v # NoPoll
    BY <1>0 DEF PollState, NoPoll
  <2>2. Unlocked
    BY <1>1, DeliveryAssumption DEF PollOffset, MayPoll, DeliveryInv, ServerInv, Solo
  <2>3. /\ poll[c] = NoPoll /\ poll' = [poll EXCEPT ![c] = v]
        /\ UNCHANGED <<vars, delivered, polled>>
    BY <1>1 DEF PollOffset
  <2>4. PollOKNext(c, v)
    BY <2>2, <2>3 DEF PollOKNext, vars, offsetVars, rangeVars, Unlocked, Offset
  <2>5. poll[c].pc # "acking" /\ v.pc # "acking"
    BY <2>3 DEF NoPoll
  <2>6. delivered' \in [Group -> SUBSET Nat] /\ polled' \subseteq Group
    BY <1>0, <2>3
  <2>7. \A h \in Group : delivered[h] \subseteq delivered'[h]
    BY <2>3
  <2> HIDE DEF v
  <2> QED BY <2>1, <2>3, <2>4, <2>5, <2>6, <2>7, PollStep
<1>2. CASE PollRead(c)
  <2>1. poll[c].pc = "read" /\ Unlocked /\ UNCHANGED <<vars, delivered, polled>>
    BY <1>2 DEF PollRead
  <2>2. poll[c].start = Offset(g)
    BY <1>0, <2>1 DEF PollOK
  <2>3. CASE ~ InRange(poll[c].start)
    <3>1. poll' = [poll EXCEPT ![c] = NoPoll]
      BY <1>2, <2>3 DEF PollRead
    <3> QED BY <1>0, <1>00, <2>1, <3>1, PollStep
  <2>4. CASE InRange(poll[c].start)
    <3> DEFINE r == ReadFrom(Offset(g), Batch)
               v == [pc |-> "respond", msgs |-> r]
    <3>1. poll' = [poll EXCEPT ![c] = v]
      BY <1>2, <2>2, <2>4 DEF PollRead
    <3>2. /\ r \in Seq(Nat)
          /\ removed + Offset(g) + Len(r) <= appended
          /\ \A i \in DOMAIN r : r[i] = removed + Offset(g) + i
      BY <1>0, <2>2, <2>4, ReadFromIsNext DEF PartitionInv
    <3> HIDE DEF r
    <3>3. v \in PollState /\ v # NoPoll
      BY <3>2 DEF PollState, NoPoll
    <3>4. Unlocked' /\ UNCHANGED <<removed, appended>> /\ Offset(g)' = Offset(g)
      BY <2>1 DEF vars, logVars, offsetVars, rangeVars, Unlocked, Offset
    <3>5. PollOKNext(c, v)
      BY <3>2, <3>4 DEF PollOKNext
    <3> QED BY <1>0, <2>1, <3>1, <3>3, <3>5, PollStep
  <2> QED BY <2>3, <2>4
<1>3. CASE PollRespond(c)
  <2> DEFINE m == poll[c].msgs
             d == {m[i] : i \in DOMAIN m}
  <2>1. /\ poll[c].pc = "respond" /\ UNCHANGED vars
        /\ poll' = [poll EXCEPT ![c] = IF m = <<>> THEN NoPoll
                                       ELSE [pc |-> "got", next |-> NextOffset(c)]]
        /\ delivered' = [delivered EXCEPT ![g] = @ \cup d]
        /\ polled' = polled \cup {g}
    BY <1>3 DEF PollRespond
  <2>2. /\ m \in Seq(Nat) /\ Len(m) \in Nat /\ DOMAIN m = 1..Len(m)
        /\ \A i \in DOMAIN m : m[i] \in Nat
    <3>1. m \in Seq(Nat)
      BY <1>0, <2>1, PollShape
    <3> QED BY <3>1, LenProperties, ElementOfSeq
  <2>3. /\ removed + Offset(g) + Len(m) <= appended
        /\ \A i \in DOMAIN m : m[i] = removed + Offset(g) + i
    BY <1>0, <2>1 DEF PollOK
  <2>4. /\ Unlocked /\ Unlocked' /\ UNCHANGED <<removed, appended>>
        /\ Offset(g)' = Offset(g) /\ Position(g) = removed + Offset(g)
        /\ Position(g)' = removed + Offset(g)
    <3>1. Unlocked
      BY <1>0, <2>1 DEF PollOK, NoPoll
    <3> QED BY <2>1, <3>1 DEF vars, logVars, offsetVars, rangeVars, Unlocked, Offset, Position
  <2>5. /\ delivered' \in [Group -> SUBSET Nat] /\ polled' \subseteq Group
        /\ \A h \in Group : delivered[h] \subseteq delivered'[h]
    BY <1>0, <2>1, <2>2
  <2>6. NextOffset(c) = Offset(g) + Len(m)
    BY DEF NextOffset
  <2>7. 1..(removed + (Offset(g) + Len(m))) \subseteq delivered'[g]
    <3> SUFFICES ASSUME NEW k \in Int, 1 <= k, k <= removed + (Offset(g) + Len(m))
                 PROVE  k \in delivered'[g]
      BY <1>0, <2>2
    <3>1. delivered'[g] = delivered[g] \cup d
      BY <1>0, <2>1
    <3>2. CASE k <= removed + Offset(g)
      <4>1. k \in 1..Position(g)
        BY <1>0, <2>4, <3>2
      <4> QED BY <1>0, <3>1, <4>1 DEF DeliveryInv, GroupInv
    <3>3. CASE k > removed + Offset(g)
      <4> DEFINE i == k - (removed + Offset(g))
      <4>1. i \in DOMAIN m /\ k = removed + Offset(g) + i
        BY <1>0, <2>2, <3>3, SMTT(30)
      <4>2. m[i] = k
        BY <2>3, <4>1
      <4> HIDE DEF i
      <4> QED BY <3>1, <4>1, <4>2
    <3> QED BY <1>0, <3>2, <3>3
  <2> HIDE DEF d, m
  <2>8. CASE m = <<>>
    BY <1>00, <2>1, <2>5, <2>8, PollStep
  <2>9. CASE m # <<>>
    <3> DEFINE v == [pc |-> "got", next |-> Offset(g) + Len(m)]
    <3>1. poll' = [poll EXCEPT ![c] = v]
      BY <2>1, <2>6, <2>9
    <3>2. v \in PollState /\ v # NoPoll
      BY <1>0, <2>2 DEF PollState, NoPoll
    <3>3. EarnedNext(g, Offset(g) + Len(m))
      <4>1. /\ Offset(g) + Len(m) \in Nat
            /\ removed + Offset(g) <= removed + (Offset(g) + Len(m))
            /\ removed + (Offset(g) + Len(m)) <= appended
        BY <1>0, <2>2, <2>3
      <4> QED BY <2>4, <2>7, <4>1 DEF EarnedNext
    <3>4. PollOKNext(c, v)
      BY <2>4, <3>3 DEF PollOKNext
    <3> QED BY <1>0, <2>1, <2>5, <3>1, <3>2, <3>4, PollStep
  <2> QED BY <2>8, <2>9
<1>4. CASE PollLost(c) \/ AckLost(c) \/ AckDone(c)
  <2>1. /\ poll' = [poll EXCEPT ![c] = NoPoll] /\ UNCHANGED <<vars, delivered, polled>>
        /\ poll[c].pc = "acking" => commit[poll[c].via] = Idle
    BY <1>4 DEF PollLost, AckLost, AckDone
  <2> QED BY <1>0, <1>00, <2>1, PollStep
<1> QED BY <1>1, <1>2, <1>3, <1>4
-----------------------------------------------------------------------------
(* Steps of the server.                                                    *)

\* A collector polls only while no compaction runs.
LEMMA BusyIsUnlocked ==
  ASSUME DeliveryInv, NEW c \in Consumer, poll[c] # NoPoll
  PROVE  Unlocked
BY DEF DeliveryInv, ServerInv, Quiet

\* A step of Compact, or of nothing else, while no collector polls.
LEMMA QuietStep ==
  ASSUME DeliveryInv, UNCHANGED clientVars, Quiet, TypeOK', ServerInv',
         appended' = appended, \A g \in Group : Position(g)' = Position(g)
  PROVE  DeliveryInv'
<1>1. poll' = poll /\ delivered' = delivered /\ polled' = polled
  BY DEF clientVars
<1>2. DTypeOK'
  BY <1>1 DEF DeliveryInv, DTypeOK, PollState
<1>3. \A c \in Consumer : PollOKNext(c, poll'[c])
  BY <1>1 DEF Quiet, PollOKNext, NoPoll
<1>4. GroupInv'
  BY <1>1 DEF DeliveryInv, GroupInv
<1> QED BY <1>2, <1>3, <1>4, PollInvNext DEF DeliveryInv

LEMMA CompactionStep ==
  ASSUME PartitionInv, DeliveryInv, Solo, Compaction, TypeOK'
  PROVE  /\ DeliveryInv'
         /\ \A g \in Group : Position(g)' = Position(g)
         /\ UNCHANGED <<appended, delivered>>
<1>1. /\ CompactWhen = "quiet" /\ Quiet /\ Registered = Group
      /\ UNCHANGED clientVars /\ Unlocked /\ ~ Unlocked'
      /\ start' = [g \in Group |-> IF g \in Registered THEN removed + Offset(g) ELSE Unknown]
      /\ UNCHANGED <<commit, dirty, appended>>
  BY DEF Compaction, CompactLock, MayCompact, Solo, Unlocked, logVars
<1>2. \A g \in Group : start'[g] = removed + Offset(g) /\ Position(g) = removed + Offset(g)
                       /\ Position(g)' = start'[g]
  BY <1>1 DEF Position
<1>3. \A g \in Group : start'[g] # Unknown
  <2> SUFFICES ASSUME NEW g \in Group PROVE start'[g] # Unknown
    OBVIOUS
  <2>1. removed \in Nat /\ Offset(g) \in Nat
    BY OffsetIsNat DEF DeliveryInv, DTypeOK, TypeOK
  <2> QED BY <1>2, <2>1 DEF Unknown
<1>4. ServerInv'
  BY <1>1, <1>3 DEF DeliveryInv, ServerInv, Acking, Quiet, clientVars
<1> QED BY <1>1, <1>2, <1>4, QuietStep DEF clientVars

LEMMA CompactingStep ==
  ASSUME PartitionInv, DeliveryInv, Solo, Compacting, TypeOK'
  PROVE  /\ DeliveryInv'
         /\ \A g \in Group : Position(g)' = Position(g)
         /\ UNCHANGED <<appended, delivered>>
<1>1. CompactStep /\ UNCHANGED clientVars
  BY DEF Compacting
<1>2. /\ Quiet /\ dirty = {} /\ CompactWhen # "never"
      /\ \A g \in Group : start[g] # Unknown
      /\ ~ Unlocked /\ UNCHANGED <<commit, appended>> /\ dirty' = {}
  BY <1>1, CompactStepShape DEF DeliveryInv, ServerInv
<1>3. ASSUME NEW g \in Group PROVE Position(g)' = Position(g)
  <2>1. Position(g) = start[g]
    BY <1>2 DEF Position
  <2>2. CASE ~ Unlocked'
    BY <1>1, <2>1, <2>2, CompactStepShape DEF Position
  <2>3. CASE Unlocked'
    <3>1. removed + Offset(g) = start[g]
      BY <1>1, <1>2, <2>3, PositionKeptStep DEF PartitionInv, AnyNext, Unlocked
    <3>2. Position(g)' = removed + Offset(g)
      BY <1>1, <2>3, CompactStepShape DEF Position, Offset
    <3> QED BY <2>1, <3>1, <3>2
  <2> QED BY <2>2, <2>3
<1>4. ServerInv'
  BY <1>1, <1>2, CompactStepShape DEF DeliveryInv, ServerInv, Acking, Quiet, clientVars
<1> QED BY <1>1, <1>2, <1>3, <1>4, QuietStep DEF clientVars

\* A step of the server, without Compact, that moves no group and ends no
\* Commit but by refusing it.
LEMMA ServeStep ==
  ASSUME DeliveryInv, UNCHANGED clientVars, Unlocked, Unlocked', TypeOK',
         UNCHANGED <<removed, dirty>>, appended <= appended',
         \A g \in Group : Offset(g)' = Offset(g),
         \A p \in Proc : commit'[p] # Idle =>
           /\ commit[p] # Idle
           /\ commit'[p].group = commit[p].group
           /\ commit'[p].offset = commit[p].offset
  PROVE  DeliveryInv' /\ \A g \in Group : Position(g)' = Position(g)
<1>1. poll' = poll /\ delivered' = delivered /\ polled' = polled
  BY DEF clientVars
<1>2. DTypeOK'
  BY <1>1 DEF DeliveryInv, DTypeOK, PollState
<1>3. \A g \in Group : Position(g) = removed + Offset(g) /\ Position(g)' = Position(g)
  BY DEF Position
<1>4. ServerInv'
  BY <1>1 DEF DeliveryInv, ServerInv, Acking
<1>5. appended \in Int /\ appended' \in Int /\ removed \in Int /\ \A g \in Group : Position(g) \in Int
  BY <1>3, OffsetIsNat, SMTT(30) DEF DeliveryInv, DTypeOK, TypeOK
<1>6. \A g \in Group : \A off : Earned(g, off) => EarnedNext(g, off)
  <2> SUFFICES ASSUME NEW g \in Group, NEW off, Earned(g, off) PROVE EarnedNext(g, off)
    OBVIOUS
  <2>1. removed + off <= appended'
    BY <1>5 DEF Earned
  <2> QED BY <1>1, <1>3, <2>1 DEF Earned, EarnedNext
<1>7. ASSUME NEW c \in Consumer PROVE PollOKNext(c, poll[c])
  <2>1. PollOK(c, poll[c]) /\ GroupOf[c] \in Group /\ Offset(GroupOf[c]) \in Nat
    BY PollShape, OffsetIsNat DEF DeliveryInv, PollInv, DTypeOK
  <2>2. poll[c].pc = "respond" => removed + Offset(GroupOf[c]) + Len(poll[c].msgs) <= appended'
    <3> SUFFICES ASSUME poll[c].pc = "respond"
                 PROVE  removed + Offset(GroupOf[c]) + Len(poll[c].msgs) <= appended'
      OBVIOUS
    <3>1. Len(poll[c].msgs) \in Nat
      BY PollShape, LenProperties DEF DeliveryInv
    <3>2. removed + Offset(GroupOf[c]) + Len(poll[c].msgs) <= appended
      BY <2>1 DEF PollOK
    <3> QED BY <1>5, <2>1, <3>1, <3>2
  <2>3. poll[c].pc = "acking" => poll[c].via \in Proc
    BY PollShape DEF DeliveryInv
  <2> QED BY <1>6, <2>1, <2>2, <2>3 DEF PollOK, PollOKNext
<1>8. GroupInv'
  <2> SUFFICES ASSUME NEW g \in Group PROVE (Position(g) <= appended /\ 1..Position(g) \subseteq delivered[g])'
    BY DEF GroupInv
  <2>1. Position(g) <= appended'
    BY <1>5 DEF DeliveryInv, GroupInv
  <2> QED BY <1>1, <1>3, <2>1 DEF DeliveryInv, GroupInv
<1> QED BY <1>1, <1>2, <1>3, <1>4, <1>7, <1>8, PollInvNext DEF DeliveryInv

\* A Commit that runs belongs to a collector that waits for it, and so there
\* is no compaction.
LEMMA CommitIsAwaited ==
  ASSUME DeliveryInv, NEW p \in Proc, commit[p] # Idle
  PROVE  /\ Unlocked
         /\ \E c \in Consumer : Acking(c, p) /\ commit[p].group = GroupOf[c]
BY BusyIsUnlocked DEF DeliveryInv, ServerInv, Acking, NoPoll

LEMMA PublishStep ==
  ASSUME PartitionInv, DeliveryInv, Publish, TypeOK'
  PROVE  DeliveryInv' /\ \A g \in Group : Position(g)' = Position(g)
<1>1. /\ Unlocked /\ appended' = appended + 1 /\ UNCHANGED clientVars
      /\ UNCHANGED <<removed, offsets, counter, commit, cpc, dirty>>
  BY DEF Publish, AppendMessage, offsetVars, rangeVars, historyVars
<1>2. appended <= appended' /\ \A g \in Group : Offset(g)' = Offset(g)
  BY <1>1 DEF DeliveryInv, DTypeOK, TypeOK, Offset
<1> QED BY <1>1, <1>2, ServeStep DEF Unlocked

LEMMA CheckingStep ==
  ASSUME PartitionInv, DeliveryInv, NEW p \in Proc, Checking(p), TypeOK'
  PROVE  DeliveryInv' /\ \A g \in Group : Position(g)' = Position(g)
<1>1. /\ Unlocked /\ UNCHANGED clientVars /\ commit[p].pc = "check"
      /\ UNCHANGED <<appended, removed, offsets, counter, cpc, dirty>>
      /\ commit' = [commit EXCEPT ![p] =
                      IF InRange(@.offset) THEN [@ EXCEPT !.pc = "load"] ELSE Idle]
  BY DEF Checking, CommitCheck, logVars, offsetVars, rangeVars, historyVars
<1>2. TypeOK
  BY DEF DeliveryInv, DTypeOK
<1> DEFINE s == commit[p]
           v == [pc |-> "load", group |-> s.group, offset |-> s.offset]
<1>3. [s EXCEPT !.pc = "load"] = v
  <2>1. s = [pc |-> "check", group |-> s.group, offset |-> s.offset]
    BY <1>1, <1>2, CommitShape
  <2> QED BY <2>1
<1>4. commit' = [commit EXCEPT ![p] = IF InRange(s.offset) THEN v ELSE Idle]
  BY <1>1, <1>3
<1>5. s # Idle
  BY <1>1 DEF Idle
<1>6. ASSUME NEW q \in Proc, commit'[q] # Idle
      PROVE  /\ commit[q] # Idle
             /\ commit'[q].group = commit[q].group
             /\ commit'[q].offset = commit[q].offset
  BY <1>2, <1>4, <1>5, <1>6 DEF TypeOK
<1>7. appended <= appended' /\ \A g \in Group : Offset(g)' = Offset(g)
  BY <1>1, <1>2 DEF TypeOK, Offset
<1> QED BY <1>1, <1>6, <1>7, ServeStep DEF Unlocked

LEMMA CommitLoadStep ==
  ASSUME PartitionInv, DeliveryInv, NEW p \in Proc, CommitLoad(p), UNCHANGED clientVars, TypeOK'
  PROVE  DeliveryInv' /\ \A g \in Group : Position(g)' = Position(g)
<1>1. /\ commit[p].pc = "load"
      /\ UNCHANGED <<appended, removed, offsets, counter, cpc, dirty>>
  BY DEF CommitLoad, logVars, offsetVars, rangeVars, historyVars
<1>2. TypeOK /\ commit[p] # Idle /\ Unlocked
  BY <1>1, CommitIsAwaited DEF DeliveryInv, DTypeOK, Idle
<1>3. ASSUME NEW q \in Proc, commit'[q] # Idle
      PROVE  /\ commit[q] # Idle
             /\ commit'[q].group = commit[q].group
             /\ commit'[q].offset = commit[q].offset
  BY <1>2, <1>3 DEF TypeOK, CommitLoad
<1>4. appended <= appended' /\ \A g \in Group : Offset(g)' = Offset(g)
  BY <1>1, <1>2 DEF TypeOK, Offset
<1> QED BY <1>1, <1>2, <1>3, <1>4, ServeStep DEF Unlocked

\* The step by which Commit takes effect moves the group that it commits for
\* to the offset that it was given, and no other group.
LEMMA CommitMoves ==
  ASSUME TypeInv, Owned, NEW p \in Proc, CommitStore(p) \/ CommitRegister(p),
         NEW g0, NEW off, commit[p].group = g0, commit[p].offset = off
  PROVE  /\ g0 \in Group
         /\ commit[p].pc = "store" /\ commit[p].cell = offsets[g0] => Offset(g0)' = off
         /\ commit[p].pc # "store" => Offset(g0)' = off
         /\ \A h \in Group \ {g0} : offsets'[h] = offsets[h] /\ Offset(h)' = Offset(h)
         /\ commit' = [commit EXCEPT ![p] = Idle]
         /\ Touch(g0)
         /\ UNCHANGED <<appended, removed, cpc, start>>
<1>0. /\ offsets \in [Group -> {0} \cup DOMAIN counter]
      /\ counter \in Seq(Nat) /\ DOMAIN counter = 1..Len(counter) /\ Len(counter) \in Nat
      /\ g0 \in Group /\ off \in Nat
  BY LenProperties, CommitShape DEF TypeInv, TypeOK, CommitStore, CommitRegister, Idle
<1>1. /\ commit' = [commit EXCEPT ![p] = Idle] /\ Touch(g0)
      /\ UNCHANGED <<appended, removed, cpc, start>>
  BY DEF CommitStore, CommitRegister, logVars, rangeVars
<1>2. CASE CommitRegister(p)
  <2> DEFINE n == Len(counter) + 1
  <2>1. counter' = Append(counter, off) /\ offsets' = [offsets EXCEPT ![g0] = n]
    BY <1>2 DEF CommitRegister
  <2>2. /\ \A k \in DOMAIN counter : counter'[k] = counter[k]
        /\ counter'[n] = off
    BY <1>0, <2>1, AppendProperties
  <2>3. n # 0 /\ offsets'[g0] = n /\ \A h \in Group \ {g0} : offsets'[h] = offsets[h]
    BY <1>0, <2>1
  <2> HIDE DEF n
  <2> QED BY <1>0, <1>1, <2>2, <2>3 DEF Offset
<1>3. CASE CommitStore(p)
  <2>1. commit[p].pc = "store" /\ commit[p].cell \in DOMAIN counter
    BY <1>3, CommitShape DEF CommitStore, TypeInv
  <2>2. counter' = [counter EXCEPT ![commit[p].cell] = off] /\ offsets' = offsets
    BY <1>3 DEF CommitStore
  <2>3. \A h \in Group \ {g0} : offsets[h] # commit[p].cell
    BY <2>1 DEF Owned
  <2>4. \A h \in Group \ {g0} : Offset(h)' = Offset(h)
    BY <1>0, <2>1, <2>2, <2>3 DEF Offset
  <2>5. commit[p].cell = offsets[g0] => Offset(g0)' = off
    BY <1>0, <2>1, <2>2 DEF Offset
  <2> QED BY <1>0, <1>1, <2>1, <2>2, <2>4, <2>5
<1> QED BY <1>2, <1>3

LEMMA CommitMoveStep ==
  ASSUME DInv, Solo, TypeOK', UNCHANGED clientVars,
         NEW p \in Proc, CommitStore(p) \/ CommitRegister(p),
         NEW g0, NEW off, commit[p].group = g0, commit[p].offset = off
  PROVE  /\ DeliveryInv'
         /\ g0 \in Group /\ Earned(g0, off)
         /\ Position(g0)' = removed + off
         /\ \A h \in Group \ {g0} : Position(h)' = Position(h)
         /\ UNCHANGED appended
<1>1. /\ PartitionInv /\ Linked /\ DeliveryInv /\ TypeInv /\ Owned /\ TypeOK
      /\ poll' = poll /\ delivered' = delivered /\ polled' = polled
  BY DEF DInv, PartitionInv, TypeInv, clientVars
<1>2. /\ g0 \in Group
      /\ Offset(g0)' = off
      /\ \A h \in Group \ {g0} : Offset(h)' = Offset(h)
      /\ commit' = [commit EXCEPT ![p] = Idle]
      /\ Touch(g0)
      /\ UNCHANGED <<appended, removed, cpc, start>>
  BY <1>1, CommitMoves DEF Linked
<1>3. commit[p] # Idle
  BY DEF CommitStore, CommitRegister, Idle
<1>4. Unlocked /\ Unlocked' /\ dirty' = dirty
  BY <1>1, <1>2, <1>3, CommitIsAwaited DEF Unlocked, Touch
<1>5. PICK c \in Consumer : Acking(c, p) /\ g0 = GroupOf[c]
  BY <1>1, <1>3, CommitIsAwaited
<1>6. /\ \A d \in Consumer \ {c} : GroupOf[d] \in Group \ {g0} /\ ~ Acking(d, p)
      /\ poll[c] = [pc |-> "acking", via |-> p]
  BY <1>1, <1>5, DeliveryAssumption DEF Solo, DeliveryInv, ServerInv, Acking
<1>7. Earned(g0, off)
  <2>1. PollOK(c, poll[c])
    BY <1>1 DEF DeliveryInv, PollInv
  <2> QED BY <1>3, <1>5, <1>6, <2>1 DEF PollOK
<1>8. /\ \A h \in Group : Position(h) = removed + Offset(h) /\ Position(h)' = removed + Offset(h)'
      /\ Position(g0)' = removed + off
      /\ \A h \in Group \ {g0} : Position(h)' = Position(h)
  BY <1>2, <1>4 DEF Position
<1>9. DTypeOK'
  BY <1>1 DEF DeliveryInv, DTypeOK, PollState
<1>10. /\ DOMAIN commit = Proc /\ commit'[p] = Idle
       /\ \A q \in Proc \ {p} : commit'[q] = commit[q]
  BY <1>1, <1>2 DEF TypeOK
<1>11. ServerInv'
  BY <1>1, <1>4, <1>10 DEF DeliveryInv, ServerInv, Acking
<1>12. \A d \in Consumer : PollOKNext(d, poll[d])
  <2>1. PollOKNext(c, poll[c])
    BY <1>4, <1>6, <1>10 DEF PollOKNext
  <2>2. ASSUME NEW d \in Consumer \ {c} PROVE PollOKNext(d, poll[d])
    <3>1. PollOK(d, poll[d]) /\ GroupOf[d] \in Group \ {g0}
      BY <1>1, <1>6 DEF DeliveryInv, PollInv
    <3>2. \A o : Earned(GroupOf[d], o) => EarnedNext(GroupOf[d], o)
      BY <1>1, <1>2, <1>8, <3>1 DEF Earned, EarnedNext
    <3>3. poll[d].pc = "acking" => poll[d].via \in Proc \ {p}
      BY <1>1, <1>6, PollShape DEF DeliveryInv
    <3> QED BY <1>2, <1>4, <1>10, <3>1, <3>2, <3>3 DEF PollOK, PollOKNext
  <2> QED BY <2>1, <2>2
<1>13. GroupInv'
  <2>1. ASSUME NEW h \in Group
        PROVE  Position(h)' <= appended /\ 1..(Position(h)') \subseteq delivered[h]
    <3>1. CASE h = g0
      BY <1>7, <1>8, <3>1 DEF Earned
    <3>2. CASE h # g0
      BY <1>1, <1>8, <3>2 DEF DeliveryInv, GroupInv
    <3> QED BY <3>1, <3>2
  <2> QED BY <1>1, <1>2, <2>1 DEF GroupInv
<1> QED BY <1>1, <1>2, <1>7, <1>8, <1>9, <1>11, <1>12, <1>13, PollInvNext DEF DeliveryInv

LEMMA AckStep ==
  ASSUME DInv, NEW c \in Consumer, NEW p \in Proc, Ack(c, p), TypeOK'
  PROVE  /\ DeliveryInv'
         /\ \A g \in Group : Position(g)' = Position(g)
         /\ UNCHANGED <<appended, delivered>>
<1> DEFINE g0  == GroupOf[c]
           off == poll[c].next
           v   == [pc |-> "acking", via |-> p]
           w   == [pc |-> "check", group |-> g0, offset |-> off]
<1>1. /\ DeliveryInv /\ TypeOK /\ DTypeOK /\ poll[c].pc = "got" /\ Free(p)
      /\ commit' = [commit EXCEPT ![p] = w] /\ poll' = [poll EXCEPT ![c] = v]
      /\ UNCHANGED <<delivered, polled, appended, removed, offsets, counter, cpc, start, dirty>>
  BY DEF DInv, DeliveryInv, DTypeOK, Ack, CommitCall, logVars, offsetVars, rangeVars, historyVars
<1>2. /\ \A d \in Consumer : ~ Acking(d, p)
      /\ Unlocked /\ Unlocked' /\ g0 \in Group /\ poll \in [Consumer -> PollState]
      /\ DOMAIN commit = Proc
  BY <1>1, BusyIsUnlocked, PollShape DEF Free, Acking, DTypeOK, TypeOK, Unlocked, NoPoll
<1>3. \A g \in Group : Offset(g)' = Offset(g) /\ Position(g)' = Position(g)
  BY <1>1, <1>2 DEF Offset, Position
<1>4. /\ v \in PollState /\ poll'[c] = v /\ \A d \in Consumer \ {c} : poll'[d] = poll[d]
      /\ poll' \in [Consumer -> PollState]
  BY <1>1, <1>2 DEF PollState
<1>5. /\ commit'[p] = w /\ \A q \in Proc \ {p} : commit'[q] = commit[q]
  BY <1>1, <1>2
<1>6. DTypeOK'
  BY <1>1, <1>4 DEF DTypeOK, PollState
<1>7. ServerInv'
  <2>1. \A d \in Consumer, q \in Proc : Acking(d, q)' <=> (d = c /\ q = p) \/ (d # c /\ Acking(d, q))
    BY <1>4 DEF Acking
  <2>2. ASSUME NEW q \in Proc, commit'[q] # Idle
        PROVE  \E d \in Consumer : Acking(d, q)' /\ commit'[q].group = GroupOf[d]
    <3>1. CASE q = p
      BY <1>5, <2>1, <3>1
    <3>2. CASE q # p
      <4>1. PICK d \in Consumer : Acking(d, q) /\ commit[q].group = GroupOf[d]
        BY <1>1, <1>5, <2>2, <3>2 DEF DeliveryInv, ServerInv
      <4>2. d # c
        BY <1>1, <4>1 DEF Acking
      <4> QED BY <1>5, <2>1, <3>2, <4>1, <4>2
    <3> QED BY <3>1, <3>2
  <2>3. \A d, e \in Consumer, q \in Proc : Acking(d, q)' /\ Acking(e, q)' => d = e
    BY <1>1, <1>2, <2>1 DEF DeliveryInv, ServerInv
  <2> QED BY <1>1, <1>2, <2>2, <2>3 DEF DeliveryInv, ServerInv
<1>8. \A d \in Consumer : PollOKNext(d, poll'[d])
  <2>1. \A g \in Group : \A o : Earned(g, o) => EarnedNext(g, o)
    BY <1>1, <1>3 DEF Earned, EarnedNext
  <2>2. PollOKNext(c, v)
    <3>1. Earned(g0, off)
      BY <1>1 DEF DeliveryInv, PollInv, PollOK
    <3> QED BY <1>2, <1>5, <2>1, <3>1 DEF PollOKNext
  <2>3. ASSUME NEW d \in Consumer \ {c} PROVE PollOKNext(d, poll[d])
    <3>1. PollOK(d, poll[d]) /\ GroupOf[d] \in Group
      BY <1>1, PollShape DEF DeliveryInv, PollInv
    <3>2. poll[d].pc = "acking" => poll[d].via \in Proc \ {p}
      BY <1>1, <1>2, PollShape
    <3> QED BY <1>1, <1>2, <1>3, <1>5, <2>1, <3>1, <3>2 DEF PollOK, PollOKNext
  <2> QED BY <1>4, <2>2, <2>3
<1>9. GroupInv'
  BY <1>1, <1>3 DEF DeliveryInv, GroupInv
<1> QED BY <1>1, <1>3, <1>6, <1>7, <1>8, <1>9, PollInvNext DEF DeliveryInv

\* Only a Commit of the same group replaces the counter of a group, and a group
\* has one Commit at a time.
LEMMA LinkedStep == ASSUME DInv, Solo, [AnyNext]_vars PROVE Linked'
<1>1. TypeOK /\ TypeInv /\ DeliveryInv /\ Linked /\ DOMAIN commit = Proc
  BY DEF DInv, PartitionInv, TypeInv, TypeOK
<1>2. ASSUME NEW p \in Proc, CommitRegister(p) PROVE Linked'
  <2> DEFINE g0 == commit[p].group
  <2>1. /\ commit' = [commit EXCEPT ![p] = Idle] /\ commit[p] # Idle
        /\ offsets' = [offsets EXCEPT ![g0] = Len(counter) + 1]
    BY <1>2 DEF CommitRegister, Idle
  <2>2. ASSUME NEW q \in Proc, q # p, commit[q].pc = "store" PROVE commit[q].group # g0
    <3>1. PICK c \in Consumer : Acking(c, p) /\ g0 = GroupOf[c]
      BY <1>1, <2>1 DEF DeliveryInv, ServerInv
    <3>2. PICK d \in Consumer : Acking(d, q) /\ commit[q].group = GroupOf[d]
      BY <1>1, <2>2 DEF DeliveryInv, ServerInv, Idle
    <3> QED BY <2>2, <3>1, <3>2 DEF Solo, Acking
  <2>3. \A q \in Proc : commit'[q].pc = "store" => q # p /\ commit'[q] = commit[q]
    BY <1>1, <2>1 DEF Idle
  <2>4. \A q \in Proc : commit[q].pc = "store" => commit[q].group \in Group
    BY <1>1, CommitShape DEF Idle
  <2> QED BY <1>1, <2>1, <2>2, <2>3, <2>4 DEF Linked, TypeOK
<1>3. ASSUME NEW p \in Proc, NEW v, v.pc # "store" \/ v.cell = offsets[v.group],
             commit' = [commit EXCEPT ![p] = v], UNCHANGED offsets
      PROVE  Linked'
  BY <1>1, <1>3 DEF Linked
<1>4. ASSUME NEW p \in Proc, NEW g \in Group, NEW off \in Int, CommitCall(p, g, off) PROVE Linked'
  BY <1>3, <1>4 DEF CommitCall, offsetVars
<1>5. ASSUME NEW p \in Proc, CommitCheck(p) PROVE Linked'
  <2>1. [commit[p] EXCEPT !.pc = "load"].pc = "load"
    <3>1. commit[p] = [pc |-> "check", group |-> commit[p].group, offset |-> commit[p].offset]
      BY <1>1, <1>5, CommitShape DEF CommitCheck
    <3> QED BY <3>1
  <2> QED BY <1>3, <1>5, <2>1 DEF CommitCheck, Idle, offsetVars
<1>6. ASSUME NEW p \in Proc, CommitLoad(p) PROVE Linked'
  BY <1>3, <1>6 DEF CommitLoad, offsetVars
<1>7. ASSUME NEW p \in Proc, CommitStore(p) PROVE Linked'
  BY <1>3, <1>7 DEF CommitStore, Idle
<1>8. CASE UNCHANGED <<offsets, commit>>
  BY <1>1, <1>8 DEF Linked
<1> QED BY <1>2, <1>4, <1>5, <1>6, <1>7, <1>8 DEF AnyNext, CommitStep, vars, offsetVars,
     AppendMessage, CompactLock, CompactStep, CompactVisit, CompactScanLoad, CompactNothing,
     CompactCut, CompactShiftLoad, CompactShiftStore, CompactUnlock

-----------------------------------------------------------------------------
(* The invariant.                                                          *)

LEMMA DInvInit == DInit => DInv
<1> SUFFICES ASSUME DInit PROVE DInv
  OBVIOUS
<1>1. /\ PartitionInv /\ TypeOK /\ Unlocked /\ dirty = {} /\ removed = 0 /\ appended = 0
      /\ \A p \in Proc : commit[p] = Idle
      /\ \A g \in Group : Position(g) = 0
  BY PartitionInvInit DEF DInit, Init, PartitionInv, TypeInv, Unlocked, Position, Offset
<1>2. /\ \A c \in Consumer : poll[c] = NoPoll /\ NoPoll.pc = "idle"
      /\ poll \in [Consumer -> PollState]
      /\ delivered \in [Group -> SUBSET Nat] /\ polled = {}
  BY DEF DInit, PollState, NoPoll
<1>3. DTypeOK
  BY <1>1, <1>2 DEF DTypeOK
<1>4. ServerInv
  BY <1>1, <1>2 DEF ServerInv, Acking, NoPoll
<1>5. PollInv
  BY <1>2 DEF PollInv, PollOK
<1>6. GroupInv
  BY <1>1 DEF GroupInv
<1>7. Linked
  BY <1>1 DEF Linked, Idle
<1> QED BY <1>1, <1>3, <1>4, <1>5, <1>6, <1>7 DEF DInv, DeliveryInv

LEMMA DInvStep == DInv /\ Solo /\ [DNext]_allVars => DInv'
<1> SUFFICES ASSUME DInv, Solo, [DNext]_allVars PROVE DInv'
  OBVIOUS
<1>1. PartitionInv /\ DeliveryInv /\ DTypeOK /\ [AnyNext]_vars
  BY DNextIsAnyNext DEF DInv, DeliveryInv
<1>2. PartitionInv' /\ TypeOK' /\ Linked'
  BY <1>1, PartitionInvStep, LinkedStep DEF PartitionInv, TypeInv
<1>3. DeliveryInv'
  <2>1. CASE Publish
    BY <1>1, <1>2, <2>1, PublishStep
  <2>2. CASE Compaction
    BY <1>1, <1>2, <2>2, CompactionStep
  <2>3. CASE Compacting
    BY <1>1, <1>2, <2>3, CompactingStep
  <2>4. ASSUME NEW p \in Proc, Checking(p) PROVE DeliveryInv'
    BY <1>1, <1>2, <2>4, CheckingStep
  <2>5. ASSUME NEW p \in Proc, Committing(p) PROVE DeliveryInv'
    BY <1>1, <1>2, <2>5, CommitLoadStep, CommitMoveStep DEF Committing, CommitStep
  <2>6. ASSUME NEW c \in Consumer,
               \/ PollOffset(c) \/ PollRead(c) \/ PollRespond(c) \/ PollLost(c)
               \/ AckLost(c) \/ AckDone(c)
        PROVE  DeliveryInv'
    BY <1>1, <2>6, PollActionStep
  <2>7. ASSUME NEW c \in Consumer, NEW p \in Proc, Ack(c, p) PROVE DeliveryInv'
    BY <1>2, <2>7, AckStep
  <2>8. CASE UNCHANGED allVars
    <3>1. UNCHANGED <<vars, clientVars>> /\ UNCHANGED <<removed, appended, commit, offsets, dirty, start>>
      BY <2>8 DEF allVars, vars, logVars, offsetVars, historyVars
    <3>2. /\ Unlocked' <=> Unlocked
          /\ \A g \in Group : Offset(g)' = Offset(g) /\ Position(g)' = Position(g)
      BY <3>1 DEF vars, logVars, offsetVars, rangeVars, historyVars, Unlocked, Offset, Position
    <3>3. CASE Unlocked
      <4>1. appended <= appended'
        BY <1>1, <3>1 DEF DTypeOK, TypeOK
      <4> QED BY <1>1, <1>2, <3>1, <3>2, <3>3, <4>1, ServeStep
    <3>4. CASE ~ Unlocked
      <4>1. Quiet /\ ServerInv'
        BY <1>1, <3>1, <3>2, <3>4 DEF DeliveryInv, ServerInv, Acking, Quiet, clientVars
      <4> QED BY <1>1, <1>2, <3>1, <3>2, <4>1, QuietStep
    <3> QED BY <3>3, <3>4
  <2> QED BY <2>1, <2>2, <2>3, <2>4, <2>5, <2>6, <2>7, <2>8 DEF DNext
<1> QED BY <1>2, <1>3 DEF DInv

LEMMA DInvAlways == ASSUME Solo PROVE DSpec => []DInv
BY DInvInit, DInvStep, PTL DEF DSpec

\* In these deployments no group's offset passes a message that its collector
\* was not given: the offset that HandleConsume looks up a second time is still
\* the one the batch was read from, and so next_offset ends where the batch does.
THEOREM NothingSkippedHolds == ASSUME Solo PROVE DSpec => []NothingSkipped
<1>1. DInv => NothingSkipped
  <2> SUFFICES ASSUME DInv, Unlocked, NEW g \in Group
               PROVE  1..Lesser(removed + Offset(g), appended) \subseteq delivered[g]
    BY DEF NothingSkipped
  <2>1. Position(g) = removed + Offset(g) /\ Position(g) <= appended /\ 1..Position(g) \subseteq delivered[g]
    BY DEF DInv, DeliveryInv, GroupInv, Position
  <2>2. removed \in Nat /\ appended \in Nat /\ Offset(g) \in Nat
    BY OffsetIsNat DEF DInv, DeliveryInv, DTypeOK, TypeOK
  <2>3. Lesser(removed + Offset(g), appended) = removed + Offset(g)
    BY <2>1, <2>2 DEF Lesser
  <2> QED BY <2>1, <2>3
<1> QED BY <1>1, DInvAlways, PTL

\* In these deployments an acknowledgement covers only messages that the
\* collector was given, from the moment it holds the response until it sends it,
\* although offsets are relative to a log whose head Compact removes.
THEOREM AckMatchesBatchHolds == ASSUME Solo PROVE DSpec => []AckMatchesBatch
<1>1. DInv => AckMatchesBatch
  BY DEF DInv, DeliveryInv, PollInv, PollOK, Earned, AckMatchesBatch
<1> QED BY <1>1, DInvAlways, PTL

\* In these deployments Compact deletes a message only after every group has
\* been given it.
THEOREM DeletedWereConsumedHolds == ASSUME Solo PROVE DSpec => []DeletedWereConsumed
<1>1. DInv => DeletedWereConsumed
  <2> SUFFICES ASSUME DInv, NEW g \in Group PROVE 1..removed \subseteq delivered[g]
    BY DEF DInv, DeliveryInv, DTypeOK, DeletedWereConsumed
  <2>1. /\ DeliveryInv /\ TrackInv /\ removed \in Nat /\ start[g] \in Nat \cup {Unknown}
        /\ Offset(g) \in Nat /\ 1..Position(g) \subseteq delivered[g]
    BY OffsetIsNat DEF DInv, PartitionInv, DeliveryInv, GroupInv, DTypeOK, TypeOK
  <2>2. CASE Unlocked
    BY <2>1, <2>2 DEF Position
  <2>3. CASE ~ Unlocked
    <3>1. g \in Clean /\ Position(g) = start[g] /\ start[g] \in Nat
      BY <2>1, <2>3 DEF DeliveryInv, ServerInv, Clean, Position
    <3>2. Scanning \/ Shifting
      BY <2>1, <2>3 DEF DeliveryInv, DTypeOK, TypeOK, Scanning, Shifting, Unlocked
    <3>3. removed <= start[g]
      BY <2>1, <3>1, <3>2 DEF TrackInv, ScanInv, ShiftInv
    <3> QED BY <2>1, <3>1, <3>3
  <2> QED BY <2>2, <2>3
<1> QED BY <1>1, DInvAlways, PTL

\* In these deployments a committed offset never lies beyond the log when
\* Compact is not at work: Compact shifts it by as much as it cuts, and no
\* commit stores an offset that was checked against a longer log.
THEOREM SoloCommittedInRangeHolds == ASSUME Solo PROVE DSpec => []CommittedInRange
<1>1. DInv => CommittedInRange
  <2> SUFFICES ASSUME DInv, Unlocked, NEW g \in Group
               PROVE  0 <= Offset(g) /\ Offset(g) <= TailOffset
    BY DEF CommittedInRange
  <2>1. removed + Offset(g) <= appended /\ removed + Len(messages) = appended
    BY DEF DInv, DeliveryInv, GroupInv, Position, PartitionInv, LogIntegrity
  <2>2. messages \in Seq(Nat) /\ removed \in Nat /\ appended \in Nat /\ Offset(g) \in Nat
    BY OffsetIsNat DEF DInv, DeliveryInv, DTypeOK, TypeOK
  <2>3. Len(messages) \in Nat
    BY <2>2, LenProperties
  <2> QED BY <2>1, <2>2, <2>3 DEF TailOffset
<1> QED BY <1>1, DInvAlways, PTL

-----------------------------------------------------------------------------
(* The promise.                                                            *)

\* A response gives the group the messages that follow its position.
LEMMA RespondDelivers ==
  ASSUME DInv, NEW c \in Consumer, PollRespond(c)
  PROVE  Promise!Deliver(GroupOf[c])
<1> DEFINE g == GroupOf[c]
           m == poll[c].msgs
           o == removed + Offset(g)
<1>1. /\ DeliveryInv /\ DTypeOK /\ TypeOK /\ g \in Group /\ poll[c].pc = "respond"
      /\ UNCHANGED vars
      /\ delivered' = [delivered EXCEPT ![g] = @ \cup {m[i] : i \in DOMAIN m}]
  BY DeliveryAssumption DEF DInv, DeliveryInv, DTypeOK, PollRespond
<1>2. /\ m \in Seq(Nat) /\ Len(m) \in Nat /\ DOMAIN m = 1..Len(m)
      /\ o \in Nat /\ appended \in Nat
  BY <1>1, PollShape, OffsetIsNat, LenProperties DEF TypeOK
<1>3. /\ o + Len(m) <= appended /\ \A i \in DOMAIN m : m[i] = o + i
      /\ Unlocked
  BY <1>1, BusyIsUnlocked DEF DeliveryInv, PollInv, PollOK, NoPoll
<1>4. /\ UNCHANGED <<appended, removed, offsets, counter, cpc, start>>
      /\ Position(g) = o
      /\ [h \in Group |-> Position(h)]' = [h \in Group |-> Position(h)]
  BY <1>1, <1>3 DEF vars, logVars, offsetVars, rangeVars, historyVars, Position, Offset, Unlocked
<1> HIDE DEF m, o
<1>5. {m[i] : i \in DOMAIN m} = (o + 1)..(o + Len(m))
  <2>1. ASSUME NEW k \in (o + 1)..(o + Len(m)) PROVE \E i \in DOMAIN m : m[i] = k
    <3>1. k - o \in DOMAIN m /\ o + (k - o) = k
      BY <1>2
    <3> QED BY <1>3, <3>1
  <2>2. ASSUME NEW i \in DOMAIN m PROVE m[i] \in (o + 1)..(o + Len(m))
    <3>1. m[i] = o + i
      BY <1>3
    <3> QED BY <1>2, <3>1
  <2> QED BY <2>1, <2>2
<1>6. o + Len(m) \in o..appended
  BY <1>2, <1>3
<1>7. [h \in Group |-> Position(h)][g] = o
  BY <1>1, <1>4
<1>8. delivered' = [delivered EXCEPT ![g] = @ \cup ((o + 1)..(o + Len(m)))]
  BY <1>1, <1>5 DEF m
<1> QED BY <1>4, <1>6, <1>7, <1>8 DEF Promise!Deliver

\* A Commit that takes effect acknowledges messages that were given.
LEMMA CommitAcknowledges ==
  ASSUME DInv, Solo, TypeOK', UNCHANGED clientVars,
         NEW p \in Proc, CommitStore(p) \/ CommitRegister(p),
         NEW g \in Group, NEW off, commit[p].group = g, commit[p].offset = off
  PROVE  Promise!Acknowledge(g)
<1>1. /\ Earned(g, off)
      /\ Position(g)' = removed + off
      /\ \A h \in Group \ {g} : Position(h)' = Position(h)
      /\ appended' = appended /\ delivered' = delivered
  BY CommitMoveStep DEF clientVars
<1> DEFINE pos == [h \in Group |-> Position(h)]
<1>2. pos' = [pos EXCEPT ![g] = removed + off] /\ pos[g] = Position(g)
  BY <1>1
<1>3. Position(g) \in Nat /\ removed \in Nat /\ appended \in Nat
  <2>1. /\ removed \in Nat /\ appended \in Nat /\ Offset(g) \in Nat
        /\ start \in [Group -> Nat \cup {Unknown}]
    BY OffsetIsNat DEF DInv, DeliveryInv, DTypeOK, TypeOK
  <2>2. ~ Unlocked => start[g] # Unknown
    BY DEF DInv, DeliveryInv, ServerInv
  <2> QED BY <2>1, <2>2 DEF Position
<1>4. removed + off \in pos[g]..appended /\ 1..(removed + off) \subseteq delivered[g]
  BY <1>1, <1>2, <1>3 DEF Earned
<1> QED BY <1>1, <1>2, <1>4 DEF Promise!Acknowledge

LEMMA PromiseStep ==
  DInv /\ Solo /\ [DNext]_allVars =>
    [Promise!Next]_<<appended, delivered, [g \in Group |-> Position(g)]>>
<1> DEFINE pos == [g \in Group |-> Position(g)]
<1> SUFFICES ASSUME DInv, Solo, [DNext]_allVars
             PROVE  Promise!Next \/ UNCHANGED <<appended, delivered, pos>>
  OBVIOUS
<1>1. PartitionInv /\ DeliveryInv /\ DTypeOK /\ TypeOK /\ [AnyNext]_vars
  BY DNextIsAnyNext DEF DInv, DeliveryInv, DTypeOK
<1>2. TypeOK'
  BY <1>1, PartitionInvStep DEF PartitionInv, TypeInv
<1>3. (\A g \in Group : Position(g)' = Position(g)) => pos' = pos
  OBVIOUS
<1>4. UNCHANGED vars => UNCHANGED <<appended, pos>>
  BY DEF vars, logVars, offsetVars, rangeVars, historyVars, Position, Offset, Unlocked
<1> HIDE DEF pos
<1>5. CASE Publish
  <2>1. UNCHANGED delivered /\ appended' = appended + 1 /\ pos' = pos
    BY <1>1, <1>2, <1>3, <1>5, PublishStep DEF Publish, AppendMessage, clientVars
  <2> QED BY <2>1 DEF Promise!Next, Promise!Publish, pos
<1>6. CASE Compaction
  BY <1>1, <1>2, <1>3, <1>6, CompactionStep
<1>7. CASE Compacting
  BY <1>1, <1>2, <1>3, <1>7, CompactingStep
<1>8. ASSUME NEW p \in Proc, Checking(p) PROVE UNCHANGED <<appended, delivered, pos>>
  BY <1>1, <1>2, <1>3, <1>8, CheckingStep DEF Checking, CommitCheck, clientVars, logVars
<1>9. ASSUME NEW p \in Proc, Committing(p) PROVE Promise!Next \/ UNCHANGED <<appended, delivered, pos>>
  <2>1. UNCHANGED clientVars
    BY <1>9 DEF Committing
  <2>2. CASE CommitLoad(p)
    BY <1>1, <1>2, <1>3, <2>1, <2>2, CommitLoadStep DEF CommitLoad, clientVars, logVars
  <2>3. CASE CommitStore(p) \/ CommitRegister(p)
    <3>1. commit[p].group \in Group
      BY <1>1, <2>3, CommitShape DEF CommitStore, CommitRegister, Idle
    <3>2. Promise!Acknowledge(commit[p].group)
      BY <1>2, <2>1, <2>3, <3>1, CommitAcknowledges
    <3> QED BY <3>1, <3>2 DEF Promise!Next
  <2> QED BY <1>9, <2>2, <2>3 DEF Committing, CommitStep
<1>10. ASSUME NEW c \in Consumer, PollRespond(c) PROVE Promise!Next
  <2>1. GroupOf[c] \in Group /\ Promise!Deliver(GroupOf[c])
    BY <1>10, RespondDelivers, DeliveryAssumption
  <2> QED BY <2>1 DEF Promise!Next
<1>11. ASSUME NEW c \in Consumer,
              PollOffset(c) \/ PollRead(c) \/ PollLost(c) \/ AckLost(c) \/ AckDone(c)
       PROVE  UNCHANGED <<appended, delivered, pos>>
  BY <1>4, <1>11 DEF PollOffset, PollRead, PollLost, AckLost, AckDone
<1>12. ASSUME NEW c \in Consumer, NEW p \in Proc, Ack(c, p) PROVE UNCHANGED <<appended, delivered, pos>>
  BY <1>2, <1>3, <1>12, AckStep
<1>13. CASE UNCHANGED allVars
  BY <1>4, <1>13 DEF allVars, clientVars
<1> QED BY <1>5, <1>6, <1>7, <1>8, <1>9, <1>10, <1>11, <1>12, <1>13 DEF DNext

\* In these deployments the broker, its requests and its collectors implement
\* AtLeastOnce: each group is given the messages in order from its position on,
\* and its position never goes back and never passes a message not yet given.
THEOREM ImplementsAtLeastOnce == ASSUME Solo PROVE DSpec => AtLeastOnceSpec
<1>1. DInit => Promise!Init
  BY DEF DInit, Init, Promise!Init, Position, Offset, Unlocked
<1> QED BY <1>1, DInvInit, DInvStep, PromiseStep, PTL DEF DSpec, AtLeastOnceSpec, Promise!Spec
=============================================================================
