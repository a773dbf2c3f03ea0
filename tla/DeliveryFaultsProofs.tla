------------------------ MODULE DeliveryFaultsProofs ------------------------
(***************************************************************************)
(* Theorems about module DeliveryFaults: whatever restarts, however many   *)
(* collectors share a group and whenever Compact runs, a group that met    *)
(* none of the causes that misled records is given its messages at least   *)
(* once and in order, for any number of groups, collectors, messages,      *)
(* batch sizes and server goroutines.                                      *)
(***************************************************************************)
EXTENDS DeliveryFaults, DeliveryProofs

\* A server goroutine that a collector waits for commits for its group and for
\* it alone.
AckInv ==
  /\ \A p \in Proc, c \in Consumer : Acking(c, p) /\ commit[p] # Idle => commit[p].group = GroupOf[c]
  /\ \A p \in Proc, c, d \in Consumer : Acking(c, p) /\ Acking(d, p) => c = d

\* State s is right for a collector of group g: what it holds is what follows
\* the position of g, and what it is to acknowledge is earned.
Fits(g, s) ==
  /\ s.pc = "read" => s.start = Offset(g)
  /\ s.pc = "respond" =>
       /\ removed + Offset(g) + Len(s.msgs) <= appended
       /\ \A i \in DOMAIN s.msgs : s.msgs[i] = removed + Offset(g) + i
  /\ s.pc = "got" => Earned(g, s.next)

\* State s is right for a Commit, if it is one for group g.
Commits(g, s) ==
  s # Idle /\ s.group = g =>
    /\ Earned(g, s.offset)
    /\ s.pc = "store" => s.cell = offsets[g]

\* Group g has one request at a time, and none while Compact is at work.
Calm(g) ==
  /\ \A r, s \in Requests(g) : r = s
  /\ Unlocked \/ Requests(g) = {}

\* Compact knows where g is, or deletes nothing if g is not in the map.
Tracked(g) ==
  /\ g \notin dirty
  /\ ~ Unlocked /\ start[g] = Unknown => offsets[g] = 0 /\ ~ Shifting

Reached(g) == Place(g) <= appended /\ 1..Place(g) \subseteq delivered[g]

Good(g) ==
  /\ Calm(g)
  /\ \A c \in Consumer : GroupOf[c] = g => Fits(g, poll[c])
  /\ \A p \in Proc : Commits(g, commit[p])
  /\ Tracked(g)
  /\ Reached(g)

BaseInv == PartitionInv /\ DTypeOK /\ AckInv /\ misled \subseteq Group

\* Any group is good that met no cause to be misled.
RInv == BaseInv /\ \A g \in Group \ misled : Good(g)

\* Fits and Commits in the next state, for a state s of this one.
FitsNext(g, s) ==
  /\ s.pc = "read" => s.start = Offset(g)'
  /\ s.pc = "respond" =>
       /\ removed' + Offset(g)' + Len(s.msgs) <= appended'
       /\ \A i \in DOMAIN s.msgs : s.msgs[i] = removed' + Offset(g)' + i
  /\ s.pc = "got" => EarnedNext(g, s.next)
CommitsNext(g, s) ==
  s # Idle /\ s.group = g =>
    /\ EarnedNext(g, s.offset)
    /\ s.pc = "store" => s.cell = offsets'[g]

LEMMA GoodNext ==
  ASSUME NEW g \in Group, Calm(g)', Tracked(g)', Reached(g)',
         \A c \in Consumer : GroupOf[c] = g => FitsNext(g, poll'[c]),
         \A p \in Proc : CommitsNext(g, commit'[p])
  PROVE  Good(g)'
BY DEF Good, Fits, Commits, FitsNext, CommitsNext, Earned, EarnedNext

-----------------------------------------------------------------------------
(* The requests of a group.                                                *)

\* A group without requests has no collector that polls and no Commit.
Silent(g) ==
  /\ \A c \in Consumer : GroupOf[c] = g => poll[c] = NoPoll
  /\ \A p \in Proc : commit[p] # Idle => commit[p].group # g

LEMMA NoRequests == AckInv => \A g \in Group : Requests(g) = {} => Silent(g)
<1> SUFFICES ASSUME AckInv, NEW g \in Group, Requests(g) = {} PROVE Silent(g)
  OBVIOUS
<1>1. Polling(g) = {} /\ Orphans(g) = {}
  <2>1. /\ \A c \in Polling(g) : <<"poll", c>> \in {"poll"} \X Polling(g)
        /\ \A p \in Orphans(g) : <<"ack", p>> \in {"ack"} \X Orphans(g)
    OBVIOUS
  <2> QED BY <2>1 DEF Requests
<1>2. \A c \in Consumer : GroupOf[c] = g => poll[c] = NoPoll
  BY <1>1 DEF Polling
<1>3. ASSUME NEW p \in Proc, commit[p] # Idle, commit[p].group = g PROVE FALSE
  <2>1. PICK c \in Consumer : Acking(c, p)
    BY <1>1, <1>3 DEF Orphans
  <2>2. GroupOf[c] = g
    BY <1>3, <2>1 DEF AckInv
  <2> QED BY <1>2, <2>1, <2>2 DEF Acking, NoPoll
<1> QED BY <1>2, <1>3 DEF Silent

LEMMA NoRequestsNext == (AckInv => \A g \in Group : Requests(g) = {} => Silent(g))'
BY NoRequests, PTL

\* A Commit of a group with one request is alone: only its collector, if it
\* still waits, is not idle.
LEMMA CommitIsAlone ==
  ASSUME AckInv, NEW g \in Group, Calm(g), NEW p \in Proc, commit[p] # Idle, commit[p].group = g
  PROVE  /\ Unlocked
         /\ \A c \in Consumer : GroupOf[c] = g => poll[c] = NoPoll \/ Acking(c, p)
         /\ \A q \in Proc \ {p} : commit[q] # Idle => commit[q].group # g
<1>1. /\ \A c \in Polling(g) : <<"poll", c>> \in Requests(g)
      /\ \A q \in Orphans(g) : <<"ack", q>> \in Requests(g)
      /\ \A r, s \in Requests(g) : r = s
  BY DEF Requests, Calm
<1>2. /\ \A c, d \in Polling(g) : c = d
      /\ \A q, r \in Orphans(g) : q = r
      /\ \A c \in Polling(g), q \in Orphans(g) : FALSE
  BY <1>1
<1>3. ASSUME NEW q \in Proc, commit[q] # Idle, commit[q].group = g
      PROVE  q \in Orphans(g) \/ \E c \in Polling(g) : Acking(c, q)
  BY <1>3 DEF AckInv, Orphans, Polling, Acking, NoPoll
<1>4. Unlocked
  BY <1>1, <1>3 DEF Calm
<1>5. ASSUME NEW c \in Consumer, GroupOf[c] = g PROVE poll[c] = NoPoll \/ Acking(c, p)
  BY <1>2, <1>3, <1>5 DEF Polling
<1>6. ASSUME NEW q \in Proc \ {p}, commit[q] # Idle, commit[q].group = g PROVE FALSE
  <2>1. CASE q \in Orphans(g)
    BY <1>2, <1>3, <2>1
  <2>2. CASE \E c \in Polling(g) : Acking(c, q)
    <3>1. PICK c \in Polling(g) : Acking(c, q)
      BY <2>2
    <3>2. Acking(c, p)
      BY <1>2, <1>3, <3>1
    <3> QED BY <3>1, <3>2 DEF Acking
  <2> QED BY <1>3, <1>6, <2>1, <2>2
<1> QED BY <1>4, <1>5, <1>6

\* What Record leaves out of misled: the groups that stay calm.
LEMMA RecordCalm ==
  ASSUME Record, NEW g \in Group, g \notin misled'
  PROVE  /\ g \notin misled
         /\ Calm(g)'
         /\ Requests(g)' = {} \/ (Unlocked /\ Unlocked')
         /\ removed' = removed \/ g \in Registered
BY DEF Record, Overlapping, InFlight, Calm

-----------------------------------------------------------------------------
(* Steps that leave a group where it is.                                   *)

LEMMA EarnedStays ==
  ASSUME TypeOK, TypeOK', NEW g \in Group, NEW off, Earned(g, off), Unlocked, Unlocked',
         removed' = removed, Offset(g)' = Offset(g), appended <= appended',
         delivered[g] \subseteq delivered'[g]
  PROVE  EarnedNext(g, off)
<1>1. removed \in Nat /\ appended \in Nat /\ appended' \in Nat /\ off \in Nat
  BY DEF TypeOK, Earned
<1>2. removed + off <= appended'
  BY <1>1 DEF Earned
<1> QED BY <1>2 DEF Earned, EarnedNext, Position

LEMMA FitsStays ==
  ASSUME DTypeOK, TypeOK', NEW c \in Consumer, NEW g \in Group, GroupOf[c] = g,
         Fits(g, poll[c]), Unlocked, Unlocked',
         removed' = removed, Offset(g)' = Offset(g), appended <= appended',
         delivered[g] \subseteq delivered'[g]
  PROVE  FitsNext(g, poll[c])
<1>1. TypeOK
  BY DEF DTypeOK
<1>2. poll[c].pc = "got" => EarnedNext(g, poll[c].next)
  BY <1>1, EarnedStays DEF Fits
<1>3. ASSUME poll[c].pc = "respond" PROVE removed + Offset(g) + Len(poll[c].msgs) <= appended'
  <2>1. Len(poll[c].msgs) \in Nat
    BY <1>3, PollShape, LenProperties
  <2>2. removed \in Nat /\ appended \in Nat /\ appended' \in Nat /\ Offset(g) \in Nat
    BY <1>1, OffsetIsNat DEF TypeOK
  <2>3. removed + Offset(g) + Len(poll[c].msgs) <= appended
    BY <1>3 DEF Fits
  <2> QED BY <2>1, <2>2, <2>3
<1> QED BY <1>2, <1>3 DEF Fits, FitsNext

LEMMA Still ==
  ASSUME DTypeOK, TypeOK', NEW g \in Group, Tracked(g), Reached(g),
         UNCHANGED <<cpc, start, removed>>, offsets'[g] = offsets[g], Offset(g)' = Offset(g),
         g \in dirty' => g \in dirty, appended <= appended', delivered[g] \subseteq delivered'[g]
  PROVE  Tracked(g)' /\ Reached(g)' /\ Place(g)' = Place(g)
<1>1. (Unlocked' <=> Unlocked) /\ (Shifting' <=> Shifting)
  BY DEF Unlocked, Shifting
<1>2. Place(g)' = Place(g)
  BY <1>1 DEF Place
<1>3. Tracked(g)'
  BY <1>1 DEF Tracked
<1>4. Place(g) \in Int /\ appended \in Nat /\ appended' \in Nat
  <2>1. /\ removed \in Nat /\ appended \in Nat /\ appended' \in Nat
        /\ start \in [Group -> Nat \cup {Unknown}]
    BY DEF DTypeOK, TypeOK
  <2>2. Offset(g) \in Nat
    BY OffsetIsNat DEF DTypeOK
  <2>3. start[g] \in Int /\ removed + Offset(g) \in Int
    BY <2>1, <2>2 DEF Unknown
  <2> QED BY <2>1, <2>3 DEF Place
<1>5. Reached(g)'
  BY <1>2, <1>4 DEF Reached
<1> QED BY <1>2, <1>3, <1>5

LEMMA StillGood ==
  ASSUME BaseInv, BaseInv', NEW g \in Group, Good(g), Calm(g)',
         UNCHANGED <<cpc, start, removed>>, offsets'[g] = offsets[g], Offset(g)' = Offset(g),
         g \in dirty' => g \in dirty, appended <= appended', delivered[g] \subseteq delivered'[g],
         \A c \in Consumer : GroupOf[c] = g =>
           poll'[c] = poll[c] \/ (Unlocked => FitsNext(g, poll'[c])),
         \A p \in Proc : commit'[p] = commit[p] \/ (Unlocked => CommitsNext(g, commit'[p]))
  PROVE  Good(g)' /\ Place(g)' = Place(g)
<1>1. DTypeOK /\ TypeOK /\ TypeOK' /\ AckInv' /\ (Unlocked' <=> Unlocked)
  BY DEF BaseInv, DTypeOK, Unlocked
<1>2. Tracked(g)' /\ Reached(g)' /\ Place(g)' = Place(g)
  BY <1>1, Still DEF Good
<1>3. CASE Unlocked
  <2>1. ASSUME NEW c \in Consumer, GroupOf[c] = g PROVE FitsNext(g, poll'[c])
    BY <1>1, <1>3, <2>1, FitsStays DEF Good
  <2>2. ASSUME NEW p \in Proc PROVE CommitsNext(g, commit'[p])
    <3>1. CASE commit'[p] = commit[p]
      <4>1. Commits(g, commit[p])
        BY DEF Good
      <4> QED BY <1>1, <1>3, <3>1, <4>1, EarnedStays DEF Commits, CommitsNext
    <3> QED BY <1>3, <3>1
  <2> QED BY <1>2, <2>1, <2>2, GoodNext
<1>4. CASE ~ Unlocked
  <2>1. Requests(g)' = {}
    BY <1>1, <1>4 DEF Calm
  <2>2. /\ \A c \in Consumer : GroupOf[c] = g => poll'[c] = NoPoll
        /\ \A p \in Proc : commit'[p] # Idle => commit'[p].group # g
    BY <1>1, <2>1, NoRequestsNext DEF Silent
  <2> QED BY <1>2, <2>2, GoodNext DEF FitsNext, CommitsNext, NoPoll
<1> QED BY <1>2, <1>3, <1>4

-----------------------------------------------------------------------------
(* Types, and which Commit a collector waits for.                          *)

\* A Commit keeps its group until it ends.
LEMMA CommitKeepsGroup ==
  ASSUME TypeOK, NEW p \in Proc, CommitCheck(p) \/ CommitStep(p)
  PROVE  /\ \A q \in Proc \ {p} : commit'[q] = commit[q]
         /\ commit[p] # Idle
         /\ commit'[p] # Idle => /\ commit'[p].group = commit[p].group
                                 /\ commit'[p].offset = commit[p].offset
<1>1. DOMAIN commit = Proc
  BY DEF TypeOK
<1>2. CASE CommitCheck(p)
  <2> DEFINE s == commit[p]
             v == [pc |-> "load", group |-> s.group, offset |-> s.offset]
  <2>1. [s EXCEPT !.pc = "load"] = v
    <3>1. s = [pc |-> "check", group |-> s.group, offset |-> s.offset]
      BY <1>2, CommitShape DEF CommitCheck
    <3> QED BY <3>1
  <2>2. commit' = [commit EXCEPT ![p] = IF InRange(s.offset) THEN v ELSE Idle]
    BY <1>2, <2>1 DEF CommitCheck
  <2> QED BY <1>1, <1>2, <2>2 DEF CommitCheck, Idle
<1>3. CASE CommitStep(p)
  BY <1>1, <1>3 DEF CommitStep, CommitLoad, CommitStore, CommitRegister, Idle
<1> QED BY <1>2, <1>3

LEMMA AckInvStep ==
  ASSUME DTypeOK, AckInv, [DNext]_allVars
  PROVE  AckInv'
<1>1. /\ TypeOK /\ DOMAIN commit = Proc /\ DOMAIN poll = Consumer
  BY DEF DTypeOK, TypeOK
<1>2. ASSUME NEW c \in Consumer, NEW p \in Proc, Ack(c, p) PROVE AckInv'
  <2> DEFINE w == [pc |-> "check", group |-> GroupOf[c], offset |-> poll[c].next]
  <2>1. /\ \A d \in Consumer : ~ Acking(d, p)
        /\ commit' = [commit EXCEPT ![p] = w]
        /\ poll' = [poll EXCEPT ![c] = [pc |-> "acking", via |-> p]]
    BY <1>2 DEF Ack, Free, CommitCall
  <2>2. \A d \in Consumer, q \in Proc : Acking(d, q)' <=> (d = c /\ q = p) \/ (d # c /\ Acking(d, q))
    BY <1>1, <2>1 DEF Acking
  <2>3. commit'[p] = w /\ \A q \in Proc \ {p} : commit'[q] = commit[q]
    BY <1>1, <2>1
  <2> QED BY <2>1, <2>2, <2>3 DEF AckInv
<1>3. ASSUME NEW p \in Proc, Checking(p) \/ Committing(p) PROVE AckInv'
  <2>1. UNCHANGED poll /\ (CommitCheck(p) \/ CommitStep(p))
    BY <1>3 DEF Checking, Committing, clientVars
  <2>2. \A q \in Proc : commit'[q] # Idle => commit[q] # Idle /\ commit'[q].group = commit[q].group
    BY <1>1, <2>1, CommitKeepsGroup
  <2> QED BY <2>1, <2>2 DEF AckInv, Acking
<1>4. ASSUME NEW c \in Consumer,
             \/ PollOffset(c) \/ PollRead(c) \/ PollRespond(c) \/ PollLost(c)
             \/ AckLost(c) \/ AckDone(c)
      PROVE  AckInv'
  <2>1. UNCHANGED commit
    BY <1>4 DEF PollOffset, PollRead, PollRespond, PollLost, AckLost, AckDone, vars
  <2>2. PICK v : poll' = [poll EXCEPT ![c] = v] /\ v.pc # "acking"
    BY <1>4 DEF PollOffset, PollRead, PollRespond, PollLost, AckLost, AckDone, NoPoll
  <2>3. \A d \in Consumer, q \in Proc : Acking(d, q)' => Acking(d, q)
    BY <1>1, <2>2 DEF Acking
  <2> QED BY <2>1, <2>3 DEF AckInv
<1>5. CASE UNCHANGED <<poll, commit>>
  BY <1>5 DEF AckInv, Acking
<1>6. Publish \/ Compaction \/ Compacting => UNCHANGED <<poll, commit>>
  BY CompactStepShape DEF Publish, Compaction, Compacting, clientVars, AppendMessage, CompactLock
<1> QED BY <1>2, <1>3, <1>4, <1>5, <1>6 DEF DNext, allVars, clientVars, vars

LEMMA BaseInvInit == RInit => BaseInv
BY DTypeInit DEF RInit, BaseInv, AckInv, Acking, DInit, NoPoll

LEMMA NewPartitionInit == NewPartition => Init'
BY DEF NewPartition, Init

LEMMA NewPartitionInv == NewPartition => PartitionInv'
<1>1. (Init => PartitionInv)'
  BY PartitionInvInit, PTL
<1> QED BY <1>1, NewPartitionInit

LEMMA ServerRestartStep ==
  ASSUME DTypeOK, ServerRestart
  PROVE  /\ BaseInv'
         /\ \A c \in Consumer : poll'[c] = NoPoll \/ (poll'[c].pc = "got" /\ GroupOf[c] \in misled')
<1>1. PartitionInv' /\ TypeOK'
  BY NewPartitionInv DEF ServerRestart, PartitionInv, TypeInv
<1>2. \A c \in Consumer : poll'[c] = IF poll[c].pc = "got" THEN poll[c] ELSE NoPoll
  BY DEF ServerRestart
<1>3. DTypeOK'
  <2>1. poll' = [c \in Consumer |-> IF poll[c].pc = "got" THEN poll[c] ELSE NoPoll]
    BY DEF ServerRestart
  <2>2. poll' \in [Consumer -> PollState]
    BY <2>1 DEF DTypeOK, PollState
  <2>3. delivered' = [g \in Group |-> {}] /\ polled' = {}
    BY DEF ServerRestart, NewPartition
  <2> QED BY <1>1, <2>2, <2>3 DEF DTypeOK, PollState
<1>4. AckInv'
  BY <1>2 DEF AckInv, Acking, NoPoll
<1>5. /\ misled' \subseteq Group
      /\ \A c \in Consumer : poll[c].pc = "got" => GroupOf[c] \in misled'
  BY DeliveryAssumption DEF ServerRestart
<1> QED BY <1>1, <1>2, <1>3, <1>4, <1>5 DEF BaseInv

LEMMA BaseInvStep == BaseInv /\ [RNext]_restartVars => BaseInv'
<1> SUFFICES ASSUME BaseInv, [RNext]_restartVars PROVE BaseInv'
  OBVIOUS
<1>1. CASE DNext /\ Record
  <2>1. PartitionInv' /\ DTypeOK' /\ AckInv'
    BY <1>1, DTypeStep, AckInvStep DEF BaseInv
  <2>2. misled' \subseteq Group
    BY <1>1 DEF BaseInv, Record, Overlapping, InFlight
  <2> QED BY <2>1, <2>2 DEF BaseInv
<1>2. ASSUME NEW c \in Consumer, CollectorRestart(c) PROVE BaseInv'
  <2>1. UNCHANGED vars /\ UNCHANGED <<delivered, polled>> /\ Record
        /\ poll' = [poll EXCEPT ![c] = NoPoll]
    BY <1>2 DEF CollectorRestart
  <2>2. PartitionInv'
    BY <2>1, PartitionInvStep DEF BaseInv
  <2>3. DTypeOK'
    BY <2>1, <2>2 DEF BaseInv, PartitionInv, TypeInv, DTypeOK, PollState, vars
  <2>4. AckInv'
    BY <2>1 DEF BaseInv, DTypeOK, AckInv, Acking, NoPoll, vars
  <2>5. misled' \subseteq Group
    BY <2>1 DEF BaseInv, Record, Overlapping, InFlight
  <2> QED BY <2>2, <2>3, <2>4, <2>5 DEF BaseInv
<1>3. CASE ServerRestart
  BY <1>3, ServerRestartStep DEF BaseInv
<1>4. CASE UNCHANGED restartVars
  <2>1. UNCHANGED allVars /\ UNCHANGED misled
    BY <1>4 DEF restartVars
  <2>2. PartitionInv' /\ DTypeOK' /\ AckInv'
    BY <2>1, DTypeStep, AckInvStep DEF BaseInv
  <2> QED BY <2>1, <2>2 DEF BaseInv
<1> QED BY <1>1, <1>2, <1>3, <1>4 DEF RNext

\* Every reachable state is well typed also when processes restart: a collector
\* that acknowledges a batch of the old log to a new one passes no negative
\* offset, and no Commit is left pointing to a counter of the old partition.
THEOREM RestartTypeCorrect == RSpec => []DTypeOK
<1>1. BaseInv => DTypeOK
  BY DEF BaseInv
<1> QED BY <1>1, BaseInvInit, BaseInvStep, PTL DEF RSpec

\* Nor does a restart, at any point of an append, an ack or a compaction, leave
\* a log that lacks a message, or a compaction that deletes what a group of its
\* map has still to read.
THEOREM RestartKeepsLog == RSpec => []LogIntegrity /\ []WatermarkRespected
<1>1. BaseInv => LogIntegrity /\ WatermarkRespected
  BY TrackedWatermark DEF BaseInv, PartitionInv
<1> QED BY <1>1, BaseInvInit, BaseInvStep, PTL DEF RSpec

-----------------------------------------------------------------------------
(* Steps of the collectors.                                                *)

\* Collector c goes to a state that is right for its group.
LEMMA PollGood ==
  ASSUME BaseInv, BaseInv', NEW g \in Group, Good(g), Calm(g)', NEW c \in Consumer, NEW v,
         poll' = [poll EXCEPT ![c] = v], UNCHANGED vars, delivered[g] \subseteq delivered'[g],
         GroupOf[c] = g /\ Unlocked => FitsNext(g, v)
  PROVE  Good(g)' /\ Place(g)' = Place(g)
<1>1. /\ UNCHANGED <<cpc, start, removed, appended, offsets, counter, dirty, commit>>
      /\ Offset(g)' = Offset(g) /\ appended \in Nat
  BY DEF vars, logVars, offsetVars, rangeVars, historyVars, Offset, BaseInv, DTypeOK, TypeOK
<1>2. appended <= appended'
  BY <1>1
<1>3. \A d \in Consumer : poll'[d] = poll[d] \/ (d = c /\ poll'[d] = v)
  BY DEF BaseInv, DTypeOK
<1> QED BY <1>1, <1>2, <1>3, StillGood

LEMMA PollReadFits ==
  ASSUME BaseInv, NEW c \in Consumer, PollRead(c), Fits(GroupOf[c], poll[c])
  PROVE  \E v : poll' = [poll EXCEPT ![c] = v] /\ FitsNext(GroupOf[c], v)
<1> DEFINE g == GroupOf[c]
<1>1. /\ PartitionInv /\ TypeOK /\ g \in Group /\ Offset(g) \in Nat
  BY PollShape, OffsetIsNat DEF BaseInv, DTypeOK
<1>2. /\ poll[c].start = Offset(g)
      /\ UNCHANGED <<removed, appended>> /\ Offset(g)' = Offset(g)
  BY DEF PollRead, Fits, vars, logVars, offsetVars, Offset
<1>3. CASE ~ InRange(poll[c].start)
  <2>1. poll' = [poll EXCEPT ![c] = NoPoll] /\ FitsNext(g, NoPoll)
    BY <1>3 DEF PollRead, FitsNext, NoPoll
  <2> QED BY <2>1
<1>4. CASE InRange(poll[c].start)
  <2> DEFINE r == ReadFrom(Offset(g), Batch)
  <2>1. poll' = [poll EXCEPT ![c] = [pc |-> "respond", msgs |-> r]]
    BY <1>2, <1>4 DEF PollRead
  <2>2. /\ removed + Offset(g) + Len(r) <= appended
        /\ \A i \in DOMAIN r : r[i] = removed + Offset(g) + i
    BY <1>1, <1>2, <1>4, ReadFromIsNext DEF PartitionInv
  <2> HIDE DEF r
  <2>3. FitsNext(g, [pc |-> "respond", msgs |-> r])
    BY <1>2, <2>2 DEF FitsNext
  <2> QED BY <2>1, <2>3
<1> QED BY <1>3, <1>4

LEMMA PollRespondFits ==
  ASSUME BaseInv, NEW c \in Consumer, PollRespond(c), Good(GroupOf[c]), Unlocked
  PROVE  \E v : poll' = [poll EXCEPT ![c] = v] /\ FitsNext(GroupOf[c], v)
<1> DEFINE g == GroupOf[c]
           m == poll[c].msgs
           o == removed + Offset(g)
           n == Offset(g) + Len(m)
<1>1. /\ g \in Group /\ Offset(g) \in Nat /\ removed \in Nat /\ appended \in Nat
      /\ m \in Seq(Nat) /\ Len(m) \in Nat /\ DOMAIN m = 1..Len(m)
      /\ delivered \in [Group -> SUBSET Nat]
  BY PollShape, OffsetIsNat, LenProperties DEF BaseInv, DTypeOK, TypeOK, PollRespond
<1>2. /\ poll' = [poll EXCEPT ![c] = IF m = <<>> THEN NoPoll ELSE [pc |-> "got", next |-> n]]
      /\ delivered'[g] = delivered[g] \cup {m[i] : i \in DOMAIN m}
      /\ UNCHANGED <<removed, appended, cpc>> /\ Offset(g)' = Offset(g)
  BY <1>1 DEF PollRespond, NextOffset, vars, logVars, offsetVars, rangeVars, Offset
<1>3. /\ o + Len(m) <= appended /\ \A i \in DOMAIN m : m[i] = o + i
      /\ 1..o \subseteq delivered[g]
  BY DEF PollRespond, Good, Fits, Reached, Place
<1>4. Position(g)' = o
  BY <1>2 DEF Position, Unlocked
<1>5. 1..(removed + n) \subseteq delivered'[g]
  <2> SUFFICES ASSUME NEW k \in Int, 1 <= k, k <= removed + n PROVE k \in delivered'[g]
    BY <1>1
  <2>1. CASE k <= o
    <3>1. k \in 1..o
      BY <1>1, <2>1
    <3> QED BY <1>2, <1>3, <3>1
  <2>2. CASE k > o
    <3>1. PICK i \in Int : i = k - o
      BY <1>1
    <3>2. i \in 1..Len(m) /\ o + i = k
      BY <1>1, <2>2, <3>1, SMTT(30)
    <3>3. i \in DOMAIN m /\ m[i] = k
      BY <1>1, <1>3, <3>2
    <3> QED BY <1>2, <3>3
  <2> QED BY <1>1, <2>1, <2>2
<1>6. n \in Nat /\ o <= removed + n /\ removed + n <= appended
  BY <1>1, <1>3
<1>7. EarnedNext(g, n)
  BY <1>2, <1>4, <1>5, <1>6 DEF EarnedNext
<1> HIDE DEF n
<1>8. FitsNext(g, NoPoll) /\ FitsNext(g, [pc |-> "got", next |-> n])
  BY <1>7 DEF FitsNext, NoPoll
<1> QED BY <1>2, <1>8

\* Any step of a collector but the acknowledgement that it sends.
LEMMA CollectorGood ==
  ASSUME BaseInv, BaseInv', NEW g \in Group, Good(g), Calm(g)', NEW c \in Consumer,
         \/ PollOffset(c) \/ PollRead(c) \/ PollRespond(c) \/ PollLost(c)
         \/ AckLost(c) \/ AckDone(c) \/ CollectorRestart(c)
  PROVE  Good(g)' /\ Place(g)' = Place(g)
<1>1. UNCHANGED vars /\ GroupOf[c] \in Group
  BY DeliveryAssumption DEF PollOffset, PollRead, PollRespond, PollLost, AckLost, AckDone, CollectorRestart
<1>2. delivered[g] \subseteq delivered'[g]
  BY DEF BaseInv, DTypeOK,
     PollOffset, PollRead, PollRespond, PollLost, AckLost, AckDone, CollectorRestart
<1>3. PICK u : poll' = [poll EXCEPT ![c] = u]
  BY DEF PollOffset, PollRead, PollRespond, PollLost, AckLost, AckDone, CollectorRestart
<1>4. CASE GroupOf[c] # g
  BY <1>1, <1>2, <1>3, <1>4, PollGood
<1>5. CASE GroupOf[c] = g /\ ~ Unlocked
  BY <1>1, <1>2, <1>3, <1>5, PollGood
<1>6. CASE GroupOf[c] = g /\ Unlocked
  <2>1. Fits(g, poll[c])
    BY <1>6 DEF Good
  <2>2. \E v : poll' = [poll EXCEPT ![c] = v] /\ FitsNext(g, v)
    <3>1. CASE PollOffset(c)
      <4> DEFINE v == [pc |-> "read", start |-> Offset(g)]
      <4>1. Offset(g)' = Offset(g)
        BY <1>1 DEF vars, offsetVars, Offset
      <4>2. poll' = [poll EXCEPT ![c] = v] /\ FitsNext(g, v)
        BY <1>6, <3>1, <4>1 DEF PollOffset, FitsNext
      <4> QED BY <4>2
    <3>2. CASE PollRead(c)
      BY <1>6, <2>1, <3>2, PollReadFits
    <3>3. CASE PollRespond(c)
      BY <1>6, <3>3, PollRespondFits
    <3>4. CASE PollLost(c) \/ AckLost(c) \/ AckDone(c) \/ CollectorRestart(c)
      BY <3>4 DEF PollLost, AckLost, AckDone, CollectorRestart, FitsNext, NoPoll
    <3> QED BY <3>1, <3>2, <3>3, <3>4
  <2> QED BY <1>1, <1>2, <2>2, PollGood
<1> QED BY <1>4, <1>5, <1>6

\* The acknowledgement hands the offset to a Commit.
LEMMA AckGood ==
  ASSUME BaseInv, BaseInv', NEW g \in Group, Good(g), Calm(g)',
         NEW c \in Consumer, NEW p \in Proc, Ack(c, p)
  PROVE  Good(g)' /\ Place(g)' = Place(g)
<1> DEFINE off == poll[c].next
           v   == [pc |-> "acking", via |-> p]
           w   == [pc |-> "check", group |-> GroupOf[c], offset |-> off]
<1>1. /\ UNCHANGED <<cpc, start, removed, appended, offsets, counter, dirty, delivered>>
      /\ Offset(g)' = Offset(g) /\ TypeOK /\ TypeOK' /\ (Unlocked' <=> Unlocked)
  BY DEF Ack, CommitCall, logVars, offsetVars, rangeVars, historyVars, Offset, BaseInv, DTypeOK, Unlocked
<1>2. /\ \A d \in Consumer : poll'[d] = poll[d] \/ (d = c /\ poll'[d] = v)
      /\ \A q \in Proc : commit'[q] = commit[q] \/ (q = p /\ commit'[q] = w)
      /\ appended <= appended'
  BY <1>1 DEF Ack, CommitCall, BaseInv, DTypeOK, TypeOK
<1>3. FitsNext(g, v)
  BY DEF FitsNext
<1>4. ASSUME Unlocked PROVE CommitsNext(g, w)
  <2> SUFFICES ASSUME GroupOf[c] = g PROVE EarnedNext(g, off)
    BY DEF CommitsNext
  <2>1. Earned(g, off)
    BY DEF Ack, Good, Fits
  <2> QED BY <1>1, <1>2, <1>4, <2>1, EarnedStays
<1> QED BY <1>1, <1>2, <1>3, <1>4, StillGood

-----------------------------------------------------------------------------
(* Steps of the server.                                                    *)

LEMMA PublishGood ==
  ASSUME BaseInv, BaseInv', NEW g \in Group, Good(g), Calm(g)', Publish
  PROVE  Good(g)' /\ Place(g)' = Place(g)
<1>1. /\ UNCHANGED <<cpc, start, removed, offsets, counter, dirty, commit, poll, delivered>>
      /\ appended' = appended + 1 /\ appended \in Nat /\ Offset(g)' = Offset(g)
  BY DEF Publish, AppendMessage, offsetVars, rangeVars, historyVars, clientVars, Offset, BaseInv, DTypeOK, TypeOK
<1>2. appended <= appended'
  BY <1>1
<1> QED BY <1>1, <1>2, StillGood

\* The first two steps of a Commit move no group.
LEMMA CommitStaysGood ==
  ASSUME BaseInv, BaseInv', NEW g \in Group, Good(g), Calm(g)', UNCHANGED clientVars,
         NEW p \in Proc, CommitCheck(p) \/ CommitLoad(p)
  PROVE  Good(g)' /\ Place(g)' = Place(g)
<1>1. /\ UNCHANGED <<cpc, start, removed, appended, offsets, counter, dirty, poll, delivered>>
      /\ Offset(g)' = Offset(g) /\ TypeOK /\ TypeOK' /\ (Unlocked' <=> Unlocked)
  BY DEF CommitCheck, CommitLoad, logVars, offsetVars, rangeVars, historyVars, clientVars,
     Offset, Unlocked, BaseInv, DTypeOK
<1>2. /\ \A q \in Proc \ {p} : commit'[q] = commit[q]
      /\ commit[p] # Idle
      /\ commit'[p] # Idle => commit'[p].group = commit[p].group /\ commit'[p].offset = commit[p].offset
  BY <1>1, CommitKeepsGroup DEF CommitStep
<1>3. commit'[p].pc = "store" => commit'[p].cell = offsets[commit'[p].group]
  <2>1. CASE CommitCheck(p)
    <3>1. commit[p] = [pc |-> "check", group |-> commit[p].group, offset |-> commit[p].offset]
      BY <1>1, <2>1, CommitShape DEF CommitCheck
    <3>2. commit'[p].pc # "store"
      BY <1>1, <2>1, <3>1 DEF CommitCheck, Idle, TypeOK
    <3> QED BY <3>2
  <2>2. CASE CommitLoad(p)
    BY <1>1, <2>2 DEF CommitLoad, TypeOK
  <2> QED BY <2>1, <2>2
<1>4. ASSUME Unlocked PROVE CommitsNext(g, commit'[p])
  <2> SUFFICES ASSUME commit'[p] # Idle, commit'[p].group = g PROVE CommitsNext(g, commit'[p])
    BY DEF CommitsNext
  <2>1. Earned(g, commit'[p].offset)
    BY <1>2 DEF Good, Commits
  <2>2. EarnedNext(g, commit'[p].offset)
    BY <1>1, <1>4, <2>1, EarnedStays DEF TypeOK
  <2> QED BY <1>1, <1>3, <2>2 DEF CommitsNext
<1>5. appended <= appended'
  BY <1>1 DEF TypeOK
<1> QED BY <1>1, <1>2, <1>4, <1>5, StillGood

\* The last step of a Commit moves its group forward and no other.
LEMMA CommitMovesGood ==
  ASSUME BaseInv, BaseInv', NEW g \in Group, Good(g), Calm(g)', UNCHANGED clientVars,
         NEW p \in Proc, CommitStore(p) \/ CommitRegister(p),
         NEW g0, NEW off, commit[p].group = g0, commit[p].offset = off
  PROVE  Good(g)' /\ Place(g) <= Place(g)'
<1>1. /\ TypeInv /\ Owned /\ TypeOK /\ TypeOK'
      /\ poll' = poll /\ delivered' = delivered
  BY DEF BaseInv, PartitionInv, TypeInv, DTypeOK, clientVars
<1>2. /\ g0 \in Group
      /\ commit[p].pc = "store" /\ commit[p].cell = offsets[g0] => Offset(g0)' = off
      /\ commit[p].pc # "store" => Offset(g0)' = off
      /\ \A h \in Group \ {g0} : offsets'[h] = offsets[h] /\ Offset(h)' = Offset(h)
      /\ commit' = [commit EXCEPT ![p] = Idle]
      /\ Touch(g0)
      /\ UNCHANGED <<appended, removed, cpc, start>>
  BY <1>1, CommitMoves
<1>3. /\ commit[p] # Idle
      /\ commit'[p] = Idle /\ \A q \in Proc \ {p} : commit'[q] = commit[q]
      /\ appended <= appended' /\ (Unlocked' <=> Unlocked)
  BY <1>1, <1>2 DEF CommitStore, CommitRegister, Idle, TypeOK, Unlocked
<1>4. CASE g # g0
  <2>1. g \in dirty' => g \in dirty
    BY <1>2, <1>4 DEF Touch
  <2>2. Good(g)' /\ Place(g)' = Place(g)
    BY <1>1, <1>2, <1>3, <1>4, <2>1, StillGood DEF CommitsNext
  <2>3. Place(g) \in Int
    BY <1>1, OffsetIsNat, SMTT(30) DEF TypeOK, Place, Unknown
  <2> QED BY <2>2, <2>3
<1>5. CASE g = g0
  <2>1. /\ Unlocked /\ Unlocked'
        /\ \A c \in Consumer : GroupOf[c] = g => poll[c] = NoPoll \/ Acking(c, p)
        /\ \A q \in Proc \ {p} : commit[q] # Idle => commit[q].group # g
    BY <1>3, <1>5, CommitIsAlone DEF Good, BaseInv
  <2>2. Earned(g, off) /\ Offset(g)' = off
    BY <1>2, <1>3, <1>5 DEF Good, Commits
  <2>3. /\ Place(g) = removed + Offset(g) /\ Place(g)' = removed + off
        /\ Place(g) <= Place(g)' /\ Reached(g)'
    BY <1>1, <1>2, <2>1, <2>2 DEF Place, Reached, Earned, Position
  <2>4. Tracked(g)'
    BY <1>2, <2>1 DEF Good, Tracked, Touch
  <2>5. \A c \in Consumer : GroupOf[c] = g => FitsNext(g, poll'[c])
    BY <1>1, <2>1 DEF FitsNext, NoPoll, Acking
  <2>6. \A q \in Proc : CommitsNext(g, commit'[q])
    BY <1>3, <2>1 DEF CommitsNext
  <2> QED BY <2>3, <2>4, <2>5, <2>6, GoodNext
<1> QED BY <1>4, <1>5

\* While Compact is at work a group that is not misled has no request.
LEMMA SilentGood ==
  ASSUME BaseInv', NEW g \in Group, Requests(g)' = {}, Calm(g)', Tracked(g)', Reached(g)'
  PROVE  Good(g)'
<1>1. /\ \A c \in Consumer : GroupOf[c] = g => poll'[c] = NoPoll
      /\ \A p \in Proc : commit'[p] # Idle => commit'[p].group # g
  BY NoRequestsNext DEF Silent, BaseInv
<1> QED BY <1>1, GoodNext DEF FitsNext, CommitsNext, NoPoll

LEMMA CompactionGood ==
  ASSUME BaseInv, BaseInv', NEW g \in Group, Good(g), Calm(g)', Requests(g)' = {}, Compaction
  PROVE  Good(g)' /\ Place(g)' = Place(g)
<1>1. /\ Unlocked /\ ~ Unlocked' /\ ~ Shifting'
      /\ start' = [h \in Group |-> IF h \in Registered THEN removed + Offset(h) ELSE Unknown]
      /\ UNCHANGED <<removed, appended, offsets, counter, dirty, delivered>>
      /\ Offset(g)' = Offset(g)
  BY DEF Compaction, CompactLock, Unlocked, Shifting, logVars, offsetVars, clientVars, Offset
<1>2. removed \in Nat /\ Offset(g) \in Nat
  BY OffsetIsNat DEF BaseInv, DTypeOK, TypeOK
<1>3. /\ start'[g] = Unknown => offsets[g] = 0
      /\ start'[g] # Unknown => start'[g] = removed + Offset(g)
  BY <1>1, <1>2 DEF Registered, Unknown
<1>4. Place(g)' = Place(g)
  BY <1>1, <1>3 DEF Place
<1>5. Tracked(g)' /\ Reached(g)'
  BY <1>1, <1>3, <1>4 DEF Good, Tracked, Reached
<1> QED BY <1>4, <1>5, SilentGood

LEMMA CompactingGood ==
  ASSUME BaseInv, BaseInv', NEW g \in Group, Good(g), Calm(g)', Requests(g)' = {}, Compacting,
         removed' = removed \/ g \in Registered
  PROVE  Good(g)' /\ Place(g)' = Place(g)
<1>1. /\ CompactStep /\ UNCHANGED <<appended, delivered, offsets>> /\ ~ Unlocked
      /\ dirty' = dirty \/ dirty' = {}
      /\ ~ Unlocked' => start' = start
      /\ Unlocked' => UNCHANGED <<removed, offsets, counter>>
  BY CompactStepShape DEF Compacting, clientVars, CompactStep, CompactVisit, CompactScanLoad,
     CompactNothing, CompactCut, CompactShiftLoad, CompactShiftStore, CompactUnlock, offsetVars
<1>2. g \notin dirty /\ g \notin dirty' /\ (start[g] = Unknown => offsets[g] = 0 /\ ~ Shifting)
  BY <1>1 DEF Good, Tracked
<1>3. CASE start[g] = Unknown
  <2>1. offsets[g] = 0 /\ offsets'[g] = 0 /\ removed' = removed /\ ~ Shifting
    BY <1>1, <1>2, <1>3 DEF Registered
  <2>2. ~ Unlocked' => ~ Shifting'
    <3>1. CASE CompactCut
      <4>1. removed' = removed + minOffset' /\ minOffset' \in 1..Len(messages) /\ removed \in Nat
        BY <3>1, CutDrops DEF BaseInv, PartitionInv, TypeInv, TypeOK
      <4>2. Len(messages) \in Nat
        BY LenProperties DEF BaseInv, DTypeOK, TypeOK
      <4>3. minOffset' \in Nat /\ minOffset' > 0
        BY <4>1, <4>2
      <4>4. removed' = removed + minOffset' /\ removed \in Nat
        BY <4>1
      <4>5. \A m, n \in Nat : n > 0 => m + n # m
        OBVIOUS
      <4>6. removed' # removed
        BY <4>3, <4>4, <4>5
      <4> QED BY <2>1, <4>6
    <3>2. CASE ~ CompactCut
      BY <1>1, <2>1, <3>2 DEF CompactStep, CompactVisit, CompactScanLoad, CompactNothing,
         CompactShiftLoad, CompactShiftStore, CompactUnlock, Release, Shifting, Unlocked
    <3> QED BY <3>1, <3>2
  <2>3. Place(g) = removed /\ Place(g)' = removed
    <3>1. Offset(g) = 0 /\ Offset(g)' = 0 /\ removed \in Nat
      BY <2>1 DEF Offset, BaseInv, DTypeOK, TypeOK
    <3> QED BY <1>1, <1>3, <2>1, <3>1 DEF Place
  <2>4. Tracked(g)'
    BY <1>2, <2>1, <2>2 DEF Tracked
  <2>5. Reached(g)'
    BY <1>1, <2>3 DEF Good, Reached
  <2> QED BY <2>3, <2>4, <2>5, SilentGood
<1>4. CASE start[g] # Unknown
  <2>1. Place(g)' = Place(g)
    <3>1. CASE ~ Unlocked'
      BY <1>1, <1>4, <3>1 DEF Place
    <3>2. CASE Unlocked'
      <4>1. removed + Offset(g) = start[g]
        BY <1>1, <1>2, <1>4, <3>2, PositionKeptStep DEF BaseInv, PartitionInv, AnyNext, Unlocked
      <4>2. Offset(g)' = Offset(g)
        BY <1>1, <3>2 DEF Offset
      <4> QED BY <1>1, <1>4, <3>2, <4>1, <4>2 DEF Place
    <3> QED BY <3>1, <3>2
  <2>2. Tracked(g)'
    BY <1>1, <1>2, <1>4 DEF Tracked
  <2>3. Reached(g)'
    BY <1>1, <2>1 DEF Good, Reached
  <2> QED BY <2>1, <2>2, <2>3, SilentGood
<1> QED BY <1>3, <1>4

-----------------------------------------------------------------------------
(* The invariant.                                                          *)

LEMMA RInvInit == RInit => RInv
<1> SUFFICES ASSUME RInit, NEW g \in Group PROVE Good(g)
  BY BaseInvInit DEF RInv
<1>1. /\ DInit /\ Init /\ Unlocked /\ dirty = {} /\ removed = 0 /\ appended = 0 /\ offsets[g] = 0
      /\ \A p \in Proc : commit[p] = Idle
      /\ \A c \in Consumer : poll[c] = NoPoll
  BY DEF RInit, DInit, Init, Unlocked
<1>2. Requests(g) = {}
  BY <1>1 DEF Requests, Polling, Orphans
<1>3. Place(g) = 0
  BY <1>1 DEF Place, Offset
<1> QED BY <1>1, <1>2, <1>3 DEF Good, Calm, Fits, Commits, Tracked, Reached, NoPoll

\* A new broker has no request of a group but the acknowledgements that its
\* collectors still hold, and the groups of these are misled.
LEMMA ServerRestartGood ==
  ASSUME BaseInv, ServerRestart, NEW g \in Group, g \notin misled'
  PROVE  Good(g)'
<1>1. /\ DTypeOK /\ DTypeOK'
      /\ \A c \in Consumer : poll'[c] = NoPoll \/ (poll'[c].pc = "got" /\ GroupOf[c] \in misled')
  BY ServerRestartStep DEF BaseInv
<1>2. /\ Unlocked' /\ dirty' = {} /\ removed' = 0 /\ appended' = 0 /\ offsets'[g] = 0
      /\ \A p \in Proc : commit'[p] = Idle
  BY DEF ServerRestart, NewPartition, Unlocked
<1>3. \A c \in Consumer : GroupOf[c] = g => poll'[c] = NoPoll
  BY <1>1
<1>4. Requests(g)' = {}
  BY <1>2, <1>3 DEF Requests, Polling, Orphans
<1>5. Place(g)' = 0
  BY <1>2 DEF Place, Offset
<1>6. Calm(g)' /\ Tracked(g)' /\ Reached(g)'
  BY <1>2, <1>4, <1>5 DEF Calm, Tracked, Reached
<1> QED BY <1>2, <1>3, <1>6, GoodNext DEF FitsNext, CommitsNext, NoPoll

LEMMA GoodStep ==
  ASSUME RInv, BaseInv', [RNext]_restartVars, NEW g \in Group, g \notin misled'
  PROVE  Good(g)' /\ (ServerRestart \/ Place(g) <= Place(g)')
<1>1. BaseInv /\ (g \notin misled => Good(g)) /\ Place(g) \in Int
  <2>1. BaseInv /\ TypeOK
    BY DEF RInv, BaseInv, DTypeOK
  <2>2. Place(g) \in Int
    BY <2>1, OffsetIsNat DEF TypeOK, Place, Unknown
  <2> QED BY <2>1, <2>2 DEF RInv
<1>2. CASE ServerRestart
  BY <1>1, <1>2, ServerRestartGood
<1>3. CASE UNCHANGED restartVars
  <2>1. UNCHANGED <<vars, poll, delivered, misled>>
    BY <1>3 DEF restartVars, allVars, clientVars
  <2>2. Calm(g)'
    BY <1>1, <2>1 DEF Good, Calm, Requests, Polling, Orphans, Acking, Unlocked, vars, rangeVars
  <2>3. /\ UNCHANGED <<cpc, start, removed, appended, offsets, counter, dirty, commit>>
        /\ Offset(g)' = Offset(g) /\ appended \in Nat
    BY <1>1, <2>1 DEF vars, logVars, offsetVars, rangeVars, historyVars, Offset, BaseInv, DTypeOK, TypeOK
  <2>4. appended <= appended'
    BY <2>3
  <2> QED BY <1>1, <2>1, <2>2, <2>3, <2>4, StillGood
<1>4. CASE Record
  <2>1. /\ Good(g) /\ Place(g) \in Int /\ Calm(g)'
        /\ Requests(g)' = {} \/ (Unlocked /\ Unlocked')
        /\ removed' = removed \/ g \in Registered
    BY <1>1, <1>4, RecordCalm
  <2>2. CASE Publish
    BY <1>1, <2>1, <2>2, PublishGood
  <2>3. CASE Compaction
    BY <1>1, <2>1, <2>3, CompactionGood DEF Compaction, CompactLock, Unlocked
  <2>4. CASE Compacting
    BY <1>1, <2>1, <2>4, CompactingGood, CompactStepShape DEF Compacting
  <2>5. ASSUME NEW p \in Proc, Checking(p) \/ Committing(p)
        PROVE  Good(g)' /\ Place(g) <= Place(g)'
    <3>1. UNCHANGED clientVars
      BY <2>5 DEF Checking, Committing
    <3>2. CASE CommitCheck(p) \/ CommitLoad(p)
      BY <1>1, <2>1, <3>1, <3>2, CommitStaysGood
    <3>3. CASE CommitStore(p) \/ CommitRegister(p)
      BY <1>1, <2>1, <3>1, <3>3, CommitMovesGood
    <3> QED BY <2>5, <3>2, <3>3 DEF Checking, Committing, CommitStep
  <2>6. ASSUME NEW c \in Consumer,
               \/ PollOffset(c) \/ PollRead(c) \/ PollRespond(c) \/ PollLost(c)
               \/ AckLost(c) \/ AckDone(c) \/ CollectorRestart(c)
        PROVE  Good(g)' /\ Place(g) <= Place(g)'
    BY <1>1, <2>1, <2>6, CollectorGood
  <2>7. ASSUME NEW c \in Consumer, NEW p \in Proc, Ack(c, p)
        PROVE  Good(g)' /\ Place(g) <= Place(g)'
    BY <1>1, <2>1, <2>7, AckGood
  <2>8. CASE DNext
    BY <2>2, <2>3, <2>4, <2>5, <2>6, <2>7, <2>8, <2>1 DEF DNext
  <2>9. CASE \E c \in Consumer : CollectorRestart(c)
    BY <2>6, <2>9
  <2> QED BY <1>2, <1>3, <2>8, <2>9 DEF RNext
<1> QED BY <1>2, <1>3, <1>4 DEF RNext, CollectorRestart

LEMMA RInvStep == RInv /\ [RNext]_restartVars => RInv'
<1> SUFFICES ASSUME RInv, [RNext]_restartVars PROVE RInv'
  OBVIOUS
<1>1. BaseInv'
  BY BaseInvStep DEF RInv
<1>2. ASSUME NEW g \in Group, g \notin misled' PROVE Good(g)'
  BY <1>1, <1>2, GoodStep
<1> QED BY <1>1, <1>2 DEF RInv

\* Whatever restarts, loses calls, shares a group or compacts, and however many
\* of each there are, a group whose offset passes a message that it was not
\* given, or lies beyond the log, met one of the causes that Record names.
THEOREM SkipsHaveACauseHolds == RSpec => []SkipsHaveACause
<1>1. RInv => SkipsHaveACause
  <2> SUFFICES ASSUME RInv, Unlocked, NEW g \in Group, g \notin misled
               PROVE  Offset(g) <= TailOffset /\ 1..(removed + Offset(g)) \subseteq delivered[g]
    BY DEF SkipsHaveACause
  <2>1. /\ BaseInv /\ TypeOK /\ Place(g) = removed + Offset(g)
        /\ Place(g) <= appended /\ 1..Place(g) \subseteq delivered[g]
        /\ removed + Len(messages) = appended
    BY DEF RInv, BaseInv, PartitionInv, LogIntegrity, DTypeOK, Good, Reached, Place
  <2>2. removed \in Nat /\ appended \in Nat /\ Offset(g) \in Nat /\ Len(messages) \in Nat
    BY <2>1, OffsetIsNat, LenProperties DEF TypeOK
  <2> QED BY <2>1, <2>2 DEF TailOffset
<1> QED BY <1>1, RInvInit, RInvStep, PTL DEF RSpec

\* And the position of a group that met none of these causes never goes back
\* but when the broker restarts: two acknowledgements of it never cross, and a
\* compaction renumbers its offset to the message where it was.
THEOREM NeverGoesBackHolds == RSpec => NeverGoesBack
<1>1. RInv /\ [RNext]_restartVars =>
        [ServerRestart \/ \A g \in Group \ misled' : Place(g) <= Place(g)']_restartVars
  <2> SUFFICES ASSUME RInv, [RNext]_restartVars, NEW g \in Group, g \notin misled'
               PROVE  ServerRestart \/ Place(g) <= Place(g)'
    OBVIOUS
  <2> QED BY RInvStep, GoodStep DEF RInv
<1> QED BY <1>1, RInvInit, RInvStep, PTL DEF RSpec, NeverGoesBack
=============================================================================
