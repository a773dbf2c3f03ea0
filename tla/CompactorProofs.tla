-------------------------- MODULE CompactorProofs --------------------------
(***************************************************************************)
(* Theorems about module Compactor, for any number of loops, partitions    *)
(* and reconfigurations.                                                   *)
(***************************************************************************)
EXTENDS Compactor, TLAPS

\* The channel is open while the sync.Once is fresh, and from the moment a new
\* one is made until the sync.Once is renewed.
DoneInv ==
  /\ done \in Nat \ {0}
  /\ closed \subseteq 1..done
  /\ once \in BOOLEAN
  /\ ~ once => done \notin closed
  /\ owner.pc = "updateOnce" => done \notin closed

LEMMA DoneInvInit == Init => DoneInv
<1> SUFFICES ASSUME Init PROVE DoneInv
  OBVIOUS
<1>1. done = 1 /\ closed = {} /\ once = FALSE /\ owner.pc # "updateOnce"
  BY DEF Init, NoCall
<1>2. done \in Nat \ {0} /\ closed \subseteq 1..done /\ done \notin closed
  BY <1>1
<1>3. once \in BOOLEAN
  BY <1>1
<1> QED BY <1>1, <1>2, <1>3 DEF DoneInv

\* Loops and clients leave the channel, the sync.Once and the owner alone.
LEMMA DoneFrame ==
  ASSUME NEW l \in Loop, LoopStep(l) PROVE UNCHANGED <<done, closed, once, owner>>
BY DEF LoopStep, LoopWait, LoopExit, LoopTick, LoopList, LoopRoundOver, LoopTopic, LoopLength,
   LoopWatermark, LoopCompact, NextPart, Becomes, schedulerVars

LEMMA DoneInvStep == DoneInv /\ [Next]_vars => DoneInv'
<1> SUFFICES ASSUME DoneInv, [Next]_vars PROVE DoneInv'
  OBVIOUS
<1>0. ASSUME CloseDone, done' = done, owner'.pc # "updateOnce" PROVE DoneInv'
  <2>1. closed' \subseteq 1..done /\ once' = TRUE
    BY <1>0 DEF CloseDone, DoneInv
  <2> QED BY <1>0, <2>1 DEF DoneInv
<1>00. ASSUME UNCHANGED <<done, closed, once>>, owner'.pc # "updateOnce" PROVE DoneInv'
  BY <1>00 DEF DoneInv
<1>1. CASE Start \/ StopMark \/ UpdateMark
  <2>1. UNCHANGED <<done, closed, once>>
    BY <1>1 DEF Start, StopMark, UpdateMark
  <2>2. owner'.pc # "updateOnce"
    BY <1>1 DEF Start, StopMark, UpdateMark, NoCall
  <2> QED BY <1>00, <2>1, <2>2
<1>2. CASE StopClose
  <2>1. CloseDone /\ done' = done /\ owner'.pc # "updateOnce"
    BY <1>2 DEF StopClose, NoCall
  <2> QED BY <1>0, <2>1
<1>3. CASE UpdateClose
  <2>1. done' = done /\ owner'.pc # "updateOnce"
    BY <1>3 DEF UpdateClose, NoCall
  <2>2. CloseDone \/ UNCHANGED <<closed, once>>
    BY <1>3 DEF UpdateClose
  <2> QED BY <1>0, <1>00, <2>1, <2>2
<1>4. CASE UpdateDone
  <2>1. done + 1 \notin closed /\ closed \subseteq 1..(done + 1) /\ done + 1 \in Nat \ {0}
    BY DEF DoneInv
  <2> QED BY <1>4, <2>1 DEF UpdateDone, DoneInv
<1>5. CASE UpdateOnce
  <2>1. UNCHANGED <<done, closed>> /\ once' = FALSE /\ done \notin closed
    BY <1>5 DEF UpdateOnce, DoneInv
  <2>2. owner'.pc # "updateOnce"
    BY <1>5 DEF UpdateOnce
  <2> QED BY <2>1, <2>2 DEF DoneInv
<1>6. CASE UpdateStart
  BY <1>00, <1>6 DEF UpdateStart, NoCall
<1>7. ASSUME NEW l \in Loop, LoopStep(l) PROVE DoneInv'
  <2>1. UNCHANGED <<done, closed, once, owner>>
    BY <1>7, DoneFrame
  <2> QED BY <2>1 DEF DoneInv
<1>8. CASE CreateTopic \/ Publish \/ CommitCheck \/ CommitStore \/ UNCHANGED vars
  <2>1. UNCHANGED <<done, closed, once, owner>>
    BY <1>8 DEF CreateTopic, Publish, CommitCheck, CommitStore, vars, schedulerVars
  <2> QED BY <2>1 DEF DoneInv
<1> QED BY <1>1, <1>2, <1>3, <1>4, <1>5, <1>6, <1>7, <1>8 DEF Next, OwnerStep

\* Stop and UpdateConfig never close a channel that is closed already, however
\* the owner mixes them with Start and whatever the loops are doing.
THEOREM CloseOnceHolds == Spec => []CloseOnce
<1>1. DoneInv => CloseOnce
  BY DEF DoneInv, CloseOnce
<1> QED BY <1>1, DoneInvInit, DoneInvStep, PTL DEF Spec

-----------------------------------------------------------------------------
(* Types.                                                                  *)

OwnerState ==
  [pc : {"idle", "stopClose", "updateDone", "updateOnce", "updateStart"}]
    \cup [pc : {"updateClose"}, wasRunning : BOOLEAN]

LogType ==
  /\ length \in [Part -> Nat]
  /\ low \in [Part -> Nat]

\* The fields of a loop that goes through a topic.
LEMMA AtTopic ==
  ASSUME TypeOK, NEW l \in Loop, loop[l].pc \in {"length", "watermark", "compact"}
  PROVE  /\ loop[l] \in [pc : {"length", "watermark", "compact"}, todo : SUBSET topics, topic : topics,
                         part : 1..Partitions, threshold : Threshold]
         /\ Current(l) \in Part /\ length[Current(l)] \in Nat /\ low[Current(l)] \in Nat
<1>1. loop[l] \in LoopState /\ topics \subseteq Topic
  BY DEF TypeOK
<1>2. loop[l] \in [pc : {"length", "watermark", "compact"}, todo : SUBSET topics, topic : topics,
                   part : 1..Partitions, threshold : Threshold]
  BY <1>1 DEF LoopState, NoLoop, AtTop
<1>3. Current(l) \in Part
  BY <1>1, <1>2 DEF Current, Part
<1> QED BY <1>2, <1>3 DEF TypeOK

\* A loop that keeps to the states stays within them, whatever channel or topic
\* is added.
LEMMA LoopTypeStep ==
  ASSUME TypeOK, NEW l \in Loop, NEW s \in LoopState, Becomes(l, s), LogType'
  PROVE  TypeOK'
<1>1. UNCHANGED <<running, config, done, closed, once, owner, topics, commits>>
  BY DEF Becomes, schedulerVars
<1>2. LoopState' = LoopState
  BY <1>1 DEF LoopState, NoLoop, AtTop
<1>3. loop' \in [Loop -> LoopState]
  BY DEF Becomes, TypeOK
<1> QED BY <1>1, <1>2, <1>3 DEF TypeOK, LogType

LEMMA NextPartType ==
  ASSUME TypeOK, NEW l \in Loop, loop[l].pc \in {"watermark", "compact"}, NextPart(l), LogType'
  PROVE  TypeOK'
<1>1. loop[l] \in [pc : {"length", "watermark", "compact"}, todo : SUBSET topics, topic : topics,
                   part : 1..Partitions, threshold : Threshold]
  BY AtTopic
<1>2. CASE loop[l].part < Partitions
  <2> DEFINE s == [loop[l] EXCEPT !.part = @ + 1, !.pc = IF @ = "watermark" THEN "length" ELSE @]
  <2>1. loop[l].part + 1 \in 1..Partitions
    BY <1>1, <1>2, CompactorAssumption
  <2>2. s \in LoopState
    BY <1>1, <2>1 DEF LoopState
  <2>3. Becomes(l, s)
    BY <1>2 DEF NextPart
  <2> HIDE DEF s
  <2> QED BY <2>2, <2>3, LoopTypeStep
<1>3. CASE ~ (loop[l].part < Partitions)
  <2>1. [pc |-> "next", todo |-> loop[l].todo] \in LoopState
    BY <1>1 DEF LoopState
  <2>2. Becomes(l, [pc |-> "next", todo |-> loop[l].todo])
    BY <1>3 DEF NextPart
  <2> QED BY <2>1, <2>2, LoopTypeStep
<1> QED BY <1>2, <1>3

LEMMA LoopType ==
  ASSUME TypeOK, NEW l \in Loop, LoopStep(l)
  PROVE  TypeOK'
<1>1. ASSUME UNCHANGED <<length, low>> PROVE LogType'
  BY <1>1 DEF TypeOK, LogType
<1>2. done \in Nat \ {0} /\ topics \subseteq Topic /\ loop[l] \in LoopState /\ config.threshold \in Threshold
  BY DEF TypeOK, Config
<1>3. AtTop \in LoopState /\ NoLoop \in LoopState /\ [pc |-> "list"] \in LoopState
  BY DEF LoopState
<1>4. CASE LoopWait(l)
  <2>1. [pc |-> "select", chan |-> done] \in LoopState
    BY <1>2 DEF LoopState
  <2> QED BY <1>1, <1>4, <2>1, LoopTypeStep DEF LoopWait
<1>5. CASE LoopExit(l)
  BY <1>1, <1>3, <1>5, LoopTypeStep DEF LoopExit
<1>6. CASE LoopTick(l)
  <2> DEFINE s == IF running /\ config.enabled THEN [pc |-> "list"] ELSE AtTop
  <2>1. s \in LoopState
    BY <1>3
  <2>2. Becomes(l, s) /\ UNCHANGED <<length, low>>
    BY <1>6 DEF LoopTick
  <2> HIDE DEF s
  <2> QED BY <1>1, <2>1, <2>2, LoopTypeStep
<1>7. CASE LoopList(l)
  <2>1. [pc |-> "next", todo |-> topics] \in LoopState
    BY DEF LoopState
  <2> QED BY <1>1, <1>7, <2>1, LoopTypeStep DEF LoopList
<1>8. CASE LoopRoundOver(l)
  BY <1>1, <1>3, <1>8, LoopTypeStep DEF LoopRoundOver
<1>9. CASE LoopTopic(l)
  <2>1. loop[l].todo \subseteq topics
    BY <1>2, <1>9 DEF LoopTopic, LoopState, NoLoop, AtTop
  <2>2. PICK t \in loop[l].todo :
          Becomes(l, [pc |-> "length", todo |-> loop[l].todo \ {t}, topic |-> t,
                      part |-> 1, threshold |-> config.threshold])
    BY <1>9 DEF LoopTopic
  <2>3. 1 \in 1..Partitions
    BY CompactorAssumption
  <2>4. [pc |-> "length", todo |-> loop[l].todo \ {t}, topic |-> t,
         part |-> 1, threshold |-> config.threshold] \in LoopState
    BY <1>2, <2>1, <2>3 DEF LoopState
  <2>5. UNCHANGED <<length, low>>
    BY <1>9 DEF LoopTopic
  <2> QED BY <1>1, <2>2, <2>4, <2>5, LoopTypeStep
<1>10. ASSUME NEW pc \in {"compact", "watermark"}, NEW i \in 1..Partitions,
              loop[l].pc \in {"length", "watermark", "compact"},
              Becomes(l, At(l, pc, i)), UNCHANGED <<length, low>>
       PROVE  TypeOK'
  <2>1. loop[l] \in [pc : {"length", "watermark", "compact"}, todo : SUBSET topics, topic : topics,
                     part : 1..Partitions, threshold : Threshold]
    BY <1>10, AtTopic
  <2>2. At(l, pc, i) \in LoopState
    BY <2>1 DEF At, LoopState
  <2> QED BY <1>1, <1>10, <2>2, LoopTypeStep
<1>11. 1 \in 1..Partitions
  BY CompactorAssumption
<1>12. CASE LoopLength(l)
  <2>1. loop[l].pc \in {"length", "watermark", "compact"} /\ UNCHANGED <<length, low>>
    BY <1>12 DEF LoopLength
  <2>2. loop[l].part \in 1..Partitions
    BY <2>1, AtTopic
  <2>3. Becomes(l, At(l, "compact", 1)) \/ Becomes(l, At(l, "watermark", loop[l].part))
    BY <1>12 DEF LoopLength
  <2> QED BY <1>10, <1>11, <2>1, <2>2, <2>3
<1>13. CASE LoopWatermark(l)
  <2>1. loop[l].pc = "watermark" /\ UNCHANGED <<length, low>>
    BY <1>13 DEF LoopWatermark
  <2>2. Becomes(l, At(l, "compact", 1)) \/ NextPart(l)
    BY <1>13 DEF LoopWatermark
  <2> QED BY <1>1, <1>10, <1>11, <2>1, <2>2, NextPartType
<1>14. CASE LoopCompact(l)
  <2>1. loop[l].pc = "compact" /\ Trim(Current(l)) /\ NextPart(l)
    BY <1>14 DEF LoopCompact
  <2>2. PICK q \in Part : q = Current(l) /\ length[q] \in Nat /\ low[q] \in Nat
    BY <2>1, AtTopic
  <2> DEFINE cut == Lesser(low[q], length[q])
  <2>3. length[q] - cut \in Nat /\ low[q] - cut \in Nat
    BY <2>2 DEF Lesser
  <2>4. length' = [length EXCEPT ![q] = length[q] - cut] /\ low' = [low EXCEPT ![q] = low[q] - cut]
    BY <2>1, <2>2 DEF Trim
  <2> HIDE DEF cut
  <2>5. LogType'
    BY <2>3, <2>4 DEF TypeOK, LogType
  <2> QED BY <2>1, <2>5, NextPartType
<1> QED BY <1>4, <1>5, <1>6, <1>7, <1>8, <1>9, <1>12, <1>13, <1>14 DEF LoopStep

\* What remains is typed as before when channels and topics are only added.
LEMMA StatesKept ==
  ASSUME TypeOK, loop' \in [Loop -> LoopState], topics \subseteq topics', topics' \subseteq Topic,
         done' \in Nat, done <= done',
         running' \in BOOLEAN, once' \in BOOLEAN, config' \in Config, closed' \subseteq 1..done',
         owner' \in OwnerState, LogType', commits' \subseteq Part \X Nat
  PROVE  TypeOK'
<1>1. done \in Nat \ {0}
  BY DEF TypeOK
<1>2. done' \in Nat \ {0} /\ 1..done \subseteq 1..done'
  BY <1>1
<1>3. LoopState \subseteq LoopState'
  BY <1>2 DEF LoopState, NoLoop, AtTop
<1>4. loop' \in [Loop -> LoopState']
  BY <1>3
<1> QED BY <1>2, <1>4 DEF TypeOK, OwnerState, LogType

LEMMA TypeInit == Init => TypeOK
<1> SUFFICES ASSUME Init PROVE TypeOK
  OBVIOUS
<1>1. owner \in OwnerState
  BY DEF Init, NoCall, OwnerState
<1>2. loop \in [Loop -> LoopState]
  BY DEF Init, LoopState
<1>3. running \in BOOLEAN /\ once \in BOOLEAN /\ config \in Config
  BY DEF Init
<1> QED BY <1>1, <1>2, <1>3 DEF Init, TypeOK, OwnerState

LEMMA TypeStep == TypeOK /\ [Next]_vars => TypeOK'
<1> SUFFICES ASSUME TypeOK, [Next]_vars PROVE TypeOK'
  OBVIOUS
<1>1. /\ running \in BOOLEAN /\ once \in BOOLEAN /\ config \in Config
      /\ done \in Nat \ {0} /\ closed \subseteq 1..done /\ owner \in OwnerState
      /\ topics \subseteq Topic /\ loop \in [Loop -> LoopState] /\ LogType
      /\ commits \subseteq Part \X Nat
  BY DEF TypeOK, OwnerState, LogType
<1>2. ASSUME UNCHANGED <<topics, length, low, commits>>, loop' \in [Loop -> LoopState],
             done' \in Nat, done <= done',
             running' \in BOOLEAN, once' \in BOOLEAN, config' \in Config,
             closed' \subseteq 1..done', owner' \in OwnerState
      PROVE  TypeOK'
  <2>1. LogType' /\ topics \subseteq topics' /\ topics' \subseteq Topic
    BY <1>1, <1>2 DEF LogType
  <2>2. commits' \subseteq Part \X Nat
    BY <1>1, <1>2
  <2> QED BY <1>2, <2>1, <2>2, StatesKept
<1>3. /\ NoCall \in OwnerState /\ AtTop \in LoopState
      /\ \A pc \in {"idle", "stopClose", "updateDone", "updateOnce", "updateStart"} : [pc |-> pc] \in OwnerState
      /\ [pc |-> "updateClose", wasRunning |-> running] \in OwnerState
  BY <1>1 DEF OwnerState, LoopState, NoCall
<1>4. ASSUME Launch PROVE running' \in BOOLEAN /\ loop' \in [Loop -> LoopState]
  BY <1>1, <1>3, <1>4 DEF Launch
<1>5. ASSUME CloseDone PROVE closed' \subseteq 1..done /\ once' \in BOOLEAN
  BY <1>1, <1>5 DEF CloseDone
<1>6. CASE Start \/ UpdateStart
  <2>1. Launch /\ UNCHANGED <<config, done, closed, once, topics, length, low, commits>> /\ owner' \in {owner, NoCall}
    BY <1>6 DEF Start, UpdateStart, logVars
  <2> QED BY <1>1, <1>2, <1>3, <1>4, <2>1
<1>7. CASE StopMark \/ UpdateMark
  <2>1. /\ UNCHANGED <<done, closed, once, loop, topics, length, low, commits>>
        /\ running' = FALSE /\ config' \in Config /\ owner' \in OwnerState
    BY <1>1, <1>3, <1>7 DEF StopMark, UpdateMark, logVars
  <2>2. running' \in BOOLEAN /\ once' \in BOOLEAN
    BY <1>1, <2>1
  <2>3. done' \in Nat /\ done <= done' /\ closed' \subseteq 1..done' /\ loop' \in [Loop -> LoopState]
    BY <1>1, <2>1
  <2> QED BY <1>2, <2>1, <2>2, <2>3
<1>8. CASE StopClose \/ UpdateClose
  <2>1. /\ UNCHANGED <<running, config, done, loop, topics, length, low, commits>>
        /\ CloseDone \/ UNCHANGED <<closed, once>>
        /\ owner' \in OwnerState
    BY <1>3, <1>8 DEF StopClose, UpdateClose, logVars
  <2>2. running' \in BOOLEAN /\ config' \in Config /\ loop' \in [Loop -> LoopState]
    BY <1>1, <2>1
  <2>3. closed' \subseteq 1..done /\ once' \in BOOLEAN
    BY <1>1, <1>5, <2>1
  <2>4. done' \in Nat /\ done <= done' /\ closed' \subseteq 1..done'
    BY <1>1, <2>1, <2>3
  <2> QED BY <1>2, <2>1, <2>2, <2>3, <2>4
<1>9. CASE UpdateDone
  <2>1. /\ UNCHANGED <<running, config, closed, once, loop, topics, length, low, commits>>
        /\ done' = done + 1 /\ owner' \in OwnerState
    BY <1>3, <1>9 DEF UpdateDone, logVars
  <2>2. done' \in Nat /\ done <= done' /\ closed' \subseteq 1..done'
    BY <1>1, <2>1
  <2> QED BY <1>1, <1>2, <2>1, <2>2
<1>10. CASE UpdateOnce
  <2>1. /\ UNCHANGED <<running, config, done, closed, loop, topics, length, low, commits>>
        /\ once' = FALSE /\ owner' \in OwnerState
    BY <1>3, <1>10 DEF UpdateOnce, logVars
  <2>2. running' \in BOOLEAN /\ once' \in BOOLEAN
    BY <1>1, <2>1
  <2>3. /\ done' \in Nat /\ done <= done' /\ closed' \subseteq 1..done'
        /\ config' \in Config /\ loop' \in [Loop -> LoopState]
    BY <1>1, <2>1
  <2> QED BY <1>2, <2>1, <2>2, <2>3
<1>11. ASSUME NEW l \in Loop, LoopStep(l) PROVE TypeOK'
  BY <1>11, LoopType
<1>12. CASE CreateTopic
  <2>1. UNCHANGED <<running, config, done, closed, once, owner, loop, length, low, commits>>
    BY <1>12 DEF CreateTopic, schedulerVars
  <2>2. topics \subseteq topics' /\ topics' \subseteq Topic
    BY <1>1, <1>12 DEF CreateTopic
  <2>3. LogType'
    BY <1>1, <2>1 DEF LogType
  <2> QED BY <1>1, <2>1, <2>2, <2>3, StatesKept
<1>13. CASE Publish \/ CommitCheck \/ CommitStore
  <2>1. UNCHANGED <<running, config, done, closed, once, owner, loop, topics>>
    BY <1>13 DEF Publish, CommitCheck, CommitStore, schedulerVars
  <2>2. LogType' /\ commits' \subseteq Part \X Nat
    <3>1. CASE Publish
      BY <1>1, <3>1 DEF Publish, LogType
    <3>2. CASE CommitCheck
      <4>1. PICK q \in Part : \E n \in 0..length[q] : commits' = commits \cup {<<q, n>>}
        BY <3>2 DEF CommitCheck
      <4>2. length[q] \in Nat
        BY <1>1 DEF LogType
      <4>3. PICK n \in 0..length[q] : commits' = commits \cup {<<q, n>>}
        BY <4>1
      <4>4. UNCHANGED <<length, low>> /\ n \in Nat
        BY <3>2, <4>2 DEF CommitCheck
      <4> QED BY <1>1, <4>3, <4>4 DEF LogType
    <3>3. CASE CommitStore
      <4>1. PICK c \in commits : low' = [low EXCEPT ![c[1]] = c[2]] /\ commits' = commits \ {c}
        BY <3>3 DEF CommitStore
      <4>2. c[1] \in Part /\ c[2] \in Nat /\ length' = length
        BY <1>1, <3>3 DEF CommitStore
      <4> QED BY <1>1, <4>1, <4>2 DEF LogType
    <3> QED BY <1>13, <3>1, <3>2, <3>3
  <2> QED BY <1>1, <2>1, <2>2, StatesKept
<1>14. CASE UNCHANGED vars
  <2>1. UNCHANGED <<running, config, done, closed, once, owner, loop, topics, length, low, commits>>
    BY <1>14 DEF vars, schedulerVars, logVars
  <2> QED BY <1>1, <1>2, <2>1
<1> QED BY <1>6, <1>7, <1>8, <1>9, <1>10, <1>11, <1>12, <1>13, <1>14 DEF Next, OwnerStep

\* Loops hold only topics that exist and channels that were made, and compaction
\* never takes more messages than there are, whatever runs at the same time: the
\* watermark may well lie beyond the partition, put there by a commit that was
\* checked before another compaction.
THEOREM TypeCorrect == Spec => []TypeOK
BY TypeInit, TypeStep, PTL DEF Spec

-----------------------------------------------------------------------------
(* Stopping.                                                               *)

\* While nothing runs, a loop that is left will find a closed channel: the
\* owner's calls pass this on from one to the next.  A used sync.Once means a
\* closed channel, and a call that makes a new channel starts a loop on it.
StopInv ==
  /\ DoneInv
  /\ once /\ owner.pc # "updateOnce" => done \in closed
  /\ owner.pc # "idle" => ~ running
  /\ owner.pc \in {"updateDone", "updateOnce", "updateStart"} => config.enabled
  /\ owner.pc \in {"idle", "updateDone"} /\ ~ running => Quiet
  /\ owner.pc = "updateClose" /\ ~ owner.wasRunning => Quiet

Heard == \A l \in Loop : loop[l].pc = "select" => loop[l].chan \in closed \cup {done}

HearInv == TypeOK /\ StopInv /\ Heard

\* What the loops do: they end, but none begins, and they wait for field done.
LEMMA LoopHears ==
  ASSUME HearInv, NEW l \in Loop, LoopStep(l) PROVE HearInv'
<1>1. TypeOK' /\ DoneInv'
  BY LoopType, DoneInvStep DEF HearInv, StopInv, Next
<1>2. UNCHANGED <<running, config, done, closed, once, owner>>
  BY DEF LoopStep, LoopWait, LoopExit, LoopTick, LoopList, LoopRoundOver, LoopTopic, LoopLength,
     LoopWatermark, LoopCompact, NextPart, Becomes, schedulerVars
<1>3. loop \in [Loop -> LoopState] /\ loop[l] # NoLoop
  BY DEF HearInv, TypeOK, NoLoop, LoopStep, LoopWait, LoopExit, LoopTick, LoopList, LoopRoundOver,
     LoopTopic, LoopLength, LoopWatermark, LoopCompact
<1>4. Quiet => Quiet'
  BY <1>2, <1>3 DEF Quiet
<1>5. StopInv'
  BY <1>1, <1>2, <1>4 DEF HearInv, StopInv
<1> SUFFICES Heard'
  BY <1>1, <1>5 DEF HearInv
<1>6. ASSUME NEW s, Becomes(l, s), s.pc = "select" => s.chan = done PROVE Heard'
  <2>1. loop' = [loop EXCEPT ![l] = s]
    BY <1>6 DEF Becomes
  <2>2. ASSUME NEW k \in Loop, loop'[k].pc = "select" PROVE loop'[k].chan \in closed \cup {done}
    <3>1. CASE k = l
      BY <1>3, <1>6, <2>1, <2>2, <3>1
    <3>2. CASE k # l
      BY <1>3, <2>1, <2>2, <3>2 DEF HearInv, Heard
    <3> QED BY <3>1, <3>2
  <2> QED BY <1>2, <2>2 DEF Heard
<1>7. CASE LoopWait(l)
  BY <1>6, <1>7 DEF LoopWait
<1>8. CASE LoopExit(l) \/ LoopTick(l) \/ LoopList(l) \/ LoopRoundOver(l)
  <2>1. PICK s \in {NoLoop, AtTop, [pc |-> "list"], [pc |-> "next", todo |-> topics]} : Becomes(l, s)
    BY <1>8 DEF LoopExit, LoopTick, LoopList, LoopRoundOver
  <2>2. s.pc # "select"
    BY DEF NoLoop, AtTop
  <2> QED BY <1>6, <2>1, <2>2
<1>9. CASE LoopTopic(l)
  <2>1. PICK t \in loop[l].todo :
          Becomes(l, [pc |-> "length", todo |-> loop[l].todo \ {t}, topic |-> t,
                      part |-> 1, threshold |-> config.threshold])
    BY <1>9 DEF LoopTopic
  <2> QED BY <1>6, <2>1
<1>10. CASE LoopLength(l) \/ LoopWatermark(l) \/ LoopCompact(l)
  <2>1. /\ loop[l].pc \in {"length", "watermark", "compact"}
        /\ \/ Becomes(l, At(l, "compact", 1)) \/ Becomes(l, At(l, "watermark", loop[l].part))
           \/ NextPart(l)
    BY <1>10 DEF LoopLength, LoopWatermark, LoopCompact
  <2>2. loop[l] \in [pc : {"length", "watermark", "compact"}, todo : SUBSET topics, topic : topics,
                     part : 1..Partitions, threshold : Threshold]
    BY <2>1, AtTopic DEF HearInv
  <2>3. ASSUME NEW pc \in {"compact", "watermark"}, NEW i PROVE At(l, pc, i).pc # "select"
    BY <2>2 DEF At
  <2>4. CASE NextPart(l)
    <3> DEFINE s == [loop[l] EXCEPT !.part = @ + 1, !.pc = IF @ = "watermark" THEN "length" ELSE @]
    <3>1. s.pc # "select"
      BY <2>2
    <3>2. Becomes(l, s) \/ Becomes(l, [pc |-> "next", todo |-> loop[l].todo])
      BY <2>4 DEF NextPart
    <3> HIDE DEF s
    <3> QED BY <1>6, <3>1, <3>2
  <2> QED BY <1>6, <2>1, <2>3, <2>4
<1> QED BY <1>7, <1>8, <1>9, <1>10 DEF LoopStep

\* A call of the owner's that keeps the channel: a loop that it starts is at the
\* top, and no other changes.
LEMMA OwnerHears ==
  ASSUME HearInv, done' = done, closed \subseteq closed',
         \/ loop' = loop
         \/ \E l \in Loop : loop' = [loop EXCEPT ![l] = AtTop]
  PROVE  Heard' /\ (loop' = loop /\ Quiet => Quiet')
<1>1. loop \in [Loop -> LoopState]
  BY DEF HearInv, TypeOK
<1>2. ASSUME NEW k \in Loop PROVE loop'[k] \in {loop[k], AtTop}
  BY <1>1
<1>3. AtTop.pc # "select"
  BY DEF AtTop
<1> QED BY <1>2, <1>3 DEF HearInv, Heard, Quiet

LEMMA HearInvInit == Init => HearInv
<1> SUFFICES ASSUME Init PROVE HearInv
  OBVIOUS
<1>1. TypeOK /\ DoneInv
  BY TypeInit, DoneInvInit
<1>2. \A l \in Loop : loop[l] = NoLoop
  BY DEF Init
<1>3. StopInv /\ Heard
  BY <1>1, <1>2 DEF Init, StopInv, Heard, Quiet, NoCall, NoLoop
<1> QED BY <1>1, <1>3 DEF HearInv

LEMMA HearInvStep == HearInv /\ [Next]_vars => HearInv'
<1> SUFFICES ASSUME HearInv, [Next]_vars PROVE HearInv'
  OBVIOUS
<1>1. TypeOK' /\ DoneInv'
  BY TypeStep, DoneInvStep DEF HearInv, StopInv
<1>2. /\ once \in BOOLEAN /\ running \in BOOLEAN /\ owner \in OwnerState
      /\ ~ once => done \notin closed
      /\ once /\ owner.pc # "updateOnce" => done \in closed
      /\ owner.pc # "idle" => ~ running
  BY DEF HearInv, TypeOK, StopInv, DoneInv, OwnerState
<1>3. owner = NoCall => owner.pc = "idle"
  BY DEF NoCall
<1>4. ASSUME CloseDone, done' = done, owner.pc # "updateOnce"
      PROVE  closed \subseteq closed' /\ once' /\ done' \in closed'
  BY <1>2, <1>4 DEF CloseDone
<1>5. ASSUME Launch, UNCHANGED <<config, done, closed, once>>, owner' = NoCall,
             owner.pc \in {"idle", "updateStart"}
      PROVE  HearInv'
  <2>1. \/ loop' = loop
        \/ \E l \in Loop : loop' = [loop EXCEPT ![l] = AtTop]
    BY <1>5 DEF Launch
  <2>2. Heard' /\ (loop' = loop /\ Quiet => Quiet')
    BY <1>5, <2>1, OwnerHears
  <2>3. IF owner.pc = "idle" THEN ~ running => Quiet ELSE config.enabled
    BY <1>5 DEF HearInv, StopInv
  <2>4. ~ running' => Quiet'
    BY <1>2, <1>5, <2>2, <2>3 DEF Launch
  <2>5. once' /\ owner'.pc # "updateOnce" => done' \in closed'
    BY <1>2, <1>5
  <2> QED BY <1>1, <1>5, <2>2, <2>4, <2>5 DEF HearInv, StopInv, NoCall
<1>6. ASSUME UNCHANGED loop, closed \subseteq closed', done' = done
      PROVE  Heard' /\ (Quiet => Quiet')
  BY <1>6, OwnerHears
<1>7. CASE StopMark
  <2>1. /\ UNCHANGED <<loop, config, done, closed, once>>
        /\ owner.pc = "idle" /\ ~ running' /\ owner'.pc = "stopClose"
    BY <1>3, <1>7 DEF StopMark
  <2> QED BY <1>1, <1>2, <1>6, <2>1 DEF HearInv, StopInv
<1>8. CASE UpdateMark
  <2>1. /\ UNCHANGED <<loop, done, closed, once>>
        /\ owner.pc = "idle" /\ ~ running' /\ owner' = [pc |-> "updateClose", wasRunning |-> running]
    BY <1>3, <1>8 DEF UpdateMark
  <2>2. ~ running => Quiet
    BY <2>1 DEF HearInv, StopInv
  <2>3. Heard' /\ (Quiet => Quiet')
    BY <1>6, <2>1
  <2> QED BY <1>1, <1>2, <2>1, <2>2, <2>3 DEF HearInv, StopInv
<1>9. CASE StopClose
  <2>1. /\ CloseDone /\ UNCHANGED <<loop, running, config, done>>
        /\ owner.pc = "stopClose" /\ owner'.pc = "idle"
    BY <1>9 DEF StopClose, NoCall
  <2>2. closed \subseteq closed' /\ once' /\ done' \in closed'
    BY <1>4, <2>1
  <2>3. Heard' /\ Quiet'
    BY <1>6, <2>1, <2>2 DEF Quiet
  <2> QED BY <1>1, <2>1, <2>2, <2>3 DEF HearInv, StopInv
<1>10. CASE UpdateClose
  <2>1. /\ UNCHANGED <<loop, running, config, done>> /\ ~ running
        /\ owner.pc = "updateClose"
        /\ owner'.pc = IF config.enabled THEN "updateDone" ELSE "idle"
        /\ IF owner.wasRunning THEN CloseDone ELSE UNCHANGED <<closed, once>>
    BY <1>2, <1>10 DEF UpdateClose, NoCall
  <2>2. /\ closed \subseteq closed'
        /\ once' => done' \in closed'
        /\ owner.wasRunning => done' \in closed'
    BY <1>2, <1>4, <2>1
  <2>3. Heard' /\ (Quiet => Quiet')
    BY <1>6, <2>1, <2>2
  <2>4. Quiet'
    <3>1. CASE owner.wasRunning
      BY <2>2, <3>1 DEF Quiet
    <3>2. CASE ~ owner.wasRunning
      BY <2>1, <2>3, <3>2 DEF HearInv, StopInv
    <3> QED BY <3>1, <3>2
  <2> QED BY <1>1, <2>1, <2>2, <2>3, <2>4 DEF HearInv, StopInv
<1>11. CASE UpdateDone
  <2>1. /\ UNCHANGED <<loop, running, config, closed, once>> /\ done' = done + 1
        /\ owner.pc = "updateDone" /\ owner'.pc = "updateOnce"
    BY <1>11 DEF UpdateDone
  <2>2. Quiet /\ ~ running /\ config.enabled
    BY <1>2, <2>1 DEF HearInv, StopInv
  <2>3. Heard'
    <3>1. CASE done \in closed
      BY <2>1, <3>1 DEF HearInv, Heard
    <3>2. CASE \A l \in Loop : loop[l] = NoLoop
      BY <2>1, <3>2 DEF Heard, NoLoop
    <3> QED BY <2>2, <3>1, <3>2 DEF Quiet
  <2> QED BY <1>1, <2>1, <2>2, <2>3 DEF HearInv, StopInv
<1>12. CASE UpdateOnce
  <2>1. /\ UNCHANGED <<loop, running, config, done, closed>> /\ ~ once'
        /\ owner.pc = "updateOnce" /\ owner'.pc = "updateStart"
    BY <1>12 DEF UpdateOnce
  <2> QED BY <1>1, <1>2, <1>6, <2>1 DEF HearInv, StopInv
<1>13. CASE Start
  BY <1>3, <1>5, <1>13 DEF Start
<1>14. CASE UpdateStart
  BY <1>5, <1>14 DEF UpdateStart
<1>15. ASSUME NEW l \in Loop, LoopStep(l) PROVE HearInv'
  BY <1>15, LoopHears
<1>16. CASE CreateTopic \/ Publish \/ CommitCheck \/ CommitStore \/ UNCHANGED vars
  <2>1. UNCHANGED <<loop, running, config, done, closed, once, owner>>
    BY <1>16 DEF CreateTopic, Publish, CommitCheck, CommitStore, vars, schedulerVars
  <2> QED BY <1>1, <2>1 DEF HearInv, StopInv, Heard, Quiet
<1> QED BY <1>7, <1>8, <1>9, <1>10, <1>11, <1>12, <1>13, <1>14, <1>15, <1>16 DEF Next, OwnerStep

\* No order of Start, Stop and UpdateConfig, with any number of loops, leaves a
\* loop waiting for a channel that nobody can close any more, and once nothing
\* is to run, the loops that are left find their channel closed.
THEOREM EveryLoopHearsHolds == Spec => []EveryLoopHears
<1>1. HearInv => EveryLoopHears
  BY DEF HearInv, StopInv, Heard, EveryLoopHears, NoCall
<1> QED BY <1>1, HearInvInit, HearInvStep, PTL DEF Spec
=============================================================================
