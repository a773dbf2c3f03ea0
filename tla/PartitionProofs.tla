-------------------------- MODULE PartitionProofs --------------------------
(***************************************************************************)
(* Theorems about module Partition, for any sets of groups and goroutines, *)
(* any acknowledged offsets, any capacity and any number of appends.       *)
(***************************************************************************)
EXTENDS Partition, SequenceTheorems, TLAPS

\* A step of the partition under clients that commit any integer.  The steps
\* of Partition and of the modules that extend it are such steps.
AnyNext ==
  \/ AppendMessage
  \/ \E p \in Proc, g \in Group, off \in Int : CommitCall(p, g, off)
  \/ \E p \in Proc : CommitCheck(p) \/ CommitStep(p)
  \/ CompactLock
  \/ CompactStep

LEMMA NextIsAnyNext == [Next]_vars => [AnyNext]_vars
BY PartitionAssumption DEF Next, AnyNext

\* Dropping the first n elements of a sequence.
LEMMA DropProperties ==
  ASSUME NEW S, NEW s \in Seq(S), NEW n \in Nat
  PROVE  /\ SubSeq(s, n + 1, Len(s)) \in Seq(S)
         /\ n <= Len(s) => Len(SubSeq(s, n + 1, Len(s))) = Len(s) - n
         /\ \A i \in 1..(Len(s) - n) : SubSeq(s, n + 1, Len(s))[i] = s[n + i]
<1>1. Len(s) \in Nat /\ n + 1 \in Int
  BY LenProperties
<1>2. ASSUME NEW i \in Int, n + 1 <= i, i <= Len(s) PROVE s[i] \in S
  <2>1. i \in 1..Len(s)
    BY <1>1, <1>2
  <2> QED BY <2>1, ElementOfSeq
<1>3. \A i \in (n + 1)..Len(s) : s[i] \in S
  BY <1>1, <1>2
<1> DEFINE d == SubSeq(s, n + 1, Len(s))
<1>4. /\ d \in Seq(S)
      /\ Len(d) = IF n + 1 <= Len(s) THEN Len(s) - (n + 1) + 1 ELSE 0
      /\ \A i \in 1..(Len(s) - (n + 1) + 1) : d[i] = s[n + 1 + i - 1]
  BY <1>1, <1>3, SubSeqProperties
<1> HIDE DEF d
<1>5. n <= Len(s) => Len(d) = Len(s) - n
  BY <1>1, <1>4
<1>6. ASSUME NEW i \in 1..(Len(s) - n) PROVE d[i] = s[n + i]
  <2>1. i \in 1..(Len(s) - (n + 1) + 1) /\ n + 1 + i - 1 = n + i
    BY <1>1
  <2> QED BY <1>4, <2>1
<1> QED BY <1>4, <1>5, <1>6 DEF d

-----------------------------------------------------------------------------
(* Types.                                                                  *)

\* Compact starts on a partition that is not empty, and holds the lock.
Scanning == cpc \in {"scan", "scanLoad"}
TypeInv  == TypeOK /\ (Scanning => messages # <<>>)

\* What TypeOK says of a Commit call, by control state.
LEMMA CommitShape ==
  ASSUME TypeOK, NEW p \in Proc
  PROVE  /\ commit[p] # Idle => commit[p].group \in Group
         /\ commit[p].pc = "check" =>
              commit[p] = [pc |-> "check", group |-> commit[p].group, offset |-> commit[p].offset]
         /\ commit[p].pc = "check" => commit[p].offset \in Int
         /\ commit[p].pc \in {"load", "register", "store"} => commit[p].offset \in Nat
         /\ commit[p].pc = "store" => commit[p].cell \in DOMAIN counter
         /\ commit[p].pc \in {"idle", "check", "load", "register", "store"}
         /\ commit[p] = Idle <=> commit[p].pc = "idle"
BY DEF TypeOK, CommitState, Idle

LEMMA TypeInvInit == Init => TypeInv
BY DEF Init, TypeInv, TypeOK, Scanning, Shifting, CommitState, Idle, Registered, Unknown

LEMMA TypeInvStep == TypeInv /\ [AnyNext]_vars => TypeInv'
<1> SUFFICES ASSUME TypeInv, [AnyNext]_vars PROVE TypeInv'
  OBVIOUS
<1> USE DEF TypeInv
<1>1. CASE AppendMessage
  <2>1. messages' \in Seq(Nat) /\ messages' # <<>>
    BY <1>1, AppendProperties, SMTT(30) DEF AppendMessage, TypeOK
  <2> QED BY <1>1, <2>1 DEF AppendMessage, TypeOK, CommitState, Scanning, Shifting, Registered,
       offsetVars, rangeVars, historyVars
<1>2. ASSUME NEW p \in Proc, NEW g \in Group, NEW off \in Int, CommitCall(p, g, off)
      PROVE  TypeInv'
  BY <1>2 DEF CommitCall, TypeOK, CommitState, Scanning, Shifting, Registered,
     logVars, offsetVars, rangeVars, historyVars
<1>3. ASSUME NEW p \in Proc, CommitCheck(p) PROVE TypeInv'
  <2>1. CASE InRange(commit[p].offset)
    <3>1. commit[p].offset \in Nat
      BY <1>3, <2>1, CommitShape DEF CommitCheck, InRange, TailOffset, TypeOK
    <3>2. commit' = [commit EXCEPT ![p] =
            [pc |-> "load", group |-> commit[p].group, offset |-> commit[p].offset]]
      <4>1. [commit[p] EXCEPT !.pc = "load"] =
              [pc |-> "load", group |-> commit[p].group, offset |-> commit[p].offset]
        <5>1. commit[p] =
                [pc |-> "check", group |-> commit[p].group, offset |-> commit[p].offset]
          BY <1>3, CommitShape DEF CommitCheck
        <5> QED BY <5>1
      <4> QED BY <1>3, <2>1, <4>1 DEF CommitCheck
    <3>3. commit[p].group \in Group
      BY <1>3, CommitShape DEF CommitCheck, Idle
    <3>4. commit' \in [Proc -> CommitState']
      BY <1>3, <3>1, <3>2, <3>3, SMTT(30) DEF CommitCheck, TypeOK, CommitState, offsetVars
    <3> QED BY <1>3, <3>4 DEF CommitCheck, TypeOK,
         Scanning, Shifting, Registered, logVars, offsetVars, rangeVars, historyVars
  <2>2. CASE ~ InRange(commit[p].offset)
    <3>1. commit' = [commit EXCEPT ![p] = Idle]
      BY <1>3, <2>2 DEF CommitCheck
    <3> QED BY <1>3, <3>1 DEF CommitCheck, Idle, TypeOK, CommitState,
         Scanning, Shifting, Registered, logVars, offsetVars, rangeVars, historyVars
  <2> QED BY <2>1, <2>2
<1>4. ASSUME NEW p \in Proc, CommitLoad(p) PROVE TypeInv'
  <2> DEFINE c == commit[p]
             k == offsets[c.group]
             s == IF k # 0 THEN [pc |-> "store", group |-> c.group, offset |-> c.offset, cell |-> k]
                           ELSE [pc |-> "register", group |-> c.group, offset |-> c.offset]
  <2>1. c.group \in Group /\ c.offset \in Nat
    BY <1>4, CommitShape DEF Idle, CommitLoad
  <2>2. k \in {0} \cup DOMAIN counter
    BY <2>1 DEF TypeOK
  <2>3. s \in CommitState
    BY <2>1, <2>2 DEF CommitState
  <2>4. /\ commit' = [commit EXCEPT ![p] = s]
        /\ UNCHANGED <<logVars, offsetVars, rangeVars, historyVars>>
    BY <1>4 DEF CommitLoad
  <2> HIDE DEF s
  <2>5. commit' \in [Proc -> CommitState]
    BY <2>3, <2>4 DEF TypeOK
  <2>6. CommitState' = CommitState
    BY <2>4 DEF CommitState, Idle, offsetVars
  <2> QED BY <2>4, <2>5, <2>6 DEF TypeOK, Scanning, Shifting, Registered,
       logVars, offsetVars, rangeVars, historyVars
<1>5. ASSUME NEW p \in Proc, CommitStore(p) PROVE TypeInv'
  <2>1. counter' \in Seq(Nat) /\ DOMAIN counter' = DOMAIN counter
    <3>1. commit[p].offset \in Nat /\ commit[p].cell \in DOMAIN counter
      BY <1>5, CommitShape DEF CommitStore
    <3> QED BY <1>5, <3>1, ExceptSeq DEF CommitStore, TypeOK
  <2>2. dirty' \subseteq Group
    BY <1>5, CommitShape DEF CommitStore, Touch, TypeOK, Idle
  <2>3. commit' \in [Proc -> CommitState']
    BY <1>5, <2>1 DEF CommitStore, TypeOK, CommitState
  <2> QED BY <1>5, <2>1, <2>2, <2>3 DEF CommitStore, TypeOK, Scanning, Shifting, Registered,
       logVars, rangeVars
<1>6. ASSUME NEW p \in Proc, CommitRegister(p) PROVE TypeInv'
  <2>1. commit[p].offset \in Nat /\ commit[p].group \in Group
    BY <1>6, CommitShape DEF CommitRegister, Idle
  <2>2. counter' \in Seq(Nat) /\ Len(counter') = Len(counter) + 1
    BY <1>6, <2>1, AppendProperties DEF CommitRegister, TypeOK
  <2>3. DOMAIN counter \subseteq DOMAIN counter' /\ Len(counter) + 1 \in DOMAIN counter'
    BY <2>2, LenProperties DEF TypeOK
  <2>4. dirty' \subseteq Group
    BY <1>6, <2>1 DEF CommitRegister, Touch, TypeOK
  <2>5. commit' \in [Proc -> CommitState']
    BY <1>6, <2>3 DEF CommitRegister, TypeOK, CommitState
  <2>6. offsets' \in [Group -> {0} \cup DOMAIN counter'] /\ Registered \subseteq Registered'
    BY <1>6, <2>1, <2>3 DEF CommitRegister, TypeOK, Registered
  <2> QED BY <1>6, <2>2, <2>3, <2>4, <2>5, <2>6 DEF CommitRegister, TypeOK, Scanning, Shifting,
       logVars, rangeVars
<1>7. CASE CompactLock
  BY <1>7 DEF CompactLock, TypeOK, CommitState, Scanning, Shifting, Registered, Unlocked,
     BeginRange, Offset, Unknown, logVars, offsetVars, rangeVars, historyVars
<1>8. ASSUME NEW g \in Group, CompactVisit(g) PROVE TypeInv'
  BY <1>8 DEF CompactVisit, TypeOK, CommitState, Scanning, Shifting, Registered,
     logVars, offsetVars, rangeVars, historyVars
<1>9. CASE CompactScanLoad
  BY <1>9 DEF CompactScanLoad, TypeOK, CommitState, Scanning, Shifting, Registered, LowerBound,
     logVars, offsetVars, rangeVars, historyVars
<1>10. CASE CompactNothing
  BY <1>10 DEF CompactNothing, Release, TypeOK, CommitState, Scanning, Shifting, Registered,
     Unknown, logVars, offsetVars, rangeVars, historyVars
<1>11. CASE CompactCut
  <2>1. minOffset' \in Nat \ {0}
    BY <1>11 DEF CompactCut, TypeOK, Clip, Lesser, Scanning
  <2>2. messages' \in Seq(Nat)
    <3>1. minOffset' \in Nat /\ messages \in Seq(Nat)
      BY <2>1 DEF TypeOK
    <3> QED BY <1>11, <3>1, DropProperties DEF CompactCut, Kept
  <2>3. CommitState' = CommitState /\ Registered' = Registered
    BY <1>11 DEF CompactCut, offsetVars, CommitState, Registered
  <2>4. removed' \in Nat
    BY <1>11, <2>1 DEF CompactCut, TypeOK
  <2>5. todo' = Registered' /\ seen' = {}
    BY <1>11, <2>3 DEF CompactCut, BeginRange
  <2>6. cpc' = "shift" /\ UNCHANGED <<appended, offsets, counter, commit, cell, oldOffset, start, dirty>>
    BY <1>11 DEF CompactCut, offsetVars, historyVars
  <2> QED BY <2>1, <2>2, <2>3, <2>4, <2>5, <2>6 DEF TypeOK, Scanning, Shifting
<1>12. CASE CompactShiftLoad
  BY <1>12 DEF CompactShiftLoad, TypeOK, CommitState, Scanning, Shifting, Registered,
     logVars, offsetVars, rangeVars, historyVars
<1>13. CASE CompactShiftStore
  BY <1>13 DEF CompactShiftStore, TypeOK, CommitState, Scanning, Shifting, Registered, Shifted, Greater,
     logVars, offsetVars, rangeVars, historyVars
<1>14. CASE CompactUnlock
  BY <1>14 DEF CompactUnlock, Release, TypeOK, CommitState, Scanning, Shifting, Registered,
     Unknown, logVars, offsetVars, rangeVars, historyVars
<1>15. CASE UNCHANGED vars
  BY <1>15 DEF TypeOK, CommitState, Scanning, Shifting, Registered,
     vars, logVars, offsetVars, rangeVars, historyVars
<1> QED BY <1>1, <1>2, <1>3, <1>4, <1>5, <1>6, <1>7, <1>8, <1>9, <1>10, <1>11, <1>12, <1>13,
     <1>14, <1>15 DEF AnyNext, CommitStep, CompactStep

\* Every reachable state is well typed: no counter is ever negative and every
\* pointer that a goroutine holds is to a counter that exists.
THEOREM TypeCorrect == Spec => []TypeOK
<1>1. TypeInv => TypeOK
  BY DEF TypeInv
<1> QED BY <1>1, TypeInvInit, TypeInvStep, NextIsAnyNext, PTL DEF Spec

-----------------------------------------------------------------------------
(* The log.                                                                *)

\* Only Append and the re-slicing of Compact touch the log.
LEMMA LogSteps ==
  [AnyNext]_vars => AppendMessage \/ CompactCut \/ UNCHANGED <<messages, appended, removed>>
BY DEF AnyNext, vars, logVars, CommitCall, CommitCheck, CommitStep, CommitLoad, CommitStore,
   CommitRegister, CompactLock, CompactStep, CompactVisit, CompactScanLoad, CompactNothing,
   CompactShiftLoad, CompactShiftStore, CompactUnlock

\* What CompactCut does to a log: it drops a proper prefix.
LEMMA CutDrops ==
  ASSUME TypeInv, CompactCut
  PROVE  /\ minOffset' \in 1..Len(messages)
         /\ minOffset' <= minOffset
         /\ messages' = SubSeq(messages, minOffset' + 1, Len(messages))
         /\ removed' = removed + minOffset'
         /\ appended' = appended
<1>1. Len(messages) \in Nat \ {0}
  BY EmptySeq DEF TypeInv, TypeOK, CompactCut, Scanning
<1>2. minOffset \in Nat \ {0} /\ minOffset' = Lesser(minOffset, Len(messages))
  BY DEF TypeInv, TypeOK, CompactCut, Clip
<1>3. minOffset' \in 1..Len(messages) /\ minOffset' <= minOffset
  BY <1>1, <1>2 DEF Lesser
<1> QED BY <1>3 DEF CompactCut, Kept

LEMMA LogIntegrityInit == Init => LogIntegrity
BY DEF Init, LogIntegrity

LEMMA LogIntegrityStep == TypeInv /\ LogIntegrity /\ [AnyNext]_vars => LogIntegrity'
<1> SUFFICES ASSUME TypeInv, LogIntegrity, [AnyNext]_vars PROVE LogIntegrity'
  OBVIOUS
<1>0. /\ messages \in Seq(Nat) /\ Len(messages) \in Nat /\ DOMAIN messages = 1..Len(messages)
      /\ appended \in Nat /\ removed \in Nat
  BY LenProperties DEF TypeInv, TypeOK
<1>1. CASE AppendMessage
  <2>1. messages' = Append(messages, appended + 1) /\ appended' = appended + 1 /\ removed' = removed
    BY <1>1 DEF AppendMessage
  <2>2. /\ messages' \in Seq(Nat)
        /\ Len(messages') = Len(messages) + 1
        /\ \A i \in 1..Len(messages) : messages'[i] = messages[i]
        /\ messages'[Len(messages) + 1] = appended + 1
    BY <1>0, <2>1, AppendProperties
  <2>3. DOMAIN messages' = 1..(Len(messages) + 1)
    BY <2>2, LenProperties
  <2>4. removed' + Len(messages') = appended'
    <3>1. removed + Len(messages) = appended
      BY DEF LogIntegrity
    <3> QED BY <1>0, <2>1, <2>2, <3>1
  <2>5. ASSUME NEW i \in DOMAIN messages' PROVE messages'[i] = removed' + i
    <3>1. CASE i = Len(messages) + 1
      BY <1>0, <2>1, <2>2, <3>1 DEF LogIntegrity
    <3>2. CASE i # Len(messages) + 1
      <4>1. i \in 1..Len(messages)
        BY <1>0, <2>3, <3>2
      <4> QED BY <1>0, <2>1, <2>2, <4>1 DEF LogIntegrity
    <3> QED BY <3>1, <3>2
  <2> QED BY <2>4, <2>5 DEF LogIntegrity
<1>2. CASE CompactCut
  <2> DEFINE n == minOffset'
  <2>1. /\ n \in 1..Len(messages) /\ messages' = SubSeq(messages, n + 1, Len(messages))
        /\ removed' = removed + n /\ appended' = appended
    BY <1>2, CutDrops
  <2> HIDE DEF n
  <2>2. n \in Nat /\ n <= Len(messages)
    BY <1>0, <2>1
  <2>3. /\ messages' \in Seq(Nat)
        /\ Len(messages') = Len(messages) - n
        /\ \A i \in 1..(Len(messages) - n) : messages'[i] = messages[n + i]
    BY <1>0, <2>1, <2>2, DropProperties
  <2>4. DOMAIN messages' = 1..(Len(messages) - n)
    BY <2>3, LenProperties
  <2>5. ASSUME NEW i \in 1..(Len(messages) - n) PROVE messages'[i] = removed' + i
    <3>1. n + i \in 1..Len(messages)
      BY <1>0, <2>2
    <3>2. messages[n + i] = removed + (n + i)
      BY <1>0, <3>1 DEF LogIntegrity
    <3>3. messages'[i] = messages[n + i]
      BY <2>3
    <3>4. removed' + i = removed + (n + i)
      BY <1>0, <2>1, <2>2
    <3> QED BY <3>2, <3>3, <3>4
  <2>6. removed' + Len(messages') = appended'
    <3>1. removed + Len(messages) = appended
      BY DEF LogIntegrity
    <3>2. Len(messages') = Len(messages) - n
      BY <2>3
    <3>3. removed' = removed + n /\ appended' = appended
      BY <2>1
    <3> QED BY <1>0, <2>2, <3>1, <3>2, <3>3
  <2>7. \A i \in DOMAIN messages' : messages'[i] = removed' + i
    BY <2>4, <2>5
  <2> QED BY <2>6, <2>7 DEF LogIntegrity
<1>3. CASE UNCHANGED <<messages, appended, removed>>
  BY <1>3 DEF LogIntegrity
<1> QED BY <1>1, <1>2, <1>3, LogSteps

\* The slice holds every appended message that Compact has not removed, in the
\* order of the appends and once, whatever offsets clients commit and however
\* their commits interleave with Compact.
THEOREM LogIntegrityHolds == Spec => []LogIntegrity
BY TypeInvInit, TypeInvStep, LogIntegrityInit, LogIntegrityStep, NextIsAnyNext, PTL DEF Spec

\* Every step of the log appends one message or drops some at the head.
LEMMA RetainedStep ==
  TypeInv /\ LogIntegrity /\ [AnyNext]_vars => [Retained!Next]_<<messages, removed>>
<1> SUFFICES ASSUME TypeInv, LogIntegrity, [AnyNext]_vars
             PROVE  [Retained!Next]_<<messages, removed>>
  OBVIOUS
<1>1. CASE AppendMessage
  <2>1. removed + Len(messages) = appended
    BY DEF LogIntegrity
  <2> QED BY <1>1, <2>1 DEF AppendMessage, Retained!Next, Retained!AppendOne
<1>2. CASE CompactCut
  BY <1>2, CutDrops DEF Retained!Next, Retained!Trim
<1>3. CASE UNCHANGED <<messages, appended, removed>>
  BY <1>3
<1> QED BY <1>1, <1>2, <1>3, LogSteps

LEMMA RetainedInit == Init => Retained!Init
BY DEF Init, Retained!Init

\* Partition implements RetainedLog: readers see a log that grows at its tail
\* and loses a prefix, never anything else.
THEOREM ImplementsRetainedLog == Spec => RetainedSpec
BY RetainedInit, RetainedStep, TypeInvInit, TypeInvStep, LogIntegrityInit, LogIntegrityStep,
   NextIsAnyNext, PTL DEF Spec, RetainedSpec, Retained!Spec

-----------------------------------------------------------------------------
(* Positions across a compaction.                                          *)

\* No counter serves two groups, and a Commit that has loaded the counter of a
\* group is a commit of that group.
Owned ==
  /\ \A g, h \in Group : offsets[g] = offsets[h] /\ offsets[g] # 0 => g = h
  /\ \A p \in Proc, g \in Group :
       commit[p].pc = "store" /\ commit[p].cell = offsets[g] => commit[p].group = g

\* The groups that Compact found in the map and that have not committed since.
Clean == {g \in Group : g \notin dirty /\ start[g] # Unknown}

\* The callback of the current Range is at work on the counter of g.
InCallback(g) == cpc \in {"scanLoad", "shiftLoad", "shiftStore"} /\ cell = offsets[g]

\* In the first Range minOffset is a lower bound of the clean groups visited;
\* in the second, a clean group has been shifted once it has been visited.
ScanInv ==
  \A g \in Clean :
    /\ start[g] = removed + Offset(g)
    /\ g \in seen => InCallback(g) \/ (minOffset \in Nat /\ minOffset <= Offset(g))
ShiftInv ==
  \A g \in Clean :
    /\ removed <= start[g]
    /\ g \in seen /\ ~ InCallback(g) => start[g] = removed + Offset(g)
    /\ ~ (g \in seen /\ ~ InCallback(g)) => start[g] = (removed - minOffset) + Offset(g)
    /\ cpc = "shiftStore" /\ InCallback(g) => oldOffset = Offset(g)

TrackInv ==
  /\ Unlocked => Clean = {}
  /\ \A g \in Clean : offsets[g] # 0 /\ g \in todo
  /\ \A g \in Group : InCallback(g) => g \in seen
  /\ Scanning => ScanInv
  /\ Shifting => ShiftInv

LEMMA OwnedInit == Init => Owned
BY DEF Init, Owned, Idle

LEMMA OwnedStep == TypeInv /\ Owned /\ [AnyNext]_vars => Owned'
<1> SUFFICES ASSUME TypeInv, Owned, [AnyNext]_vars PROVE Owned'
  OBVIOUS
<1>0. /\ offsets \in [Group -> {0} \cup DOMAIN counter]
      /\ counter \in Seq(Nat) /\ DOMAIN counter = 1..Len(counter) /\ Len(counter) \in Nat
      /\ DOMAIN commit = Proc
  BY LenProperties DEF TypeInv, TypeOK
<1>1. ASSUME NEW p \in Proc, NEW c, c.pc # "store",
             commit' = [commit EXCEPT ![p] = c], UNCHANGED offsets
      PROVE  Owned'
  BY <1>0, <1>1 DEF Owned
<1>2. ASSUME NEW p \in Proc, NEW g \in Group, NEW off \in Int, CommitCall(p, g, off)
      PROVE  Owned'
  BY <1>1, <1>2 DEF CommitCall, offsetVars
<1>3. ASSUME NEW p \in Proc, CommitCheck(p) PROVE Owned'
  <2>1. commit[p].pc = "check" /\
          commit[p] = [pc |-> "check", group |-> commit[p].group, offset |-> commit[p].offset]
    BY <1>3, CommitShape DEF CommitCheck, TypeInv
  <2>2. [commit[p] EXCEPT !.pc = "load"].pc = "load"
    BY <2>1
  <2> QED BY <1>1, <1>3, <2>2 DEF CommitCheck, Idle, offsetVars
<1>4. ASSUME NEW p \in Proc, CommitLoad(p) PROVE Owned'
  <2> DEFINE g0 == commit[p].group
             k  == offsets[g0]
             c  == [pc |-> "store", group |-> g0, offset |-> commit[p].offset, cell |-> k]
  <2>1. g0 \in Group /\ UNCHANGED offsets
    BY <1>4, CommitShape DEF CommitLoad, TypeInv, Idle, offsetVars
  <2>2. CASE k # 0
    <3>1. commit' = [commit EXCEPT ![p] = c]
      BY <1>4, <2>2 DEF CommitLoad
    <3> QED BY <1>0, <2>1, <2>2, <3>1 DEF Owned
  <2>3. CASE k = 0
    BY <1>1, <1>4, <2>1, <2>3 DEF CommitLoad
  <2> QED BY <2>2, <2>3
<1>5. ASSUME NEW p \in Proc, CommitStore(p) PROVE Owned'
  BY <1>1, <1>5 DEF CommitStore, Idle
<1>6. ASSUME NEW p \in Proc, CommitRegister(p) PROVE Owned'
  <2> DEFINE g0 == commit[p].group
             n  == Len(counter) + 1
  <2>1. /\ g0 \in Group
        /\ offsets' = [offsets EXCEPT ![g0] = n]
        /\ commit' = [commit EXCEPT ![p] = Idle]
    BY <1>6, CommitShape DEF CommitRegister, TypeInv, Idle
  <2>2. n # 0 /\ \A g \in Group : offsets[g] # n
    BY <1>0
  <2>3. \A q \in Proc : commit[q].pc = "store" => commit[q].cell # n
    BY <1>0, CommitShape DEF TypeInv
  <2> HIDE DEF n
  <2> QED BY <1>0, <2>1, <2>2, <2>3 DEF Owned, Idle
<1>7. CASE UNCHANGED <<offsets, commit>>
  BY <1>7 DEF Owned
<1> QED BY <1>2, <1>3, <1>4, <1>5, <1>6, <1>7 DEF AnyNext, CommitStep, vars, offsetVars,
     AppendMessage, CompactLock, CompactStep, CompactVisit, CompactScanLoad, CompactNothing,
     CompactCut, CompactShiftLoad, CompactShiftStore, CompactUnlock

LEMMA TrackInvInit == Init => TrackInv
BY DEF Init, TrackInv, Clean, InCallback, Scanning, Shifting, Unlocked, Unknown

\* A step that leaves alone what TrackInv is about.
LEMMA TrackFrame ==
  ASSUME TrackInv, UNCHANGED <<removed, offsetVars, rangeVars, historyVars>>
  PROVE  TrackInv'
BY DEF TrackInv, ScanInv, ShiftInv, Clean, InCallback, Scanning, Shifting, Unlocked, Offset,
   offsetVars, rangeVars, historyVars

\* A step by which only g0 moves, and which says so if Compact is at work.
LEMMA TrackTouch ==
  ASSUME TypeInv, TrackInv, NEW g0 \in Group, Touch(g0),
         UNCHANGED <<removed, rangeVars, start>>,
         \A g \in Group \ {g0} : offsets'[g] = offsets[g] /\ Offset(g)' = Offset(g),
         offsets'[g0] = offsets[g0] \/ offsets'[g0] \notin {0} \cup DOMAIN counter
  PROVE  TrackInv'
<1>1. cell \in {0} \cup DOMAIN counter
  BY DEF TypeInv, TypeOK
<1>2. \A g \in Group : InCallback(g)' => InCallback(g)
  BY <1>1 DEF InCallback, rangeVars
<1>3. \A g \in Clean' : g # g0 /\ g \in Clean
  <2>1. CASE Unlocked
    BY <2>1 DEF Touch, TrackInv, Clean
  <2>2. CASE ~ Unlocked
    BY <2>2 DEF Touch, Clean
  <2> QED BY <2>1, <2>2
<1>4. \A g \in Clean' : /\ g \in Clean /\ offsets'[g] = offsets[g] /\ Offset(g)' = Offset(g)
                        /\ InCallback(g)' <=> InCallback(g)
  BY <1>3 DEF InCallback, rangeVars, Clean
<1>5. UNCHANGED <<cpc, todo, seen, minOffset, oldOffset, removed, start>>
  BY DEF rangeVars
<1>6. (Unlocked => Clean = {})'
  BY <1>4, <1>5 DEF TrackInv, Unlocked
<1>7. (\A g \in Clean : offsets[g] # 0 /\ g \in todo)'
  BY <1>4, <1>5 DEF TrackInv
<1>8. (\A g \in Group : InCallback(g) => g \in seen)'
  BY <1>2, <1>5 DEF TrackInv
<1>9. (Scanning => ScanInv)'
  BY <1>4, <1>5 DEF TrackInv, Scanning, ScanInv
<1>10. (Shifting => ShiftInv)'
  BY <1>4, <1>5 DEF TrackInv, Shifting, ShiftInv
<1> QED BY <1>6, <1>7, <1>8, <1>9, <1>10 DEF TrackInv

LEMMA TrackInvStep == TypeInv /\ Owned /\ TrackInv /\ [AnyNext]_vars => TrackInv'
<1> SUFFICES ASSUME TypeInv, Owned, TrackInv, [AnyNext]_vars PROVE TrackInv'
  OBVIOUS
<1>0. /\ offsets \in [Group -> {0} \cup DOMAIN counter]
      /\ counter \in Seq(Nat) /\ DOMAIN counter = 1..Len(counter) /\ Len(counter) \in Nat
      /\ \A k \in DOMAIN counter : counter[k] \in Nat
      /\ removed \in Nat /\ minOffset \in Nat \cup {-1} /\ oldOffset \in Nat
      /\ start \in [Group -> Nat \cup {Unknown}]
  BY LenProperties, ElementOfSeq DEF TypeInv, TypeOK
<1>00. \A g \in Group : Offset(g) \in Nat
  BY <1>0 DEF Offset
<1>1. CASE AppendMessage
  BY <1>1, TrackFrame DEF AppendMessage
<1>2. ASSUME NEW p \in Proc, NEW g \in Group, NEW off \in Int, CommitCall(p, g, off)
      PROVE  TrackInv'
  BY <1>2, TrackFrame DEF CommitCall, logVars
<1>3. ASSUME NEW p \in Proc, CommitCheck(p) PROVE TrackInv'
  BY <1>3, TrackFrame DEF CommitCheck, logVars
<1>4. ASSUME NEW p \in Proc, CommitLoad(p) PROVE TrackInv'
  BY <1>4, TrackFrame DEF CommitLoad, logVars
<1>5. ASSUME NEW p \in Proc, CommitStore(p) PROVE TrackInv'
  <2> DEFINE g0 == commit[p].group
             k  == commit[p].cell
  <2>1. g0 \in Group /\ k \in DOMAIN counter
    BY <1>5, CommitShape DEF CommitStore, TypeInv, Idle
  <2>2. \A g \in Group \ {g0} : offsets[g] # k
    BY <1>5 DEF CommitStore, Owned
  <2>3. /\ counter' = [counter EXCEPT ![k] = commit[p].offset]
        /\ UNCHANGED offsets
        /\ UNCHANGED <<removed, rangeVars, start>>
        /\ Touch(g0)
    BY <1>5 DEF CommitStore, logVars
  <2>4. \A g \in Group \ {g0} : offsets'[g] = offsets[g] /\ Offset(g)' = Offset(g)
    BY <1>0, <2>1, <2>2, <2>3 DEF Offset
  <2> HIDE DEF g0, k
  <2> QED BY <2>1, <2>3, <2>4, TrackTouch
<1>6. ASSUME NEW p \in Proc, CommitRegister(p) PROVE TrackInv'
  <2> DEFINE g0 == commit[p].group
             n  == Len(counter) + 1
  <2>1. g0 \in Group /\ commit[p].offset \in Nat
    BY <1>6, CommitShape DEF CommitRegister, TypeInv, Idle
  <2>2. /\ counter' = Append(counter, commit[p].offset)
        /\ offsets' = [offsets EXCEPT ![g0] = n]
        /\ UNCHANGED <<removed, rangeVars, start>>
        /\ Touch(g0)
    BY <1>6 DEF CommitRegister, logVars
  <2>3. \A k \in DOMAIN counter : counter'[k] = counter[k]
    BY <1>0, <2>1, <2>2, AppendProperties
  <2>4. \A g \in Group \ {g0} : offsets'[g] = offsets[g] /\ Offset(g)' = Offset(g)
    BY <1>0, <2>1, <2>2, <2>3 DEF Offset
  <2>5. offsets'[g0] = n /\ n \notin {0} \cup DOMAIN counter
    BY <1>0, <2>1, <2>2
  <2> HIDE DEF g0, n
  <2> QED BY <2>1, <2>2, <2>4, <2>5, TrackTouch
<1>7. CASE CompactLock
  <2>1. /\ cpc' = "scan" /\ seen' = {} /\ todo' = Registered
        /\ UNCHANGED <<removed, offsets, counter, dirty>>
        /\ start' = [g \in Group |-> IF g \in Registered THEN removed + Offset(g) ELSE Unknown]
    BY <1>7 DEF CompactLock, BeginRange, logVars, offsetVars
  <2>2. \A g \in Clean' : g \in Registered /\ start'[g] = removed + Offset(g)
    BY <2>1 DEF Clean
  <2>3. \A g \in Group : Offset(g)' = Offset(g)
    BY <2>1 DEF Offset
  <2> QED BY <2>1, <2>2, <2>3 DEF TrackInv, ScanInv, Scanning, Shifting, Unlocked, InCallback, Registered
<1>8. ASSUME NEW h \in Group, CompactVisit(h) PROVE TrackInv'
  <2>1. /\ cpc \in {"scan", "shift"}
        /\ cpc' = IF cpc = "scan" THEN "scanLoad" ELSE "shiftLoad"
        /\ offsets[h] # 0 /\ h \notin seen
        /\ cell' = offsets[h] /\ seen' = seen \cup {h}
        /\ UNCHANGED <<removed, offsets, counter, todo, minOffset, oldOffset, start, dirty>>
    BY <1>8 DEF CompactVisit, Registered, logVars, offsetVars, historyVars
  <2>2. \A g \in Group : InCallback(g)' <=> g = h
    BY <2>1 DEF InCallback, Owned
  <2>3. \A g \in Group : ~ InCallback(g)
    BY <2>1 DEF InCallback
  <2>4. Clean' = Clean /\ \A g \in Group : Offset(g)' = Offset(g)
    BY <2>1 DEF Clean, Offset
  <2>5. (Scanning => ScanInv)'
    BY <2>1, <2>2, <2>3, <2>4 DEF TrackInv, Scanning, ScanInv, Clean
  <2>6. (Shifting => ShiftInv)'
    BY <2>1, <2>2, <2>3, <2>4 DEF TrackInv, Shifting, ShiftInv, Clean
  <2> QED BY <2>1, <2>2, <2>4, <2>5, <2>6 DEF TrackInv, Unlocked
<1>9. CASE CompactScanLoad
  <2>1. /\ cpc = "scanLoad" /\ cpc' = "scan" /\ cell \in DOMAIN counter
        /\ minOffset' = LowerBound(minOffset, counter[cell])
        /\ UNCHANGED <<removed, offsets, counter, todo, seen, start, dirty>>
    BY <1>9 DEF CompactScanLoad, TypeInv, TypeOK, logVars, offsetVars, historyVars
  <2>2. counter[cell] \in Nat
    BY <1>0, <2>1
  <2>3. /\ minOffset' \in Nat /\ minOffset' <= counter[cell]
        /\ minOffset \in Nat => minOffset' <= minOffset
    BY <1>0, <2>1, <2>2 DEF LowerBound
  <2>4. Clean' = Clean /\ \A g \in Group : Offset(g)' = Offset(g) /\ ~ InCallback(g)'
    BY <2>1 DEF Clean, Offset, InCallback
  <2>5. ASSUME NEW g \in Clean, g \in seen PROVE minOffset' <= Offset(g)
    <3>1. CASE InCallback(g)
      BY <2>1, <2>3, <3>1 DEF InCallback, Offset, TrackInv
    <3>2. CASE minOffset \in Nat /\ minOffset <= Offset(g)
      BY <1>00, <2>3, <3>2 DEF Clean
    <3> QED BY <2>1, <2>5, <3>1, <3>2 DEF TrackInv, ScanInv, Scanning
  <2> QED BY <2>1, <2>3, <2>4, <2>5 DEF TrackInv, ScanInv, Scanning, Shifting, Unlocked, Clean
<1>10. CASE CompactNothing
  BY <1>10 DEF CompactNothing, Release, TrackInv, Clean, InCallback, Scanning, Shifting, Unlocked
<1>11. CASE CompactCut
  <2>1. /\ cpc = "scan" /\ todo \subseteq seen /\ cpc' = "shift"
        /\ todo' = Registered /\ seen' = {}
        /\ UNCHANGED <<offsets, counter, start, dirty>>
    BY <1>11 DEF CompactCut, BeginRange, offsetVars, historyVars
  <2>2. /\ minOffset' \in Nat /\ minOffset' <= minOffset /\ minOffset \in Nat
        /\ removed' = removed + minOffset'
    <3>1. Len(messages) \in Nat
      BY LenProperties DEF TypeInv, TypeOK
    <3>2. minOffset \in Nat
      BY <1>0, <1>11 DEF CompactCut
    <3> QED BY <1>11, <3>1, <3>2, CutDrops
  <2>3. Clean' = Clean /\ \A g \in Group : Offset(g)' = Offset(g) /\ ~ InCallback(g)'
    BY <2>1 DEF Clean, Offset, InCallback
  <2>4. ASSUME NEW g \in Clean
        PROVE  /\ removed' <= start[g]
               /\ start[g] = (removed' - minOffset') + Offset(g)
    <3>1. start[g] = removed + Offset(g) /\ minOffset <= Offset(g) /\ Offset(g) \in Nat
      BY <1>00, <2>1 DEF TrackInv, ScanInv, Scanning, InCallback, Clean
    <3> QED BY <1>0, <2>2, <3>1
  <2> QED BY <2>1, <2>3, <2>4 DEF TrackInv, ShiftInv, Scanning, Shifting, Unlocked, Registered, Clean
<1>12. CASE CompactShiftLoad
  <2>1. /\ cpc = "shiftLoad" /\ cpc' = "shiftStore" /\ oldOffset' = counter[cell]
        /\ UNCHANGED <<removed, offsets, counter, todo, seen, cell, minOffset, start, dirty>>
    BY <1>12 DEF CompactShiftLoad, logVars, offsetVars, historyVars
  <2>2. Clean' = Clean /\ \A g \in Group : Offset(g)' = Offset(g) /\ (InCallback(g)' <=> InCallback(g))
    BY <2>1 DEF Clean, Offset, InCallback
  <2>3. \A g \in Clean : InCallback(g) => oldOffset' = Offset(g)
    BY <2>1 DEF InCallback, Offset, TrackInv
  <2> QED BY <2>1, <2>2, <2>3 DEF TrackInv, ShiftInv, Scanning, Shifting, Unlocked, Clean
<1>13. CASE CompactShiftStore
  <2>1. /\ cpc = "shiftStore" /\ cpc' = "shift" /\ cell \in DOMAIN counter
        /\ counter' = [counter EXCEPT ![cell] = Shifted(oldOffset, minOffset)]
        /\ UNCHANGED <<removed, offsets, todo, seen, minOffset, start, dirty>>
    BY <1>13 DEF CompactShiftStore, TypeInv, TypeOK, logVars, historyVars
  <2>2. Clean' = Clean /\ \A g \in Group : ~ InCallback(g)'
    BY <2>1 DEF Clean, InCallback
  <2>3. minOffset \in Nat
    BY <1>0, <2>1 DEF TypeInv, TypeOK, Shifting
  <2>4. ASSUME NEW g \in Clean, InCallback(g)
        PROVE  g \in seen /\ start[g] = removed + Offset(g)'
    <3>1. g \in Group /\ offsets[g] = cell /\ g \in seen
      BY <2>4 DEF InCallback, TrackInv, Clean
    <3>2. Offset(g)' = Shifted(oldOffset, minOffset)
      BY <1>0, <2>1, <3>1 DEF Offset
    <3>3. /\ removed <= start[g] /\ start[g] = (removed - minOffset) + Offset(g)
          /\ oldOffset = Offset(g)
      BY <2>1, <2>4, <3>1 DEF TrackInv, ShiftInv, Shifting
    <3>4. start[g] \in Int /\ Offset(g) \in Nat
      BY <1>0, <1>00, <3>1, <3>3
    <3>5. oldOffset - minOffset >= 0 /\ start[g] = removed + (oldOffset - minOffset)
      BY <1>0, <2>3, <3>3, <3>4
    <3>6. Offset(g)' = oldOffset - minOffset
      BY <1>0, <2>3, <3>2, <3>5 DEF Shifted, Greater
    <3> QED BY <3>1, <3>5, <3>6
  <2>5. ASSUME NEW g \in Clean, ~ InCallback(g) PROVE Offset(g)' = Offset(g)
    BY <1>0, <2>1, <2>5 DEF Offset, InCallback, Clean
  <2>6. ShiftInv'
    BY <2>1, <2>2, <2>4, <2>5 DEF TrackInv, ShiftInv, Shifting, Clean
  <2> QED BY <2>1, <2>2, <2>6 DEF TrackInv, Scanning, Shifting, Unlocked, Clean
<1>14. CASE CompactUnlock
  BY <1>14 DEF CompactUnlock, Release, TrackInv, Clean, InCallback, Scanning, Shifting, Unlocked
<1>15. CASE UNCHANGED vars
  BY <1>15, TrackFrame DEF vars, logVars
<1> QED BY <1>1, <1>2, <1>3, <1>4, <1>5, <1>6, <1>7, <1>8, <1>9, <1>10, <1>11, <1>12, <1>13,
     <1>14, <1>15 DEF AnyNext, CommitStep, CompactStep

LEMMA TrackedWatermark == TrackInv => WatermarkRespected
BY DEF TrackInv, ShiftInv, WatermarkRespected, Clean

\* Compact removes no message that a group of the map had still to read when
\* it took the lock, unless that group commits while Compact is at work.
THEOREM WatermarkRespectedHolds == Spec => []WatermarkRespected
BY TrackedWatermark, TypeInvInit, TypeInvStep, OwnedInit, OwnedStep, TrackInvInit, TrackInvStep,
   NextIsAnyNext, PTL DEF Spec

LEMMA PositionKeptStep ==
  ASSUME TypeInv, TrackInv, [AnyNext]_vars, cpc # "idle", cpc' = "idle"
  PROVE  \A g \in Group \ dirty : start[g] # Unknown => removed + Offset(g) = start[g]
<1>1. CompactNothing \/ CompactUnlock
  BY DEF AnyNext, vars, rangeVars, AppendMessage, CommitCall, CommitCheck, CommitStep, CommitLoad,
     CommitStore, CommitRegister, CompactLock, CompactStep, CompactVisit, CompactScanLoad,
     CompactCut, CompactShiftLoad, CompactShiftStore, Unlocked
<1> SUFFICES ASSUME NEW g \in Clean PROVE removed + Offset(g) = start[g]
  BY DEF Clean
<1>2. CASE CompactNothing
  BY <1>2 DEF CompactNothing, TrackInv, ScanInv, Scanning
<1>3. CASE CompactUnlock
  <2>1. g \in seen /\ ~ InCallback(g)
    BY <1>3 DEF CompactUnlock, TrackInv, InCallback
  <2> QED BY <1>3, <2>1 DEF CompactUnlock, TrackInv, ShiftInv, Shifting
<1> QED BY <1>1, <1>2, <1>3

\* Compact moves no group that does not commit while it is at work, although
\* offsets are relative to the first retained message and it adjusts each one
\* by a load and a store that commits of the others interleave with.
THEOREM PositionKeptHolds == Spec => PositionKept
<1>1. TypeInv /\ TrackInv /\ [AnyNext]_vars =>
        [ cpc # "idle" /\ cpc' = "idle" =>
            \A g \in Group \ dirty : start[g] # Unknown => removed + Offset(g) = start[g] ]_vars
  BY PositionKeptStep
<1> QED BY <1>1, TypeInvInit, TypeInvStep, OwnedInit, OwnedStep, TrackInvInit, TrackInvStep,
     NextIsAnyNext, PTL DEF Spec, PositionKept
=============================================================================
