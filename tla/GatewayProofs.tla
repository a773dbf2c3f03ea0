--------------------------- MODULE GatewayProofs ---------------------------
(***************************************************************************)
(* Theorems about module Gateway, for any pipeline that fills the table,   *)
(* any windows that clients ask for and any number of restarts.            *)
(***************************************************************************)
EXTENDS Gateway, PipelineProofs, Extremes

Messages == [gpu : Gpu, sec : Nat, payload : {"record", "bad", "opaque"}]

\* No record has a timestamp of the future.
Stamped ==
  /\ \A n \in DOMAIN sent : sent[n].sec <= clock
  /\ \A s \in Streamer : streamer[s].pc = "publish" => streamer[s].sec <= clock
  /\ \A i \in Slot : late[i].op = "publish" => late[i].record.sec <= clock

\* A row is made from a record, and when all before it in its partition were
\* dealt with, unless that partition was overtaken.
RowInv ==
  \A r \in rows :
    Valid(r) /\ (PartitionOf[sent[r].gpu] \notin overtaken => Preceded(r))

\* The follower has rows, the last of them of its EndTime, and misses none.
FollowInv ==
  /\ follower.records \subseteq rows
  /\ follower.upTo = NoTime \/ \E r \in follower.records : sent[r].sec = follower.upTo
  /\ FollowerMissesNothing

GInv == Inv /\ Stamped /\ RowInv /\ GTypeOK /\ AnswersStand /\ FollowInv

-----------------------------------------------------------------------------
(* What a step of the pipeline does to those who read the table.           *)

\* Message m is published.
Publication(m) == Accept(m) /\ m.sec <= clock /\ UNCHANGED <<committed, rows, failed, overtaken>>

\* Message m becomes a row.
NewRow(m) ==
  /\ Valid(m) /\ ~ Stored(m)
  /\ PartitionOf[sent[m].gpu] \notin overtaken => Preceded(m)
  /\ rows' = rows \cup {m}
  /\ UNCHANGED sent

LEMMA Effect ==
  ASSUME Inv, Stamped, [Next]_vars
  PROVE  /\ Grown /\ rows \subseteq rows' /\ failed \subseteq failed'
         /\ \/ UNCHANGED <<sent, rows>>
            \/ \E m \in Messages : Publication(m)
            \/ \E m \in DOMAIN sent : NewRow(m)
<1>1. ASSUME UNCHANGED <<sent, log, rows, failed, overtaken>>
      PROVE  Grown /\ rows \subseteq rows' /\ failed \subseteq failed' /\ UNCHANGED <<sent, rows>>
  BY <1>1, StillGrown
<1>2. CASE Tick \/ Signal \/ CloseStore
  BY <1>1, <1>2 DEF Tick, Signal, CloseStore, brokerVars, tableVars
<1>3. ASSUME NEW s \in Streamer, Stamp(s) \/ PublishFails(s) \/ StreamerRestart(s)
      PROVE  UNCHANGED <<sent, log, rows, failed, overtaken>>
  BY <1>3 DEF Stamp, PublishFails, StreamerRestart, brokerVars, tableVars
<1>4. ASSUME NEW m \in Messages, Publication(m)
      PROVE  Grown /\ rows \subseteq rows' /\ failed \subseteq failed'
  <2>1. m \in [gpu : Gpu, sec : Nat, payload : {"record", "bad", "opaque"}]
    BY DEF Messages
  <2> QED BY <1>4, <2>1, AcceptStep DEF Publication
<1>5. ASSUME NEW s \in Streamer, Publish(s) PROVE \E m \in Messages : Publication(m)
  <2>1. Outgoing(s) \in Messages
    BY <1>5, OutgoingType DEF Publish, Messages
  <2>2. Outgoing(s).sec <= clock
    BY <1>5 DEF Publish, Stamped, Outgoing
  <2>3. Accept(Outgoing(s)) /\ UNCHANGED <<committed, rows, failed, overtaken>>
    BY <1>5 DEF Publish, tableVars
  <2> QED BY <2>1, <2>2, <2>3 DEF Publication
<1>6. ASSUME PublishOther PROVE \E m \in Messages : Publication(m)
  <2>1. PICK g \in Gpu, k \in OtherPayload : Accept([gpu |-> g, sec |-> clock, payload |-> k])
    BY <1>6 DEF PublishOther
  <2> DEFINE m == [gpu |-> g, sec |-> clock, payload |-> k]
  <2>2. m \in Messages /\ m.sec <= clock
    BY PipelineAssumption DEF Inv, TypeOK, Messages
  <2>3. Accept(m) /\ UNCHANGED <<committed, rows, failed, overtaken>>
    BY <1>6, <2>1 DEF PublishOther, tableVars
  <2> HIDE DEF m
  <2> QED BY <2>2, <2>3 DEF Publication
<1>7. CASE \/ (\E p \in Part : PollRead(p)) \/ PollRespond \/ ConsumeFails
           \/ Ack \/ AckFails \/ CollectorRestart \/ \E i \in Slot : AckLands(i)
  BY <1>7, PollStep, AckStep
<1>8. CASE Reject \/ Insert \/ InsertFails
  <2>1. Grown /\ UNCHANGED <<sent, overtaken>> /\ failed \subseteq failed'
    <3>1. failed \subseteq failed'
      BY <1>8 DEF Reject, Insert, InsertFails, tableVars
    <3> QED BY <1>8, <3>1, MessageStep
  <2>2. /\ Message \in DOMAIN sent
        /\ PartitionOf[sent[Message].gpu] \notin overtaken => Preceded(Message)
    BY <1>8, MessageShape DEF Reject, Insert, InsertFails, Processing
  <2>3. UNCHANGED rows \/ (Valid(Message) /\ rows' = WithRow(Message))
    BY <1>8 DEF Reject, Insert, InsertFails, tableVars
  <2> QED BY <2>1, <2>2, <2>3 DEF NewRow, WithRow
<1>9. ASSUME NEW i \in Slot, InsertLands(i)
      PROVE  /\ Grown /\ rows \subseteq rows' /\ failed \subseteq failed'
             /\ UNCHANGED <<sent, rows>> \/ \E m \in DOMAIN sent : NewRow(m)
  <2>1. UNCHANGED failed
    BY <1>9 DEF InsertLands
  <2> QED BY <1>9, <2>1, LateInsertStep DEF NewRow, WithRow
<1>10. CASE UNCHANGED vars
  BY <1>1, <1>10 DEF vars, brokerVars, tableVars
<1>11. CASE PublishOther \/ \E s \in Streamer : Publish(s)
  <2>1. PICK m \in Messages : Publication(m)
    BY <1>5, <1>6, <1>11
  <2> QED BY <1>4, <2>1
<1>15. ASSUME NEW i \in Slot, PublishLands(i)
       PROVE  /\ Grown /\ rows \subseteq rows' /\ failed \subseteq failed'
              /\ UNCHANGED <<sent, rows>> \/ \E m \in Messages : Publication(m)
  <2>1. CASE UNCHANGED brokerVars
    BY <1>1, <1>15, <2>1 DEF PublishLands, brokerVars, tableVars
  <2>2. CASE Accept(late[i].record)
    <3>1. late[i].record \in Messages
      BY <1>15, LateRecordType DEF Messages
    <3>2. late[i].record.sec <= clock
      BY <1>15 DEF PublishLands, Stamped
    <3>3. Publication(late[i].record)
      BY <1>15, <2>2, <3>2 DEF Publication, PublishLands, tableVars
    <3> QED BY <1>4, <3>1, <3>3
  <2> QED BY <1>15, <2>1, <2>2 DEF PublishLands
<1>16. CASE \E i \in Slot : PublishLands(i)
  BY <1>15, <1>16
<1>12. CASE \E s \in Streamer : Stamp(s) \/ PublishFails(s) \/ StreamerRestart(s)
  BY <1>1, <1>3, <1>12
<1>13. CASE \E i \in Slot : InsertLands(i)
  BY <1>9, <1>13
<1>14. CASE CollectorStep \/ CollectorRestart \/ \E i \in Slot : AckLands(i)
  BY <1>7, <1>8, <1>14 DEF CollectorStep
<1> QED BY <1>2, <1>10, <1>11, <1>12, <1>13, <1>14, <1>16 DEF Next

\* Messages stay what they are, and the table grows.
LEMMA Grows ==
  ASSUME Inv, Stamped, [Next]_vars
  PROVE  /\ Grown
         /\ DOMAIN sent \subseteq DOMAIN sent'
         /\ \A n \in DOMAIN sent : sent'[n] = sent[n]
         /\ rows \subseteq rows' /\ failed \subseteq failed' /\ overtaken \subseteq overtaken'
BY Effect DEF Grown

LEMMA QuietStreamers ==
  ASSUME [Next]_vars
  PROVE  /\ Tick \/ UNCHANGED clock
         /\ UNCHANGED streamer
            \/ \E s \in Streamer : Stamp(s) \/ Publish(s) \/ PublishFails(s) \/ StreamerRestart(s)
BY DEF Next, Tick, Stamp, Publish, PublishFails, StreamerRestart, PublishOther, CollectorStep, PollRead,
       PollRespond, ConsumeFails, Reject, Insert, InsertFails, Processing, Ack, AckFails, AckLands,
       InsertLands, PublishLands, Signal, CloseStore, CollectorRestart, streamVars, vars

\* A publication that is abandoned is one that a streamer was making.
LEMMA LatePublications ==
  ASSUME Inv, [Next]_vars, NEW i \in Slot, late'[i].op = "publish"
  PROVE  \/ late'[i] = late[i]
         \/ \E s \in Streamer : streamer[s].pc = "publish" /\ late'[i] = PublishOf(Outgoing(s))
<1>1. late = [j \in Slot |-> late[j]]
  BY DEF Inv, TypeOK
<1>2. ASSUME NEW j \in Slot, NEW r, late' = [late EXCEPT ![j] = r]
      PROVE  late'[i] = late[i] \/ late'[i] = r
  BY <1>1, <1>2
<1>3. ASSUME NEW r, Abandon(r) PROVE late'[i] = late[i] \/ late'[i] = r
  BY <1>2, <1>3 DEF Abandon
<1>4. CASE \E s \in Streamer : PublishFails(s) \/ StreamerRestart(s)
  BY <1>3, <1>4 DEF PublishFails, StreamerRestart
<1>5. CASE \E j \in Slot : AckLands(j) \/ InsertLands(j) \/ PublishLands(j)
  BY <1>2, <1>5 DEF AckLands, InsertLands, PublishLands, NoRequest
<1>6. CASE InsertFails \/ AckFails \/ CollectorRestart
  <2>1. \/ UNCHANGED late \/ Abandon(AckOf(col.part, col.next)) \/ Abandon(InsertOf(Message))
    BY <1>6 DEF InsertFails, AckFails, CollectorRestart
  <2>2. AckOf(col.part, col.next).op = "ack" /\ InsertOf(Message).op = "insert"
    BY DEF AckOf, InsertOf
  <2>3. late'[i] # AckOf(col.part, col.next) /\ late'[i] # InsertOf(Message)
    BY <2>2
  <2> QED BY <1>3, <2>1, <2>3
<1>7. CASE UNCHANGED late
  BY <1>7
<1>8. UNCHANGED late \/ (\E s \in Streamer : PublishFails(s) \/ StreamerRestart(s))
      \/ (\E j \in Slot : AckLands(j) \/ InsertLands(j) \/ PublishLands(j))
      \/ InsertFails \/ AckFails \/ CollectorRestart
  BY DEF Next, Tick, Stamp, Publish, PublishOther, CollectorStep, PollRead, PollRespond, ConsumeFails,
         Reject, Insert, Ack, Signal, CloseStore, vars
<1> QED BY <1>4, <1>5, <1>6, <1>7, <1>8

LEMMA StampedStep ==
  ASSUME Inv, Stamped, [Next]_vars
  PROVE  Stamped'
<1>1. clock \in Nat /\ clock' \in Nat /\ clock <= clock'
  <2>1. clock \in Nat
    BY DEF Inv, TypeOK
  <2>2. CASE Tick
    BY <2>1, <2>2 DEF Tick
  <2>3. CASE ~ Tick
    <3>1. clock' = clock
      BY <2>3, QuietStreamers
    <3> QED BY <2>1, <3>1
  <2> QED BY <2>2, <2>3
<1>2. ASSUME NEW n \in DOMAIN sent' PROVE sent'[n].sec <= clock'
  <2>1. CASE n \in DOMAIN sent
    <3>1. sent[n].sec \in Nat
      BY <2>1, SentType DEF Inv
    <3>2. sent'[n].sec = sent[n].sec /\ sent[n].sec <= clock
      BY <2>1, Grows DEF Stamped
    <3> QED BY <1>1, <3>1, <3>2
  <2>2. CASE n \notin DOMAIN sent
    <3>1. PICK m \in Messages : Publication(m)
      BY <1>2, <2>2, Effect DEF NewRow
    <3>2. m \in [gpu : Gpu, sec : Nat, payload : {"record", "bad", "opaque"}]
      BY DEF Messages
    <3>3. sent'[n] = m
      <4>1. /\ DOMAIN sent = 1..Len(sent) /\ DOMAIN sent' = 1..(Len(sent) + 1) /\ Len(sent) \in Nat
            /\ sent'[Len(sent) + 1] = m
        BY <3>1, <3>2, AcceptFrame DEF Publication
      <4> QED BY <2>2, <4>1
    <3> QED BY <1>1, <3>1, <3>2, <3>3 DEF Publication
  <2> QED BY <2>1, <2>2
<1>3. ASSUME NEW s \in Streamer, streamer'[s].pc = "publish" PROVE streamer'[s].sec <= clock'
  <2>1. CASE streamer'[s] = streamer[s]
    <3>1. streamer[s].sec \in Nat /\ streamer[s].sec <= clock
      BY <1>3, <2>1 DEF Stamped, Inv, TypeOK
    <3> QED BY <1>1, <2>1, <3>1
  <2>2. CASE streamer'[s] # streamer[s]
    <3>1. PICK t \in Streamer : Stamp(t) \/ Publish(t) \/ PublishFails(t) \/ StreamerRestart(t)
      BY <2>2, QuietStreamers
    <3>2. streamer' = [streamer EXCEPT ![t] = streamer'[t]] /\ streamer \in [Streamer -> [pc : {"next"}, rec : DOMAIN Records]
                               \cup [pc : {"publish"}, rec : DOMAIN Records, sec : Nat]]
      BY <3>1 DEF Stamp, Publish, PublishFails, StreamerRestart, Inv, TypeOK
    <3>3. s = t
      BY <2>2, <3>2
    <3>4. streamer'[s].sec = clock
      BY <1>3, <3>1, <3>2, <3>3 DEF Stamp, Publish, PublishFails, StreamerRestart, AtRecord
    <3> QED BY <1>1, <3>4
  <2> QED BY <2>1, <2>2
<1>4. ASSUME NEW i \in Slot, late'[i].op = "publish" PROVE late'[i].record.sec <= clock'
  <2>1. CASE late'[i] = late[i]
    <3>1. late[i] \in Request
      BY RequestType DEF Inv
    <3>2. late[i].record.sec \in Nat
      BY <1>4, <2>1, <3>1 DEF Request, NoRequest
    <3>3. late[i].record.sec <= clock
      BY <1>4, <2>1 DEF Stamped
    <3> QED BY <1>1, <2>1, <3>2, <3>3
  <2>2. ASSUME NEW s \in Streamer, streamer[s].pc = "publish", late'[i] = PublishOf(Outgoing(s))
        PROVE  late'[i].record.sec <= clock'
    <3>1. streamer[s].sec <= clock /\ streamer[s].sec \in Nat
      BY <2>2 DEF Stamped, Inv, TypeOK
    <3>2. late'[i].record.sec = streamer[s].sec
      BY <2>2 DEF PublishOf, Outgoing
    <3> QED BY <1>1, <3>1, <3>2
  <2> QED BY <1>4, <2>1, <2>2, LatePublications
<1> QED BY <1>2, <1>3, <1>4 DEF Stamped

LEMMA RowInvStep ==
  ASSUME Inv, Stamped, RowInv, [Next]_vars
  PROVE  RowInv'
<1>1. rows \subseteq DOMAIN sent
  BY DEF Inv, TypeOK
<1>2. ASSUME NEW r \in rows'
      PROVE  Valid(r)' /\ (PartitionOf[sent'[r].gpu] \notin overtaken' => Preceded(r)')
  <2>1. r \in rows \/ (NewRow(r) /\ r \in DOMAIN sent)
    BY <1>2, Effect DEF NewRow, Publication
  <2>2. r \in DOMAIN sent /\ Valid(r) /\ (PartitionOf[sent[r].gpu] \notin overtaken => Preceded(r))
    BY <1>1, <2>1 DEF RowInv, NewRow
  <2>3. Grown /\ sent'[r] = sent[r] /\ overtaken \subseteq overtaken'
    BY <2>2, Grows
  <2>4. Valid(r)'
    BY <2>2, <2>3 DEF Valid
  <2> QED BY <2>2, <2>3, <2>4, PrecededKept
<1> QED BY <1>2 DEF RowInv

-----------------------------------------------------------------------------
(* Answers.                                                                *)

Time == Nat \cup {NoTime}

\* The records of an answer are rows, which have seconds up to now.
LEMMA SelectType ==
  ASSUME Inv, Stamped, NEW g, NEW start \in Time, NEW end \in Time
  PROVE  /\ clock \in Nat
         /\ Select(g, start, end) \subseteq rows /\ rows \subseteq DOMAIN sent
         /\ \A r \in DOMAIN sent : sent[r].sec \in 0..clock
         /\ \A r \in Select(g, start, end) : sent[r].gpu = g
         /\ Seconds(Select(g, start, end)) \in SUBSET (0..clock)
         /\ Seconds(Select(g, start, end)) \in SUBSET Nat
<1>1. clock \in Nat /\ rows \subseteq DOMAIN sent
  BY DEF Inv, TypeOK
<1>2. \A r \in DOMAIN sent : sent[r].sec \in 0..clock
  BY <1>1, SentType DEF Inv, Stamped
<1>3. Select(g, start, end) \subseteq rows /\ \A r \in Select(g, start, end) : sent[r].gpu = g
  BY DEF Select
<1>4. \A r \in Select(g, start, end) : sent[r].sec \in 0..clock
  BY <1>1, <1>2, <1>3
<1>5. Seconds(Select(g, start, end)) \in SUBSET (0..clock)
  BY <1>4 DEF Seconds
<1>6. 0..clock \subseteq Nat
  BY <1>1
<1> QED BY <1>1, <1>2, <1>3, <1>5, <1>6

\* The records lie in the window, also in the one that the answer says.
LEMMA ResponseFits ==
  ASSUME Inv, Stamped, NEW g \in Gpu, NEW start \in Time, NEW end \in Time,
         NEW a, a = Response(g, start, end)
  PROVE  /\ a \in [gpu : Gpu, start : Int, end : Int, records : SUBSET DOMAIN sent]
         /\ a.gpu = g /\ a.records = Select(g, start, end)
         /\ \A r \in a.records : sent[r].gpu = g /\ sent[r].sec \in a.start..a.end
         /\ a.records \subseteq Select(a.gpu, a.start, a.end)
         /\ a.records # {} => a.end \in Nat
         /\ a.records # {} /\ end = NoTime => \E r \in a.records : sent[r].sec = a.end
<1> DEFINE records == Select(g, start, end)
<1>1. /\ clock \in Nat /\ records \subseteq rows /\ rows \subseteq DOMAIN sent
      /\ \A r \in DOMAIN sent : sent[r].sec \in 0..clock
      /\ \A r \in records : sent[r].gpu = g
      /\ Seconds(records) \in SUBSET (0..clock) /\ Seconds(records) \in SUBSET Nat
  BY SelectType
<1>2. start \in Int /\ end \in Int
  BY DEF Time, NoTime
<1>3. CASE records = {}
  <2>1. a = [gpu |-> g, start |-> start, end |-> end, records |-> {}]
    BY <1>3 DEF Response
  <2> QED BY <1>2, <1>3, <2>1
<1>4. CASE records # {}
  <2> DEFINE first == StartTime(start, records)  last == EndTime(end, records)
  <2>1. a = [gpu |-> g, start |-> first, end |-> last, records |-> records]
    BY <1>4 DEF Response
  <2>2. Seconds(records) # {}
    BY <1>4 DEF Seconds
  <2>3. first \in Nat /\ \A r \in records : first <= sent[r].sec
    <3>1. CASE start = NoTime
      <4>1. Min(Seconds(records)) \in Seconds(records) /\ \A y \in Seconds(records) : Min(Seconds(records)) <= y
        BY <1>1, <2>2, MinIsLeast
      <4>2. \A r \in records : sent[r].sec \in Seconds(records)
        BY DEF Seconds
      <4> QED BY <1>1, <3>1, <4>1, <4>2 DEF StartTime
    <3>2. CASE start # NoTime
      BY <1>1, <3>2 DEF StartTime, Select, Time
    <3> QED BY <3>1, <3>2
  <2>4. /\ last \in Nat /\ \A r \in records : sent[r].sec <= last
        /\ end = NoTime => last \in Seconds(records)
    <3>1. CASE end = NoTime
      <4>1. Max(Seconds(records)) \in Seconds(records) /\ \A y \in Seconds(records) : Max(Seconds(records)) >= y
        BY <1>1, <2>2, MaxIsGreatest
      <4>2. \A r \in records : sent[r].sec \in Seconds(records)
        BY DEF Seconds
      <4>3. Max(Seconds(records)) \in Nat /\ Seconds(records) \subseteq Nat
        BY <1>1, <4>1
      <4> QED BY <3>1, <4>1, <4>2, <4>3 DEF EndTime
    <3>2. CASE end # NoTime
      BY <1>1, <3>2 DEF EndTime, Select, Time
    <3> QED BY <3>1, <3>2
  <2>5. \A r \in records : sent[r].sec \in first..last
    <3> TAKE r \in records
    <3>1. sent[r].sec \in Nat
      BY <1>1
    <3> QED BY <2>3, <2>4, <3>1
  <2>6. \A r \in records : r \in Select(g, first, last)
    <3> TAKE r \in records
    <3>1. r \in rows /\ sent[r].gpu = g /\ first <= sent[r].sec /\ sent[r].sec <= last /\ sent[r].sec \in Nat
      BY <1>1, <2>3, <2>4
    <3> QED BY <2>3, <2>4, <3>1 DEF Select
  <2>7. end = NoTime => \E r \in records : sent[r].sec = last
    BY <2>4 DEF Seconds
  <2> HIDE DEF records, first, last
  <2>8. /\ a.gpu = g /\ a.start = first /\ a.end = last /\ a.records = records
        /\ a \in [gpu : Gpu, start : Int, end : Int, records : SUBSET DOMAIN sent]
    BY <1>1, <2>1, <2>3, <2>4
  <2> QED BY <1>1, <1>4, <2>4, <2>5, <2>6, <2>7, <2>8 DEF records
<1> QED BY <1>3, <1>4

LEMMA FollowerTime == ASSUME GInv PROVE follower.upTo \in Time
<1>1. CASE follower.upTo = NoTime
  BY <1>1 DEF Time
<1>2. CASE \E r \in follower.records : sent[r].sec = follower.upTo
  <2>1. PICK r \in follower.records : sent[r].sec = follower.upTo
    BY <1>2
  <2>2. r \in DOMAIN sent
    BY DEF GInv, GTypeOK
  <2>3. sent[r].sec \in Nat
    BY <2>2, SentType DEF GInv, Inv
  <2> QED BY <2>1, <2>3 DEF Time
<1> QED BY <1>1, <1>2 DEF GInv, FollowInv

-----------------------------------------------------------------------------
(* Steps of the pipeline, seen by the clients.                             *)

\* Insertion in the order of each partition, and publication in the order of
\* the timestamps, bring no row that is older than one that is there.
LEMMA NewRowIsNew ==
  ASSUME Inv, RowInv, Undisturbed, NEW m \in DOMAIN sent, NewRow(m), sent[m].gpu = Followed,
         NEW r \in rows, sent[r].gpu = Followed
  PROVE  sent[r].sec < sent[m].sec
<1>1. rows \subseteq DOMAIN sent
  BY DEF Inv, TypeOK
<1>2. Valid(r) /\ Valid(m) /\ r \in Nat /\ m \in Nat
  BY <1>1, SentType DEF RowInv, NewRow, Inv
<1>3. sent[r].sec \in Nat /\ sent[m].sec \in Nat
  BY <1>1, SentType DEF Inv
<1>4. sent[r].sec # sent[m].sec /\ r # m
  BY DEF NewRow, Stored, Key
<1>5. ~ (m < r)
  <2>1. m < r => Done(m)
    BY DEF RowInv, Undisturbed, Preceded
  <2> QED BY <1>2, <2>1 DEF Done, NewRow, Undisturbed
<1>6. r < m
  BY <1>2, <1>4, <1>5
<1>7. sent[r].sec <= sent[m].sec
  BY <1>1, <1>2, <1>6 DEF Undisturbed, InOrder
<1> QED BY <1>3, <1>4, <1>7

LEMMA FollowKept ==
  ASSUME GInv, [Next]_vars, UNCHANGED clientVars
  PROVE  FollowInv'
<1>0. Inv /\ Stamped /\ RowInv /\ FollowInv
  BY DEF GInv
<1>1. rows \subseteq DOMAIN sent /\ follower' = follower /\ follower.records \subseteq rows
  BY <1>0 DEF Inv, TypeOK, clientVars, FollowInv
<1>2. /\ follower.records \subseteq rows'
      /\ \A r \in follower.records : sent'[r] = sent[r]
  BY <1>0, <1>1, Grows
<1>3. ASSUME Undisturbed', NEW r \in rows', sent'[r].gpu = Followed,
             sent'[r].sec <= follower.upTo
      PROVE  r \in follower.records
  <2>1. failed = {} /\ PartitionOf[Followed] \notin overtaken
    BY <1>0, <1>3, Grows DEF Undisturbed
  <2>2. InOrder(Followed)
    <3> SUFFICES ASSUME NEW m \in DOMAIN sent, NEW n \in DOMAIN sent, m < n, Valid(m), Valid(n),
                        sent[m].gpu = Followed, sent[n].gpu = Followed
                 PROVE  sent[m].sec <= sent[n].sec
      BY DEF InOrder
    <3>1. m \in DOMAIN sent' /\ n \in DOMAIN sent' /\ sent'[m] = sent[m] /\ sent'[n] = sent[n]
      BY <1>0, Grows
    <3> QED BY <1>3, <3>1 DEF Undisturbed, InOrder, Valid
  <2>3. CASE r \in rows
    <3>1. sent'[r] = sent[r]
      BY <1>0, <1>1, <2>3, Grows
    <3> QED BY <1>0, <1>3, <2>1, <2>2, <2>3, <3>1 DEF FollowInv, FollowerMissesNothing, Undisturbed
  <2>4. CASE r \notin rows
    <3>1. NewRow(r) /\ sent' = sent /\ r \in DOMAIN sent
      BY <1>0, <1>3, <2>4, Effect DEF NewRow, Publication
    <3>2. r \in DOMAIN sent
      BY <3>1
    <3>3. sent[r].sec \in Nat /\ follower.upTo \in Time
      BY <1>0, <3>2, SentType, FollowerTime DEF Inv
    <3>4. CASE follower.upTo = NoTime
      BY <1>3, <3>1, <3>3, <3>4 DEF NoTime
    <3>5. CASE follower.upTo # NoTime
      <4>1. PICK q \in follower.records : sent[q].sec = follower.upTo
        BY <1>0, <3>5 DEF FollowInv
      <4>2. q \in rows /\ sent[q].gpu = Followed
        BY <1>1 DEF GInv, GTypeOK
      <4>3. sent[q].sec < sent[r].sec
        BY <1>0, <1>3, <2>1, <2>2, <3>1, <4>2, NewRowIsNew DEF Undisturbed
      <4>4. sent[q].sec \in Nat
        BY <1>0, <1>1, <4>2, SentType DEF Inv
      <4> QED BY <1>3, <3>1, <3>3, <4>1, <4>3, <4>4
    <3> QED BY <3>4, <3>5
  <2> QED BY <2>3, <2>4
<1>4. FollowerMissesNothing'
  BY <1>1, <1>3 DEF FollowerMissesNothing
<1>5. follower.upTo = NoTime \/ \E r \in follower.records : sent'[r].sec = follower.upTo
  BY <1>0, <1>2 DEF FollowInv
<1> QED BY <1>1, <1>2, <1>4, <1>5 DEF FollowInv

LEMMA AnswersKept ==
  ASSUME GInv, [Next]_vars, UNCHANGED clientVars, api' \in {"starting", "serving"}
  PROVE  GTypeOK' /\ AnswersStand'
<1>0. Inv /\ Stamped
  BY DEF GInv
<1>1. /\ rows \subseteq DOMAIN sent /\ rows \subseteq rows' /\ DOMAIN sent \subseteq DOMAIN sent'
      /\ \A n \in DOMAIN sent : sent'[n] = sent[n]
      /\ answer' = answer /\ follower' = follower
  BY <1>0, Grows DEF Inv, TypeOK, clientVars
<1>2. GTypeOK'
  <2>1. \/ answer \in [gpus : SUBSET Gpu] /\ Listing
        \/ answer \in [gpu : Gpu, start : Int, end : Int, records : SUBSET DOMAIN sent] /\ ~ Listing
    BY DEF GInv, GTypeOK, Listing
  <2>2. answer \in [gpus : SUBSET Gpu]
                   \cup [gpu : Gpu, start : Int, end : Int, records : SUBSET DOMAIN sent']
    BY <1>1, <2>1
  <2>3. Listing' \/ \A r \in answer.records :
          sent'[r].gpu = answer.gpu /\ sent'[r].sec \in answer.start..answer.end
    BY <1>1, <2>1 DEF GInv, GTypeOK, Listing
  <2>4. /\ follower \in [upTo : Int, records : SUBSET DOMAIN sent']
        /\ \A r \in follower.records : sent'[r].gpu = Followed /\ sent'[r].sec <= follower.upTo
    BY <1>1 DEF GInv, GTypeOK
  <2> QED BY <1>1, <2>2, <2>3, <2>4 DEF GTypeOK
<1>3. \A g, start, end : Select(g, start, end) \subseteq Select(g, start, end)'
  BY <1>1 DEF Select
<1>4. AnswersStand'
  BY <1>1, <1>3 DEF GInv, AnswersStand, Listing
<1> QED BY <1>2, <1>4

-----------------------------------------------------------------------------
(* Steps of the gateway, on the table as it is.                            *)

LEMMA TableKept ==
  ASSUME Inv, Stamped, RowInv, UNCHANGED vars
  PROVE  Inv' /\ Stamped' /\ RowInv'
<1>1. [Next]_vars
  OBVIOUS
<1> QED BY <1>1, InvStep, StampedStep, RowInvStep

LEMMA ListStep ==
  ASSUME GInv, ListGPUs
  PROVE  GInv'
<1>0. Inv /\ Stamped /\ RowInv /\ UNCHANGED vars
  BY DEF GInv, ListGPUs
<1>1. UNCHANGED <<sent, rows, failed, overtaken, api, follower>> /\ answer' = [gpus |-> GPUs]
  BY DEF ListGPUs, vars, brokerVars, tableVars
<1>2. FollowInv'
  BY <1>1 DEF GInv, FollowInv, FollowerMissesNothing, Undisturbed, InOrder, Valid
<1>3. GPUs \subseteq Gpu /\ \A g \in GPUs : Select(g, NoTime, NoTime) # {}
  <2>1. \A r \in rows : sent[r].gpu \in Gpu
    BY <1>0, SentType DEF Inv, TypeOK
  <2>2. \A g \in GPUs : Select(g, NoTime, NoTime) # {}
    BY DEF GPUs, Select
  <2> QED BY <2>1, <2>2 DEF GPUs
<1>4. Listing' /\ answer'.gpus = GPUs
  BY <1>1 DEF Listing
<1>5. GTypeOK'
  BY <1>1, <1>3, <1>4 DEF GInv, GTypeOK
<1>6. AnswersStand'
  BY <1>1, <1>3, <1>4 DEF AnswersStand, Select
<1> QED BY <1>0, <1>2, <1>5, <1>6, TableKept DEF GInv

LEMMA QueryStep ==
  ASSUME GInv, NEW g \in Gpu, NEW window \in Window, GetGPUTelemetry(g, window)
  PROVE  GInv'
<1>0. Inv /\ Stamped /\ RowInv /\ UNCHANGED vars
  BY DEF GInv, GetGPUTelemetry
<1>1. UNCHANGED <<sent, rows, failed, overtaken, api, follower>>
  BY DEF GetGPUTelemetry, vars, brokerVars, tableVars
<1>2. FollowInv'
  BY <1>1 DEF GInv, FollowInv, FollowerMissesNothing, Undisturbed, InOrder, Valid
<1>3. window[1] \in Time /\ window[2] \in Time
  BY GatewayAssumption DEF Time
<1>4. PICK a : a = Response(g, window[1], window[2])
  OBVIOUS
<1>5. /\ a \in [gpu : Gpu, start : Int, end : Int, records : SUBSET DOMAIN sent]
      /\ \A r \in a.records : sent[r].gpu = a.gpu /\ sent[r].sec \in a.start..a.end
      /\ a.records \subseteq Select(a.gpu, a.start, a.end)
  BY <1>0, <1>3, <1>4, ResponseFits
<1>6. answer' = a
  BY <1>4 DEF GetGPUTelemetry
<1>7. ~ Listing'
  BY <1>5, <1>6 DEF Listing
<1>8. GTypeOK'
  BY <1>1, <1>5, <1>6 DEF GInv, GTypeOK
<1>9. AnswersStand'
  BY <1>1, <1>5, <1>6, <1>7 DEF AnswersStand, Select
<1> QED BY <1>0, <1>2, <1>8, <1>9, TableKept DEF GInv

LEMMA FollowStep ==
  ASSUME GInv, Follow
  PROVE  GInv'
<1>0. Inv /\ Stamped /\ RowInv /\ UNCHANGED vars
  BY DEF GInv, Follow
<1>1. UNCHANGED <<sent, rows, failed, overtaken, api, answer>>
  BY DEF Follow, vars, brokerVars, tableVars
<1>2. PICK a : a = Response(Followed, follower.upTo, NoTime)
  OBVIOUS
<1>3. /\ a.records # {}
      /\ follower' = [upTo |-> a.end, records |-> follower.records \cup a.records]
  BY <1>2 DEF Follow
<1>4. follower.upTo \in Time /\ NoTime \in Time /\ Followed \in Gpu
  BY FollowerTime, GatewayAssumption DEF Time
<1>5. /\ a \in [gpu : Gpu, start : Int, end : Int, records : SUBSET DOMAIN sent]
      /\ a.records = Select(Followed, follower.upTo, NoTime)
      /\ \A r \in a.records : sent[r].gpu = Followed /\ sent[r].sec \in a.start..a.end
      /\ a.end \in Nat
      /\ \E r \in a.records : sent[r].sec = a.end
  BY <1>0, <1>2, <1>3, <1>4, ResponseFits
<1>6. a.records \subseteq rows /\ rows \subseteq DOMAIN sent
  BY <1>0, <1>5 DEF Select, Inv, TypeOK
<1>7. \A r \in a.records : sent[r].sec <= a.end /\ sent[r].sec \in Nat
  <2>1. \A r \in a.records : sent[r].sec \in Nat
    BY <1>0, <1>6, SentType DEF Inv
  <2> QED BY <1>5, <2>1
<1>8. \A r \in follower.records : sent[r].gpu = Followed /\ sent[r].sec <= a.end
  <2> TAKE r \in follower.records
  <2>1. sent[r].gpu = Followed /\ sent[r].sec <= follower.upTo /\ r \in DOMAIN sent
    BY DEF GInv, GTypeOK
  <2>2. sent[r].sec \in Nat
    BY <1>0, <2>1, SentType DEF Inv
  <2>3. PICK q \in a.records : sent[q].sec = a.end
    BY <1>5
  <2>4. follower.upTo = NoTime \/ sent[q].sec >= follower.upTo
    BY <1>5 DEF Select
  <2> QED BY <1>4, <1>5, <2>1, <2>2, <2>3, <2>4 DEF NoTime, Time
<1>9. GTypeOK'
  <2>1. follower' \in [upTo : Int, records : SUBSET DOMAIN sent]
    <3>1. follower.records \subseteq DOMAIN sent
      BY DEF GInv, GTypeOK
    <3> QED BY <1>3, <1>5, <1>6, <3>1
  <2>2. \A r \in follower'.records : sent[r].gpu = Followed /\ sent[r].sec <= follower'.upTo
    BY <1>3, <1>5, <1>7, <1>8
  <2> QED BY <1>1, <2>1, <2>2 DEF GInv, GTypeOK, Listing
<1>10. AnswersStand'
  BY <1>1 DEF GInv, AnswersStand, Listing, Select
<1>11. FollowInv'
  <2>1. follower'.records \subseteq rows /\ \E r \in follower'.records : sent[r].sec = follower'.upTo
    BY <1>3, <1>5, <1>6 DEF GInv, FollowInv
  <2>2. ASSUME Undisturbed, NEW r \in rows, sent[r].gpu = Followed
        PROVE  r \in follower'.records
    <3>1. sent[r].sec \in Nat
      BY <1>0, <1>6, SentType DEF Inv
    <3>2. CASE follower.upTo = NoTime \/ sent[r].sec >= follower.upTo
      BY <1>3, <1>5, <2>2, <3>2 DEF Select
    <3>3. CASE follower.upTo # NoTime /\ sent[r].sec < follower.upTo
      <4>1. sent[r].sec <= follower.upTo
        BY <1>4, <3>1, <3>3 DEF Time
      <4> QED BY <1>3, <2>2, <4>1 DEF GInv, FollowInv, FollowerMissesNothing
    <3> QED BY <1>4, <3>1, <3>2, <3>3 DEF Time
  <2>3. FollowerMissesNothing'
    BY <1>1, <2>2 DEF FollowerMissesNothing, Undisturbed, InOrder, Valid
  <2> QED BY <1>1, <2>1, <2>3 DEF FollowInv
<1> QED BY <1>0, <1>9, <1>10, <1>11, TableKept DEF GInv

-----------------------------------------------------------------------------
(* The invariant, and what follows.                                        *)

LEMMA GInvInit == GInit => GInv
<1> SUFFICES ASSUME GInit PROVE GInv
  OBVIOUS
<1>1. /\ Inv /\ sent = <<>> /\ DOMAIN sent = {} /\ rows = {}
      /\ \A s \in Streamer : streamer[s].pc = "next"
      /\ \A p \in Part : log[p] = <<>>
      /\ \A i \in Slot : late[i].op = "none"
  BY InvInit DEF GInit, Init, AtRecord, NoRequest
<1>2. Stamped /\ RowInv
  BY <1>1 DEF Stamped, RowInv
<1>3. answer = [gpus |-> {}] /\ follower = [upTo |-> NoTime, records |-> {}] /\ api = "starting"
  BY DEF GInit
<1>4. Listing /\ answer.gpus = {}
  BY <1>3 DEF Listing
<1>5. GTypeOK /\ AnswersStand
  BY <1>3, <1>4 DEF GTypeOK, AnswersStand, NoTime
<1>6. FollowInv
  BY <1>1, <1>3 DEF FollowInv, FollowerMissesNothing
<1> QED BY <1>1, <1>2, <1>5, <1>6 DEF GInv

LEMMA GInvStep == GInv /\ [GNext]_gatewayVars => GInv'
<1> SUFFICES ASSUME GInv, [GNext]_gatewayVars PROVE GInv'
  OBVIOUS
<1>1. ASSUME [Next]_vars, UNCHANGED clientVars, api' \in {"starting", "serving"}
      PROVE  GInv'
  BY <1>1, InvStep, StampedStep, RowInvStep, FollowKept, AnswersKept DEF GInv
<1>2. api \in {"starting", "serving"}
  BY DEF GInv, GTypeOK
<1>3. CASE Next /\ UNCHANGED <<api, clientVars>>
  BY <1>1, <1>2, <1>3
<1>4. CASE Connect \/ GatewayRestart
  BY <1>1, <1>4 DEF Connect, GatewayRestart
<1>5. CASE ListGPUs
  BY <1>5, ListStep
<1>6. CASE \E g \in Gpu, window \in Window : GetGPUTelemetry(g, window)
  BY <1>6, QueryStep
<1>7. CASE Follow
  BY <1>7, FollowStep
<1>8. CASE UNCHANGED gatewayVars
  BY <1>1, <1>2, <1>8 DEF gatewayVars
<1> QED BY <1>3, <1>4, <1>5, <1>6, <1>7, <1>8 DEF GNext

LEMMA GInvariance == GSpec => []GInv
BY GInvInit, GInvStep, PTL DEF GSpec

\* Every answer is of the GPU and within the window that it says.
THEOREM AnswersFit == GSpec => []GTypeOK
<1>1. GInv => GTypeOK
  BY DEF GInv
<1> QED BY <1>1, GInvariance, PTL

\* What was answered once is found again, however the table has grown.
THEOREM AnswersStandHolds == GSpec => []AnswersStand
<1>1. GInv => AnswersStand
  BY DEF GInv
<1> QED BY <1>1, GInvariance, PTL

\* A client that asks on from the EndTime of its last answer misses no row, if
\* no insert failed, its GPU's records were published in their order, and the
\* offset of their partition did not move on during a poll.
THEOREM FollowerMissesNothingHolds == GSpec => []FollowerMissesNothing
<1>1. GInv => FollowerMissesNothing
  BY DEF GInv, FollowInv
<1> QED BY <1>1, GInvariance, PTL

\* The gateway and its clients only read: beside them the pipeline behaves as it
\* does alone, so that what PipelineProofs says of it holds here too.
THEOREM GatewayOnlyReads == GSpec => Spec
<1>1. GInit => Init
  BY DEF GInit
<1>2. [GNext]_gatewayVars => [Next]_vars
  BY DEF GNext, gatewayVars, Connect, GatewayRestart, ListGPUs, GetGPUTelemetry, Follow
<1> QED BY <1>1, <1>2, PTL DEF GSpec, Spec

\* So the table that the gateway reads is the abstract one, however many clients
\* read it and however often the gateway restarts.
COROLLARY GatewayKeepsTable == GSpec => TableSpec
BY GatewayOnlyReads, ImplementsTelemetryTable
=============================================================================
