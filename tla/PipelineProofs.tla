--------------------------- MODULE PipelineProofs ---------------------------
(***************************************************************************)
(* Theorems about module Pipeline, for any file, any number of streamers   *)
(* and partitions, any batch size and any number of restarts.              *)
(***************************************************************************)
EXTENDS Pipeline, SequenceTheorems, TLAPS

\* Message m has been dealt with; so have the first n of partition p; and so have
\* those of its partition that were published before m.
Done(m)     == Valid(m) => Stored(m) \/ m \in failed
Upto(p, n)  == n <= Len(log[p]) /\ \A i \in 1..n : Done(log[p][i])
Preceded(m) == \A n \in DOMAIN sent :
                 n < m /\ PartitionOf[sent[n].gpu] = PartitionOf[sent[m].gpu] => Done(n)

Request ==
  {NoRequest} \cup [op : {"ack"}, part : Part, to : Nat] \cup [op : {"insert"}, msg : DOMAIN sent]
    \cup [op : {"publish"}, record : [gpu : Gpu, sec : Nat, payload : {"record"}]]

ColState ==
  [pc : {"poll"}, part : Part]
    \cup [pc : {"respond"}, part : Part, at : Nat, end : Nat]
    \cup [pc : {"process"}, part : Part, at : Nat, end : Nat, next : Nat]

\* The loop is within its batch, all that is behind it has been dealt with, and
\* it is to acknowledge no more than the batch, unless its partition was overtaken.
ColInv ==
  /\ col.pc # "poll" => col.at <= col.end /\ col.end <= Len(log[col.part])
  /\ \A p \in Part \ overtaken, n \in Nat :
       col.pc # "poll" /\ col.part = p /\ col.at = n => Upto(p, n)
  /\ col.pc = "process" /\ col.part \notin overtaken => col.next <= col.end

CommittedInv == \A p \in Part \ overtaken, n \in Nat : committed[p] = n => Upto(p, n)

\* However late it is carried out, a request does no harm.
GoodRequest(r) ==
  /\ r.op = "ack" /\ r.part \notin overtaken => Upto(r.part, r.to)
  /\ r.op = "insert" =>
       Valid(r.msg) /\ (PartitionOf[sent[r.msg].gpu] \notin overtaken => Preceded(r.msg))

LateInv == \A r \in {late[i] : i \in Slot} : GoodRequest(r)

\* Each partition has the messages of its keys, in the order of publication.
LogInv ==
  /\ \A n \in DOMAIN sent :
       \E i \in DOMAIN log[PartitionOf[sent[n].gpu]] : log[PartitionOf[sent[n].gpu]][i] = n
  /\ \A p \in Part : \A i \in DOMAIN log[p] : PartitionOf[sent[log[p][i]].gpu] = p
  /\ \A p \in Part : \A i, j \in DOMAIN log[p] : i < j => log[p][i] < log[p][j]

\* A record without a GPU is never on its way to the broker.
StreamerInv == \A s \in Streamer : streamer[s].pc = "publish" => Records[streamer[s].rec] \in Gpu

Inv == TypeOK /\ StreamerInv /\ ColInv /\ CommittedInv /\ LateInv /\ LogInv /\ FirstWins

-----------------------------------------------------------------------------
LEMMA LogShape ==
  ASSUME TypeOK, NEW p \in Part
  PROVE  /\ log[p] \in Seq(Nat) /\ Len(log[p]) \in Nat /\ DOMAIN log[p] = 1..Len(log[p])
         /\ committed[p] \in Nat /\ committed[p] <= Len(log[p])
<1>1. log[p] \in Seq(Nat) /\ committed[p] \in Nat /\ committed[p] <= Len(log[p])
  BY DEF TypeOK
<1> QED BY <1>1, LenProperties

LEMMA ColShape ==
  ASSUME TypeOK
  PROVE  /\ col.part \in Part /\ col.pc \in {"poll", "respond", "process"}
         /\ col.pc # "poll" => col.at \in Nat /\ col.end \in Nat
         /\ col.pc = "process" =>
              /\ col = [pc |-> "process", part |-> col.part, at |-> col.at, end |-> col.end,
                        next |-> col.next]
              /\ col.next \in Nat
BY DEF TypeOK

LEMMA SentType ==
  ASSUME TypeOK, NEW n \in DOMAIN sent
  PROVE  /\ sent[n] \in [gpu : Gpu, sec : Nat, payload : {"record", "bad", "opaque"}]
         /\ PartitionOf[sent[n].gpu] \in Part
         /\ n \in Nat
<1>1. sent \in Seq([gpu : Gpu, sec : Nat, payload : {"record", "bad", "opaque"}])
  BY DEF TypeOK
<1>2. n \in 1..Len(sent) /\ Len(sent) \in Nat
  BY <1>1, LenProperties
<1>3. sent[n] \in [gpu : Gpu, sec : Nat, payload : {"record", "bad", "opaque"}]
  BY <1>1, <1>2, ElementOfSeq
<1>4. n \in Nat
  BY <1>2
<1>5. PartitionOf[sent[n].gpu] \in Part
  BY <1>3, PipelineAssumption DEF Part
<1> QED BY <1>3, <1>4, <1>5

LEMMA AfterPartType == ASSUME NEW p \in Part PROVE AfterPart(p) \in [pc : {"poll"}, part : Part]
BY PipelineAssumption DEF AfterPart, AtPart, Part

\* What an insert leaves in the table.
LEMMA WithRowProperties ==
  ASSUME TypeOK, NEW m \in DOMAIN sent
  PROVE  /\ rows \subseteq WithRow(m) /\ WithRow(m) \subseteq DOMAIN sent
         /\ \A r, q \in WithRow(m) : Key(r) = Key(q) => r = q
         /\ \E r \in WithRow(m) : Key(r) = Key(m)
         /\ \A r \in WithRow(m) \ rows : r = m /\ ~ Stored(m)
BY DEF TypeOK, WithRow, Stored

-----------------------------------------------------------------------------
(* What lasts.                                                             *)

\* A step that takes nothing back: messages stay where they are, what has been
\* dealt with stays so, new messages are the last, and more partitions may have
\* been overtaken.
Grown ==
  /\ \A p \in Part :
       /\ Len(log[p]) \in Nat /\ Len(log'[p]) \in Nat /\ Len(log[p]) <= Len(log'[p])
       /\ \A i \in 1..Len(log[p]) : log'[p][i] = log[p][i] /\ log[p][i] \in DOMAIN sent
  /\ \A n \in DOMAIN sent : n \in DOMAIN sent' /\ sent'[n] = sent[n] /\ (Done(n) => Done(n)')
  /\ \A n \in DOMAIN sent', m \in DOMAIN sent : n < m => n \in DOMAIN sent
  /\ overtaken \subseteq overtaken'

LEMMA UptoKept ==
  ASSUME Grown, NEW p \in Part, NEW n \in Nat, Upto(p, n)
  PROVE  Upto(p, n)'
<1>1. n <= Len(log[p]) /\ n <= Len(log'[p]) /\ Len(log[p]) \in Nat
  BY DEF Grown, Upto
<1>2. ASSUME NEW i \in 1..n PROVE Done(log[p][i])'
  <2>1. PICK m : m = log[p][i]
    OBVIOUS
  <2>2. log'[p][i] = m /\ m \in DOMAIN sent
    BY <1>1, <2>1 DEF Grown
  <2>3. Done(m)
    BY <2>1 DEF Upto
  <2>4. Done(m)'
    BY <2>2, <2>3 DEF Grown
  <2> QED BY <2>2, <2>4 DEF Done, Stored, Key, Valid
<1> QED BY <1>1, <1>2 DEF Upto

LEMMA PrecededKept ==
  ASSUME Grown, NEW m \in DOMAIN sent, Preceded(m)
  PROVE  Preceded(m)'
<1>1. sent'[m] = sent[m]
  BY DEF Grown
<1>2. ASSUME NEW n \in DOMAIN sent', n < m, PartitionOf[sent'[n].gpu] = PartitionOf[sent'[m].gpu]
      PROVE  Done(n)'
  <2>1. n \in DOMAIN sent
    BY <1>2 DEF Grown
  <2>2. sent'[n] = sent[n]
    BY <2>1 DEF Grown
  <2>3. Done(n)
    BY <1>1, <1>2, <2>1, <2>2 DEF Preceded
  <2> QED BY <2>1, <2>3 DEF Grown
<1> QED BY <1>2 DEF Preceded

LEMMA RequestKept ==
  ASSUME Grown, NEW r \in Request, GoodRequest(r)
  PROVE  r \in Request' /\ GoodRequest(r)'
<1>1. r \in Request'
  BY DEF Request, Grown, NoRequest
<1>2. ASSUME r.op = "ack", r.part \notin overtaken' PROVE Upto(r.part, r.to)'
  <2>1. r.part \in Part /\ r.to \in Nat
    BY <1>2 DEF Request, NoRequest
  <2>2. Upto(r.part, r.to)
    BY <1>2 DEF GoodRequest, Grown
  <2> QED BY <2>1, <2>2, UptoKept
<1>3. ASSUME r.op = "insert"
      PROVE  /\ Valid(r.msg)'
             /\ PartitionOf[sent'[r.msg].gpu] \notin overtaken' => Preceded(r.msg)'
  <2>1. r.msg \in DOMAIN sent
    BY <1>3 DEF Request, NoRequest
  <2>2. sent'[r.msg] = sent[r.msg] /\ overtaken \subseteq overtaken'
    BY <2>1 DEF Grown
  <2>3. Valid(r.msg)'
    BY <1>3, <2>2 DEF GoodRequest, Valid
  <2>4. PartitionOf[sent'[r.msg].gpu] \notin overtaken' => Preceded(r.msg)
    BY <1>3, <2>2 DEF GoodRequest
  <2> QED BY <2>1, <2>3, <2>4, PrecededKept
<1> QED BY <1>1, <1>2, <1>3 DEF GoodRequest

LEMMA RequestType == ASSUME TypeOK, NEW i \in Slot PROVE late[i] \in Request
BY DEF TypeOK, Request

LEMMA GrownKeeps ==
  ASSUME Inv, Grown
  PROVE  /\ UNCHANGED col => ColInv'
         /\ UNCHANGED committed => CommittedInv'
         /\ UNCHANGED late => LateInv' /\ late' \in [Slot -> Request']
<1>1. TypeOK /\ ColInv /\ CommittedInv /\ LateInv
  BY DEF Inv
<1>2. ASSUME UNCHANGED col PROVE ColInv'
  <2>1. col.pc # "poll" => col.at <= col.end /\ col.end <= Len(log'[col.part])
    <3> SUFFICES ASSUME col.pc # "poll" PROVE col.at <= col.end /\ col.end <= Len(log'[col.part])
      OBVIOUS
    <3>1. col.part \in Part /\ col.end \in Nat /\ col.at <= col.end /\ col.end <= Len(log[col.part])
      BY <1>1, ColShape DEF ColInv
    <3>2. Len(log[col.part]) \in Nat /\ Len(log'[col.part]) \in Nat /\ Len(log[col.part]) <= Len(log'[col.part])
      BY <3>1 DEF Grown
    <3> QED BY <3>1, <3>2
  <2>2. ASSUME NEW p \in Part \ overtaken', NEW n \in Nat, col.pc # "poll", col.part = p, col.at = n
        PROVE  Upto(p, n)'
    <3>1. Upto(p, n)
      BY <1>1, <2>2 DEF ColInv, Grown
    <3> QED BY <3>1, UptoKept
  <2>3. col.pc = "process" /\ col.part \notin overtaken' => col.next <= col.end
    BY <1>1 DEF ColInv, Grown
  <2> QED BY <1>2, <2>1, <2>2, <2>3 DEF ColInv
<1>3. ASSUME UNCHANGED committed PROVE CommittedInv'
  <2>1. ASSUME NEW p \in Part \ overtaken', NEW n \in Nat, committed[p] = n
        PROVE  Upto(p, n)'
    <3>1. Upto(p, n)
      BY <1>1, <2>1 DEF CommittedInv, Grown
    <3> QED BY <3>1, UptoKept
  <2> QED BY <1>3, <2>1 DEF CommittedInv
<1>4. ASSUME UNCHANGED late PROVE LateInv' /\ late' \in [Slot -> Request']
  <2>1. ASSUME NEW i \in Slot PROVE late[i] \in Request' /\ GoodRequest(late[i])
    <3>1. late[i] \in Request /\ GoodRequest(late[i])
      BY <1>1, RequestType DEF LateInv
    <3> QED BY <3>1, RequestKept
  <2>2. ASSUME NEW r \in {late[i] : i \in Slot} PROVE GoodRequest(r)'
    <3>1. r \in Request /\ GoodRequest(r)
      BY <1>1, RequestType DEF LateInv
    <3> QED BY <3>1, RequestKept
  <2>3. late \in [Slot -> Request']
    BY <1>1, <2>1 DEF TypeOK
  <2> QED BY <1>4, <2>2, <2>3 DEF LateInv
<1> QED BY <1>2, <1>3, <1>4

\* A step that leaves the log alone.
LEMMA StillGrown ==
  ASSUME Inv, UNCHANGED <<sent, log>>, rows \subseteq rows', failed \subseteq failed',
         overtaken \subseteq overtaken'
  PROVE  Grown
<1>1. TypeOK
  BY DEF Inv
<1>2. ASSUME NEW n, Done(n) PROVE Done(n)'
  BY <1>2 DEF Done, Stored, Key, Valid
<1>3. ASSUME NEW p \in Part PROVE Len(log[p]) \in Nat /\ \A i \in 1..Len(log[p]) : log[p][i] \in DOMAIN sent
  <2>1. Len(log[p]) \in Nat /\ DOMAIN log[p] = 1..Len(log[p])
    BY <1>1, LogShape
  <2> QED BY <1>1, <2>1 DEF TypeOK
<1> QED BY <1>2, <1>3 DEF Grown

\* Steps that touch neither the log nor the table.
LEMMA QuietStep ==
  ASSUME Inv, UNCHANGED <<sent, log, rows, failed>>, overtaken \subseteq overtaken'
  PROVE  Grown /\ LogInv' /\ FirstWins'
<1>1. Grown
  BY StillGrown
<1> QED BY <1>1 DEF Inv, LogInv, FirstWins, Key, Valid

\* A request that is abandoned is as harmless as those before.
LEMMA AbandonStep ==
  ASSUME Inv, Grown, NEW r \in Request, GoodRequest(r), Abandon(r)
  PROVE  LateInv' /\ late' \in [Slot -> Request']
<1>1. CASE UNCHANGED late
  BY <1>1, GrownKeeps
<1>2. ASSUME NEW i \in Slot, late' = [late EXCEPT ![i] = r]
      PROVE  LateInv' /\ late' \in [Slot -> Request']
  <2>1. late \in [Slot -> Request]
    BY DEF Inv, TypeOK, Request
  <2>2. \A j \in Slot : late'[j] \in Request /\ GoodRequest(late'[j])
    BY <1>2, <2>1 DEF Inv, LateInv
  <2>3. ASSUME NEW s \in {late'[j] : j \in Slot} PROVE s \in Request' /\ GoodRequest(s)'
    <3>1. s \in Request /\ GoodRequest(s)
      BY <2>2
    <3> QED BY <3>1, RequestKept
  <2>4. late' = [j \in Slot |-> late'[j]]
    BY <1>2, <2>1
  <2>5. late' \in [Slot -> Request']
    BY <2>3, <2>4
  <2> QED BY <2>3, <2>5 DEF LateInv
<1> QED BY <1>1, <1>2 DEF Abandon

\* One that has been carried out is gone.
LEMMA LandStep ==
  ASSUME Inv, Grown, NEW i \in Slot, late' = [late EXCEPT ![i] = NoRequest]
  PROVE  LateInv' /\ late' \in [Slot -> Request']
<1>1. NoRequest \in Request /\ GoodRequest(NoRequest)
  BY DEF Request, GoodRequest, NoRequest
<1>2. late \in [Slot -> Request]
  BY DEF Inv, TypeOK, Request
<1>3. \A j \in Slot : late'[j] \in Request /\ GoodRequest(late'[j])
  BY <1>1, <1>2 DEF Inv, LateInv
<1>4. ASSUME NEW s \in {late'[j] : j \in Slot} PROVE s \in Request' /\ GoodRequest(s)'
  <2>1. s \in Request /\ GoodRequest(s)
    BY <1>3
  <2> QED BY <2>1, RequestKept
<1>5. late' = [j \in Slot |-> late'[j]]
  BY <1>2
<1>6. late' \in [Slot -> Request']
  BY <1>4, <1>5
<1> QED BY <1>4, <1>6 DEF LateInv

-----------------------------------------------------------------------------
(* Publication.                                                            *)

\* A message that is accepted leaves those before it as they are.
LEMMA AcceptFrame ==
  ASSUME Inv, NEW m, m \in [gpu : Gpu, sec : Nat, payload : {"record", "bad", "opaque"}], Accept(m),
         UNCHANGED <<committed, rows, failed>>
  PROVE  /\ sent' \in Seq([gpu : Gpu, sec : Nat, payload : {"record", "bad", "opaque"}])
         /\ Len(sent') = Len(sent) + 1 /\ DOMAIN sent' = 1..(Len(sent) + 1)
         /\ DOMAIN sent = 1..Len(sent) /\ Len(sent) \in Nat
         /\ \A n \in DOMAIN sent : sent'[n] = sent[n]
         /\ sent'[Len(sent) + 1] = m
         /\ PartitionOf[m.gpu] \in Part
         /\ log' \in [Part -> Seq(Nat)]
         /\ \A p \in Part : p # PartitionOf[m.gpu] => log'[p] = log[p]
         /\ \A p \in Part : /\ Len(log[p]) \in Nat /\ DOMAIN log[p] = 1..Len(log[p])
                            /\ Len(log'[p]) >= Len(log[p]) /\ DOMAIN log'[p] = 1..Len(log'[p])
                            /\ \A i \in DOMAIN log[p] : log'[p][i] = log[p][i]
         /\ LET q == PartitionOf[m.gpu]
            IN  /\ Len(log'[q]) = Len(log[q]) + 1
                /\ log'[q][Len(log[q]) + 1] = Len(sent) + 1
<1> DEFINE M == [gpu : Gpu, sec : Nat, payload : {"record", "bad", "opaque"}]
           q == PartitionOf[m.gpu]
<1>1. sent \in Seq(M) /\ log \in [Part -> Seq(Nat)] /\ q \in Part
  BY PipelineAssumption DEF Inv, TypeOK, Part
<1>2. /\ sent' \in Seq(M) /\ Len(sent') = Len(sent) + 1 /\ Len(sent) \in Nat
      /\ DOMAIN sent = 1..Len(sent) /\ DOMAIN sent' = 1..Len(sent')
      /\ \A n \in 1..Len(sent) : sent'[n] = sent[n]
      /\ sent'[Len(sent) + 1] = m
  BY <1>1, AppendProperties, LenProperties DEF Accept
<1>3. log' = [log EXCEPT ![q] = Append(log[q], Len(sent) + 1)]
  BY DEF Accept
<1>4. /\ log'[q] = Append(log[q], Len(sent) + 1)
      /\ \A p \in Part : p # q => log'[p] = log[p]
      /\ log' = [p \in Part |-> log'[p]]
  BY <1>1, <1>3
<1>5. log[q] \in Seq(Nat) /\ Len(sent) + 1 \in Nat
  BY <1>1, <1>2
<1>6. /\ log'[q] \in Seq(Nat) /\ Len(log'[q]) = Len(log[q]) + 1 /\ Len(log[q]) \in Nat
      /\ \A i \in 1..Len(log[q]) : log'[q][i] = log[q][i]
      /\ log'[q][Len(log[q]) + 1] = Len(sent) + 1
  BY <1>4, <1>5, AppendProperties, LenProperties
<1>7. log' \in [Part -> Seq(Nat)]
  <2>1. \A p \in Part : log'[p] \in Seq(Nat)
    BY <1>1, <1>4, <1>6
  <2> QED BY <1>4, <2>1
<1>8. ASSUME NEW p \in Part
      PROVE  /\ Len(log[p]) \in Nat /\ DOMAIN log[p] = 1..Len(log[p])
             /\ Len(log'[p]) >= Len(log[p]) /\ DOMAIN log'[p] = 1..Len(log'[p])
             /\ \A i \in DOMAIN log[p] : log'[p][i] = log[p][i]
  <2>1. log[p] \in Seq(Nat) /\ log'[p] \in Seq(Nat)
    BY <1>1, <1>7
  <2>2. Len(log[p]) \in Nat /\ DOMAIN log[p] = 1..Len(log[p]) /\ DOMAIN log'[p] = 1..Len(log'[p])
    BY <2>1, LenProperties
  <2>3. CASE p # q
    <3>1. log'[p] = log[p]
      BY <1>4, <2>3
    <3> QED BY <2>2, <3>1
  <2>4. CASE p = q
    <3>1. Len(log'[p]) >= Len(log[p])
      BY <1>6, <2>4
    <3>2. \A i \in DOMAIN log[p] : log'[p][i] = log[p][i]
      BY <1>6, <2>2, <2>4
    <3> QED BY <2>2, <3>1, <3>2
  <2> QED BY <2>3, <2>4
<1> QED BY <1>1, <1>2, <1>4, <1>6, <1>7, <1>8

\* A message that is accepted is the last of its partition, and of all.
LEMMA AcceptStep ==
  ASSUME Inv, NEW m, m \in [gpu : Gpu, sec : Nat, payload : {"record", "bad", "opaque"}], Accept(m),
         UNCHANGED <<committed, rows, failed, overtaken>>
  PROVE  Grown /\ LogInv' /\ FirstWins'
         /\ (\A p \in Part : committed[p] <= Len(log'[p]))
         /\ (\A p \in Part : \A i \in DOMAIN log'[p] : log'[p][i] \in DOMAIN sent')
         /\ (\A r, q \in rows : Key(r)' = Key(q)' => r = q)
<1> DEFINE q == PartitionOf[m.gpu]
<1>1. /\ Len(sent') = Len(sent) + 1 /\ DOMAIN sent' = 1..(Len(sent) + 1)
      /\ DOMAIN sent = 1..Len(sent) /\ Len(sent) \in Nat
      /\ \A n \in DOMAIN sent : sent'[n] = sent[n]
      /\ sent'[Len(sent) + 1] = m
      /\ q \in Part
      /\ \A p \in Part : p # q => log'[p] = log[p]
      /\ \A p \in Part : /\ Len(log[p]) \in Nat /\ DOMAIN log[p] = 1..Len(log[p])
                         /\ Len(log'[p]) >= Len(log[p]) /\ DOMAIN log'[p] = 1..Len(log'[p])
                         /\ \A i \in DOMAIN log[p] : log'[p][i] = log[p][i]
      /\ Len(log'[q]) = Len(log[q]) + 1
      /\ log'[q][Len(log[q]) + 1] = Len(sent) + 1
  BY AcceptFrame
<1>2. /\ rows \subseteq DOMAIN sent
      /\ \A p \in Part : committed[p] \in Nat /\ committed[p] <= Len(log[p])
      /\ \A p \in Part : \A i \in DOMAIN log[p] : log[p][i] \in DOMAIN sent
      /\ \A r, s \in rows : Key(r) = Key(s) => r = s
  BY DEF Inv, TypeOK
<1>3. \A n \in DOMAIN sent : Key(n)' = Key(n)
  BY <1>1 DEF Key
<1>4. ASSUME NEW n \in DOMAIN sent, Done(n) PROVE Done(n)'
  <2>1. Stored(n) => Stored(n)'
    BY <1>2, <1>3 DEF Stored
  <2> QED BY <1>1, <1>4, <2>1 DEF Done, Valid
<1>5. \A p \in Part : Len(log'[p]) \in Nat
  <2> TAKE p \in Part
  <2>1. log'[p] \in Seq(Nat)
    BY AcceptFrame
  <2> QED BY <2>1, LenProperties
<1>6. Grown
  <2>1. \A p \in Part :
          /\ Len(log[p]) \in Nat /\ Len(log'[p]) \in Nat /\ Len(log[p]) <= Len(log'[p])
          /\ \A i \in 1..Len(log[p]) : log'[p][i] = log[p][i] /\ log[p][i] \in DOMAIN sent
    BY <1>1, <1>2, <1>5
  <2>2. \A n \in DOMAIN sent : n \in DOMAIN sent' /\ sent'[n] = sent[n] /\ (Done(n) => Done(n)')
    BY <1>1, <1>4
  <2>3. \A n \in DOMAIN sent', k \in DOMAIN sent : n < k => n \in DOMAIN sent
    BY <1>1
  <2> QED BY <2>1, <2>2, <2>3 DEF Grown
<1>7. \A p \in Part : \A i \in DOMAIN log'[p] : i \in DOMAIN log[p] \/ (p = q /\ i = Len(log[q]) + 1)
  BY <1>1
<1>8. LogInv'
  <2>1. ASSUME NEW n \in DOMAIN sent'
        PROVE  \E i \in DOMAIN log'[PartitionOf[sent'[n].gpu]] : log'[PartitionOf[sent'[n].gpu]][i] = n
    <3>1. CASE n = Len(sent) + 1
      <4>1. PartitionOf[sent'[n].gpu] = q
        BY <1>1, <3>1
      <4>2. Len(log[q]) + 1 \in DOMAIN log'[q]
        BY <1>1
      <4> QED BY <1>1, <3>1, <4>1, <4>2
    <3>2. CASE n \in DOMAIN sent
      <4> DEFINE p == PartitionOf[sent[n].gpu]
      <4>1. sent'[n] = sent[n] /\ p \in Part
        BY <1>1, <3>2, SentType DEF Inv
      <4>2. PICK i \in DOMAIN log[p] : log[p][i] = n
        BY <3>2 DEF Inv, LogInv
      <4>3. i \in DOMAIN log'[p] /\ log'[p][i] = n
        BY <1>1, <4>1, <4>2, SMTT(30)
      <4> QED BY <4>1, <4>3
    <3>3. n = Len(sent) + 1 \/ n \in DOMAIN sent
      BY <1>1
    <3> QED BY <3>1, <3>2, <3>3
  <2>2. ASSUME NEW p \in Part, NEW i \in DOMAIN log'[p], NEW j \in DOMAIN log'[p], i < j
        PROVE  log'[p][i] < log'[p][j]
    <3>1. i \in DOMAIN log[p]
      BY <1>1, <1>7, <2>2
    <3>2. CASE j \in DOMAIN log[p]
      BY <1>1, <2>2, <3>1, <3>2 DEF Inv, LogInv
    <3>3. CASE p = q /\ j = Len(log[q]) + 1
      BY <1>1, <1>2, <3>1, <3>3
    <3> QED BY <1>7, <3>2, <3>3
  <2>3. ASSUME NEW p \in Part, NEW i \in DOMAIN log'[p] PROVE PartitionOf[sent'[log'[p][i]].gpu] = p
    <3>1. CASE i \in DOMAIN log[p]
      <4>1. log'[p][i] = log[p][i] /\ log[p][i] \in DOMAIN sent
        BY <1>1, <1>2, <3>1
      <4>2. PartitionOf[sent[log[p][i]].gpu] = p
        BY <3>1 DEF Inv, LogInv
      <4> QED BY <1>1, <4>1, <4>2
    <3>2. CASE p = q /\ i = Len(log[q]) + 1
      BY <1>1, <3>2
    <3> QED BY <1>7, <3>1, <3>2
  <2> QED BY <2>1, <2>2, <2>3 DEF LogInv
<1>9. FirstWins'
  <2> SUFFICES ASSUME NEW r \in rows, NEW n \in DOMAIN sent', n < r, Valid(n)', Key(n)' = Key(r)',
                      PartitionOf[sent'[r].gpu] \notin overtaken
               PROVE  n \in failed
    BY DEF FirstWins, Valid
  <2>1. n \in DOMAIN sent /\ r \in DOMAIN sent
    BY <1>1, <1>2
  <2> QED BY <1>1, <1>3, <2>1 DEF Inv, FirstWins, Valid
<1>10. \A p \in Part : committed[p] <= Len(log'[p])
  <2> TAKE p \in Part
  <2> QED BY <1>1, <1>2, <1>5
<1>11. \A p \in Part : \A i \in DOMAIN log'[p] : log'[p][i] \in DOMAIN sent'
  <2> TAKE p \in Part
  <2> TAKE i \in DOMAIN log'[p]
  <2>1. CASE i \in DOMAIN log[p]
    BY <1>1, <1>2, <2>1
  <2>2. CASE p = q /\ i = Len(log[q]) + 1
    BY <1>1, <2>2
  <2> QED BY <1>7, <2>1, <2>2
<1>12. \A r, s \in rows : Key(r)' = Key(s)' => r = s
  BY <1>2, <1>3
<1> QED BY <1>6, <1>8, <1>9, <1>10, <1>11, <1>12

-----------------------------------------------------------------------------
(* The polls and the acknowledgements.                                     *)

LEMMA UptoLess ==
  ASSUME TypeOK, NEW p \in Part, NEW n \in Nat, Upto(p, n), NEW k \in Nat, k <= n
  PROVE  Upto(p, k)
<1>1. Len(log[p]) \in Nat
  BY LogShape
<1> QED BY <1>1 DEF Upto

\* A batch begins at the committed offset, and is answered with an offset within
\* it, if the committed one has not moved on.
LEMMA PollStep ==
  ASSUME Inv, (\E p \in Part : PollRead(p)) \/ PollRespond \/ ConsumeFails
  PROVE  /\ Grown /\ LogInv' /\ FirstWins' /\ ColInv'
         /\ col' \in ColState /\ overtaken' \subseteq Part
         /\ UNCHANGED <<clock, streamer, sent, log, committed, late, main, restarts, rows, failed>>
<1>1. UNCHANGED <<clock, streamer, sent, log, committed, late, main, restarts, rows, failed>>
  BY DEF PollRead, PollRespond, ConsumeFails, streamVars, brokerVars, mainVars, tableVars
<1>2. /\ TypeOK /\ ColInv /\ CommittedInv /\ col.part \in Part /\ overtaken \subseteq Part
      /\ committed \in [Part -> Nat]
  BY ColShape DEF Inv, TypeOK
<1>3. overtaken \subseteq overtaken' /\ overtaken' \subseteq Part
  BY <1>2 DEF PollRead, PollRespond, ConsumeFails
<1>4. Grown /\ LogInv' /\ FirstWins'
  BY <1>1, <1>3, QuietStep
<1>5. ASSUME NEW p \in Part, col' = AfterPart(p)
      PROVE  ColInv' /\ col' \in ColState
  <2>1. col'.pc = "poll"
    BY <1>5 DEF AfterPart, AtPart
  <2> QED BY <1>5, <2>1, AfterPartType DEF ColInv, ColState
<1>6. ASSUME NEW p \in Part, PollRead(p) PROVE ColInv' /\ col' \in ColState
  <2>1. CASE col' = AfterPart(p)
    BY <1>5, <2>1
  <2>2. CASE col' # AfterPart(p)
    <3> DEFINE end == Lesser(committed[p] + Batch, Len(log[p]))
    <3>1. col' = [pc |-> "respond", part |-> p, at |-> committed[p], end |-> end]
      BY <1>6, <2>2 DEF PollRead
    <3>2. committed[p] \in Nat /\ Len(log[p]) \in Nat /\ committed[p] <= Len(log[p])
      BY <1>2, LogShape
    <3>3. end \in Nat /\ committed[p] <= end /\ end <= Len(log[p])
      BY <3>2, PipelineAssumption DEF Lesser
    <3> HIDE DEF end
    <3>4. /\ col'.pc = "respond" /\ col'.part = p /\ col'.at = committed[p] /\ col'.end = end
          /\ col' \in ColState
      BY <3>1, <3>2, <3>3 DEF ColState
    <3>5. ASSUME NEW r \in Part \ overtaken', NEW n \in Nat, col'.part = r, col'.at = n
          PROVE  Upto(r, n)'
      <4>1. Upto(r, n)
        BY <1>2, <1>3, <3>4, <3>5 DEF CommittedInv
      <4> QED BY <1>4, <4>1, UptoKept
    <3> QED BY <1>1, <3>3, <3>4, <3>5 DEF ColInv
  <2> QED BY <2>1, <2>2
<1>7. ASSUME PollRespond PROVE ColInv' /\ col' \in ColState
  <2> DEFINE next == committed[col.part] + (col.end - col.at)
  <2>1. /\ col.pc = "respond"
        /\ col' = [pc |-> "process", part |-> col.part, at |-> col.at, end |-> col.end, next |-> next]
        /\ committed[col.part] > col.at => col.part \in overtaken'
    BY <1>7 DEF PollRespond
  <2>2. /\ committed[col.part] \in Nat /\ col.at \in Nat /\ col.end \in Nat
        /\ col.at <= col.end /\ col.end <= Len(log[col.part])
    BY <1>2, <2>1, ColShape DEF ColInv
  <2>3. next \in Nat /\ (committed[col.part] <= col.at => next <= col.end)
    BY <2>2
  <2>4. col.part \notin overtaken' => next <= col.end
    BY <2>1, <2>2, <2>3
  <2> HIDE DEF next
  <2>5. /\ col'.pc = "process" /\ col'.part = col.part /\ col'.at = col.at /\ col'.end = col.end
        /\ col'.next = next /\ col' \in ColState
    BY <1>2, <2>1, <2>2, <2>3 DEF ColState
  <2>6. ASSUME NEW r \in Part \ overtaken', NEW n \in Nat, col'.part = r, col'.at = n
        PROVE  Upto(r, n)'
    <3>1. Upto(r, n)
      BY <1>2, <1>3, <2>1, <2>5, <2>6 DEF ColInv
    <3> QED BY <1>4, <3>1, UptoKept
  <2> QED BY <1>1, <2>2, <2>4, <2>5, <2>6 DEF ColInv
<1>8. ASSUME ConsumeFails PROVE ColInv' /\ col' \in ColState
  BY <1>2, <1>5, <1>8 DEF ConsumeFails
<1> QED BY <1>1, <1>3, <1>4, <1>6, <1>7, <1>8

\* The next message of a batch follows what has been dealt with.
LEMMA MessageShape ==
  ASSUME Inv, col.pc = "process", col.at < col.end
  PROVE  /\ col.part \in Part /\ col.at \in Nat /\ col.end \in Nat
         /\ col.end <= Len(log[col.part]) /\ Len(log[col.part]) \in Nat
         /\ Message = log[col.part][col.at + 1] /\ Message \in DOMAIN sent
         /\ PartitionOf[sent[Message].gpu] = col.part
         /\ col.part \notin overtaken => Upto(col.part, col.at) /\ Preceded(Message)
<1>p. PICK p : p = col.part
  OBVIOUS
<1>m. PICK m : m = Message
  OBVIOUS
<1>1. /\ p \in Part /\ col.at \in Nat /\ col.end \in Nat /\ col.end <= Len(log[p])
      /\ Len(log[p]) \in Nat /\ DOMAIN log[p] = 1..Len(log[p])
      /\ p \notin overtaken => Upto(p, col.at)
  <2>1. p \in Part /\ col.at \in Nat /\ col.end \in Nat
    BY <1>p, ColShape DEF Inv
  <2>2. col.end <= Len(log[p]) /\ (p \notin overtaken => Upto(p, col.at))
    BY <1>p, <2>1 DEF Inv, ColInv
  <2> QED BY <2>1, <2>2, LogShape DEF Inv
<1>2. col.at + 1 \in DOMAIN log[p] /\ m = log[p][col.at + 1]
  BY <1>1, <1>p, <1>m DEF Message
<1>3. m \in DOMAIN sent /\ PartitionOf[sent[m].gpu] = p
  BY <1>1, <1>2 DEF Inv, TypeOK, LogInv
<1>4. ASSUME p \notin overtaken, NEW n \in DOMAIN sent, n < m, PartitionOf[sent[n].gpu] = PartitionOf[sent[m].gpu]
      PROVE  Done(n)
  <2>1. PICK i \in DOMAIN log[p] : log[p][i] = n
    BY <1>3, <1>4 DEF Inv, LogInv
  <2>2. i \in Nat /\ n \in Nat /\ m \in Nat
    BY <1>1, <1>3, <2>1, SentType DEF Inv
  <2>3. ~ (col.at + 1 < i)
    <3>1. col.at + 1 < i => m < n
      BY <1>1, <1>2, <2>1 DEF Inv, LogInv
    <3> QED BY <1>4, <2>2, <3>1
  <2>4. col.at + 1 # i
    BY <1>2, <1>4, <2>1, <2>2
  <2>5. i \in 1..col.at
    BY <1>1, <2>1, <2>2, <2>3, <2>4
  <2> QED BY <1>1, <1>4, <2>1, <2>5 DEF Upto
<1>5. p \notin overtaken => Preceded(m)
  BY <1>4 DEF Preceded
<1> QED BY <1>1, <1>2, <1>3, <1>5, <1>p, <1>m

\* An ack of the loop, or one whose caller is gone, commits no more than what has
\* been dealt with.
LEMMA AckStep ==
  ASSUME Inv, Ack \/ AckFails \/ CollectorRestart \/ \E i \in Slot : AckLands(i)
  PROVE  /\ Grown /\ LogInv' /\ FirstWins' /\ ColInv' /\ CommittedInv' /\ LateInv'
         /\ late' \in [Slot -> Request'] /\ col' \in ColState
         /\ committed' \in [Part -> Nat] /\ \A p \in Part : committed'[p] <= Len(log[p])
         /\ main' \in {"running", "signalled", "closed"} /\ restarts' \in Nat
         /\ UNCHANGED <<clock, streamer, sent, log, rows, failed, overtaken>>
<1>1. UNCHANGED <<clock, streamer, sent, log, rows, failed, overtaken>>
  BY DEF Ack, AckFails, CollectorRestart, AckLands, streamVars, brokerVars, mainVars, tableVars
<1>2. /\ TypeOK /\ ColInv /\ CommittedInv /\ LateInv /\ col.part \in Part /\ overtaken \subseteq Part
      /\ committed \in [Part -> Nat] /\ \A p \in Part : committed[p] <= Len(log[p])
  BY ColShape DEF Inv, TypeOK
<1>3. Grown /\ LogInv' /\ FirstWins'
  BY <1>1, QuietStep
<1>4. main' \in {"running", "signalled", "closed"} /\ restarts' \in Nat
  BY <1>2 DEF TypeOK, Ack, AckFails, CollectorRestart, AckLands, mainVars
<1>5. CASE Ack \/ AckFails \/ CollectorRestart
  <2>1. PICK first \in Part : col' = AtPart(first)
    <3>1. 1 \in Part
      BY PipelineAssumption DEF Part
    <3>2. \A p \in Part : \E q \in Part : AfterPart(p) = AtPart(q)
      BY PipelineAssumption DEF Part, AfterPart
    <3> QED BY <1>2, <1>5, <3>1, <3>2 DEF Ack, AckFails, CollectorRestart
  <2>2. col' \in ColState /\ ColInv'
    BY <2>1 DEF AtPart, ColState, ColInv
  <2> DEFINE Batched == col.pc = "process" /\ col.at = col.end
  <2>3. ASSUME Batched
        PROVE  col.next \in Nat /\ (col.part \notin overtaken => Upto(col.part, col.next))
    <3>1. /\ col.next \in Nat /\ col.at \in Nat
          /\ col.part \notin overtaken => col.next <= col.at
      BY <1>2, <2>3, ColShape DEF ColInv
    <3>2. col.part \notin overtaken => Upto(col.part, col.at)
      BY <1>2, <2>3, <3>1 DEF ColInv
    <3> QED BY <1>2, <3>1, <3>2, UptoLess
  <2>4. CASE Ack
    <3>1. /\ Batched /\ col.next <= Len(log[col.part]) /\ UNCHANGED late
          /\ committed' = [committed EXCEPT ![col.part] = col.next]
      BY <2>4 DEF Ack, InRange
    <3>2. committed' \in [Part -> Nat]
          /\ \A p \in Part : committed'[p] = IF p = col.part THEN col.next ELSE committed[p]
      BY <1>2, <2>3, <3>1
    <3>3. ASSUME NEW p \in Part \ overtaken', NEW n \in Nat, committed'[p] = n PROVE Upto(p, n)'
      <4>1. Upto(p, n)
        BY <1>1, <1>2, <2>3, <3>1, <3>2, <3>3 DEF CommittedInv
      <4> QED BY <1>3, <4>1, UptoKept
    <3> QED BY <1>1, <1>2, <1>3, <1>4, <2>2, <3>1, <3>2, <3>3, GrownKeeps DEF CommittedInv
  <2>5. CASE AckFails \/ CollectorRestart
    <3>1. UNCHANGED committed
      BY <2>5 DEF AckFails, CollectorRestart
    <3>2. CommittedInv'
      BY <1>3, <3>1, GrownKeeps
    <3>3. PICK r : /\ r \in Request /\ GoodRequest(r)
                   /\ UNCHANGED late \/ Abandon(r)
      <4>1. CASE UNCHANGED late
        <5>1. NoRequest \in Request /\ GoodRequest(NoRequest)
          BY DEF Request, GoodRequest, NoRequest
        <5> QED BY <4>1, <5>1
      <4>2. CASE Batched /\ Abandon(AckOf(col.part, col.next))
        <5>1. AckOf(col.part, col.next) \in Request /\ GoodRequest(AckOf(col.part, col.next))
          BY <1>2, <2>3, <4>2 DEF Request, GoodRequest, AckOf
        <5> QED BY <4>2, <5>1
      <4>3. CASE /\ col.pc = "process" /\ col.at < col.end /\ Valid(Message)
                 /\ Abandon(InsertOf(Message))
        <5>1. InsertOf(Message) \in Request /\ GoodRequest(InsertOf(Message))
          BY <4>3, MessageShape DEF Request, GoodRequest, InsertOf
        <5> QED BY <4>3, <5>1
      <4> QED BY <2>5, <4>1, <4>2, <4>3 DEF AckFails, CollectorRestart
    <3>4. LateInv' /\ late' \in [Slot -> Request']
      BY <1>3, <3>3, GrownKeeps, AbandonStep
    <3> QED BY <1>1, <1>2, <1>3, <1>4, <2>2, <3>1, <3>2, <3>4
  <2> QED BY <1>5, <2>4, <2>5
<1>6. ASSUME NEW i \in Slot, AckLands(i)
      PROVE  /\ ColInv' /\ CommittedInv' /\ LateInv'
             /\ late' \in [Slot -> Request'] /\ col' \in ColState
             /\ committed' \in [Part -> Nat] /\ \A p \in Part : committed'[p] <= Len(log[p])
  <2>1. /\ late[i].op = "ack" /\ late' = [late EXCEPT ![i] = NoRequest] /\ UNCHANGED col
        /\ committed' = IF late[i].to <= Len(log[late[i].part])
                         THEN [committed EXCEPT ![late[i].part] = late[i].to] ELSE committed
    BY <1>6 DEF AckLands, InRange
  <2>2. /\ late[i].part \in Part /\ late[i].to \in Nat
        /\ late[i].part \notin overtaken => Upto(late[i].part, late[i].to)
    <3>1. late[i] \in Request /\ GoodRequest(late[i])
      BY <1>2, RequestType DEF LateInv
    <3> QED BY <2>1, <3>1 DEF Request, GoodRequest, NoRequest
  <2>3. ColInv' /\ LateInv' /\ late' \in [Slot -> Request'] /\ col' \in ColState
    BY <1>2, <1>3, <2>1, GrownKeeps, LandStep DEF TypeOK, ColState
  <2>4. CASE UNCHANGED committed
    BY <1>2, <1>3, <2>3, <2>4, GrownKeeps
  <2>5. CASE /\ late[i].to <= Len(log[late[i].part])
             /\ committed' = [committed EXCEPT ![late[i].part] = late[i].to]
    <3>1. committed' \in [Part -> Nat]
          /\ \A p \in Part : committed'[p] = IF p = late[i].part THEN late[i].to ELSE committed[p]
      BY <1>2, <2>2, <2>5
    <3>2. ASSUME NEW p \in Part \ overtaken', NEW n \in Nat, committed'[p] = n PROVE Upto(p, n)'
      <4>1. Upto(p, n)
        BY <1>1, <1>2, <2>2, <3>1, <3>2 DEF CommittedInv
      <4> QED BY <1>3, <4>1, UptoKept
    <3> QED BY <1>2, <2>3, <2>5, <3>1, <3>2 DEF CommittedInv
  <2> QED BY <2>1, <2>4, <2>5
<1> QED BY <1>1, <1>3, <1>4, <1>5, <1>6

-----------------------------------------------------------------------------
(* The inserts.                                                            *)

\* A message is inserted, in time or late, or given up on; all that were published
\* before it to its partition have been dealt with.
LEMMA RowStep ==
  ASSUME Inv, NEW m \in DOMAIN sent, rows' \in {rows, WithRow(m)}, failed' \in {failed, failed \cup {m}},
         UNCHANGED <<sent, log, overtaken>>,
         PartitionOf[sent[m].gpu] \notin overtaken => Preceded(m)
  PROVE  /\ Grown /\ LogInv' /\ FirstWins'
         /\ rows' \subseteq DOMAIN sent /\ failed' \subseteq DOMAIN sent
         /\ \A r, s \in rows' : Key(r) = Key(s) => r = s
<1>1. /\ rows \subseteq DOMAIN sent /\ failed \subseteq DOMAIN sent
      /\ \A r, s \in rows : Key(r) = Key(s) => r = s
  BY DEF Inv, TypeOK
<1>2. /\ rows \subseteq rows' /\ failed \subseteq failed' /\ rows' \subseteq DOMAIN sent
      /\ failed' \subseteq DOMAIN sent
      /\ \A r, s \in rows' : Key(r) = Key(s) => r = s
      /\ \A r \in rows' \ rows : r = m /\ ~ Stored(m)
  BY <1>1, WithRowProperties DEF Inv
<1>3. Grown
  BY <1>2, StillGrown
<1>4. LogInv'
  BY DEF Inv, LogInv
<1>5. FirstWins'
  <2> SUFFICES ASSUME NEW r \in rows', NEW n \in DOMAIN sent, n < r, Valid(n), Key(n) = Key(r),
                      PartitionOf[sent[r].gpu] \notin overtaken
               PROVE  n \in failed'
    BY DEF FirstWins, Valid, Key
  <2>1. CASE r \in rows
    BY <1>2, <2>1 DEF Inv, FirstWins
  <2>2. CASE r \notin rows
    <3>1. r = m /\ ~ Stored(m)
      BY <1>2, <2>2
    <3>2. sent[n].gpu = sent[m].gpu
      BY <3>1 DEF Key
    <3>3. Done(n)
      BY <3>1, <3>2 DEF Preceded
    <3>4. ~ Stored(n)
      BY <3>1 DEF Stored
    <3> QED BY <1>2, <3>3, <3>4 DEF Done
  <2> QED BY <2>1, <2>2
<1> QED BY <1>2, <1>3, <1>4, <1>5

\* The next message of a batch is dealt with: rejected, inserted or failed.
LEMMA MessageStep ==
  ASSUME Inv, Reject \/ Insert \/ InsertFails
  PROVE  /\ Grown /\ LogInv' /\ FirstWins' /\ ColInv' /\ LateInv'
         /\ late' \in [Slot -> Request'] /\ col' \in ColState
         /\ rows' \subseteq DOMAIN sent /\ failed' \subseteq DOMAIN sent
         /\ \A r, s \in rows' : Key(r) = Key(s) => r = s
         /\ UNCHANGED <<clock, streamer, sent, log, committed, main, restarts, overtaken>>
<1>p. PICK p : p = col.part
  OBVIOUS
<1>m. PICK m : m = Message
  OBVIOUS
<1>1. /\ UNCHANGED <<clock, streamer, sent, log, committed, main, restarts, overtaken>>
      /\ col.pc = "process" /\ col.at < col.end /\ NextMessage
  BY DEF Reject, Insert, InsertFails, Processing, streamVars, brokerVars, mainVars
<1>2. /\ p \in Part /\ col.at \in Nat /\ col.end \in Nat /\ col.end <= Len(log[p]) /\ Len(log[p]) \in Nat
      /\ m = log[p][col.at + 1] /\ m \in DOMAIN sent /\ PartitionOf[sent[m].gpu] = p
      /\ p \notin overtaken => Upto(p, col.at) /\ Preceded(m)
  BY <1>1, <1>p, <1>m, MessageShape
<1>3. /\ rows' \in {rows, WithRow(m)} /\ failed' \in {failed, failed \cup {m}}
      /\ ~ Valid(m) \/ m \in failed' \/ rows' = WithRow(m)
  BY <1>m DEF Reject, Insert, InsertFails, tableVars
<1>4. /\ Grown /\ LogInv' /\ FirstWins'
      /\ rows' \subseteq DOMAIN sent /\ failed' \subseteq DOMAIN sent
      /\ \A r, s \in rows' : Key(r) = Key(s) => r = s
  BY <1>1, <1>2, <1>3, RowStep
<1>5. Done(m)'
  <2>1. CASE ~ Valid(m)
    BY <1>1, <2>1 DEF Done, Valid
  <2>2. CASE m \in failed'
    BY <2>2 DEF Done, Valid
  <2>3. CASE rows' = WithRow(m)
    <3>1. \E r \in rows' : Key(r) = Key(m)
      BY <1>2, <2>3, WithRowProperties DEF Inv
    <3>2. Stored(m)'
      BY <1>1, <3>1 DEF Stored, Key
    <3> QED BY <3>2 DEF Done, Valid
  <2> QED BY <1>3, <2>1, <2>2, <2>3
<1>6. /\ col' = [pc |-> "process", part |-> p, at |-> col.at + 1, end |-> col.end, next |-> col.next]
      /\ col.next \in Nat
  BY <1>1, <1>p, ColShape DEF NextMessage, Inv
<1>7. col' \in ColState
  BY <1>2, <1>6 DEF ColState
<1>8. ColInv'
  <2>1. col.at + 1 \in Nat /\ col.at + 1 <= col.end /\ col.at + 1 <= Len(log[p])
    BY <1>1, <1>2
  <2>2. ASSUME NEW n \in Nat, n = col.at + 1, p \notin overtaken PROVE Upto(p, n)'
    <3>1. ASSUME NEW i \in 1..n PROVE Done(log[p][i])'
      <4>1. PICK e : e = log[p][i]
        OBVIOUS
      <4>2. CASE i \in 1..col.at
        <5>1. e \in DOMAIN sent /\ Done(e)
          BY <1>2, <1>4, <2>2, <4>1, <4>2 DEF Upto, Grown
        <5> QED BY <1>1, <1>4, <4>1, <5>1 DEF Grown, Done, Stored, Key, Valid
      <4>3. CASE i = col.at + 1
        <5>1. e = m
          BY <1>2, <4>1, <4>3
        <5> QED BY <1>1, <1>5, <4>1, <5>1 DEF Done, Stored, Key, Valid
      <4> QED BY <1>2, <2>2, <4>2, <4>3
    <3> QED BY <1>1, <2>1, <2>2, <3>1 DEF Upto
  <2>3. col'.pc = "process" /\ col'.part = p /\ col'.at = col.at + 1 /\ col'.end = col.end /\ col'.next = col.next
    BY <1>6
  <2>4. ASSUME NEW r \in Part \ overtaken', NEW n \in Nat, col'.part = r, col'.at = n
        PROVE  Upto(r, n)'
    <3>1. n = col.at + 1 /\ r = p /\ p \notin overtaken
      BY <1>1, <2>3, <2>4
    <3>2. Upto(p, n)'
      BY <2>2, <3>1
    <3> QED BY <3>1, <3>2 DEF Upto, Done, Stored, Key, Valid
  <2>5. p \notin overtaken => col.next <= col.end
    BY <1>1, <1>p DEF Inv, ColInv
  <2> QED BY <1>1, <1>2, <2>1, <2>3, <2>4, <2>5 DEF ColInv
<1>9. LateInv' /\ late' \in [Slot -> Request']
  <2>1. CASE UNCHANGED late
    BY <1>4, <2>1, GrownKeeps
  <2>2. CASE Valid(m) /\ Abandon(InsertOf(m))
    <3>1. InsertOf(m) \in Request /\ GoodRequest(InsertOf(m))
      BY <1>2, <2>2 DEF Request, GoodRequest, InsertOf
    <3> QED BY <1>4, <2>2, <3>1, AbandonStep
  <2> QED BY <1>m, <2>1, <2>2 DEF Reject, Insert, InsertFails
<1> QED BY <1>1, <1>4, <1>7, <1>8, <1>9

\* An insert whose caller is gone is made.
LEMMA LateInsertStep ==
  ASSUME Inv, NEW i \in Slot, InsertLands(i)
  PROVE  /\ Grown /\ LogInv' /\ FirstWins' /\ LateInv'
         /\ late' \in [Slot -> Request']
         /\ rows' \subseteq DOMAIN sent /\ failed' \subseteq DOMAIN sent
         /\ \A r, s \in rows' : Key(r) = Key(s) => r = s
         /\ late[i].msg \in DOMAIN sent /\ Valid(late[i].msg) /\ rows' = WithRow(late[i].msg)
         /\ PartitionOf[sent[late[i].msg].gpu] \notin overtaken => Preceded(late[i].msg)
         /\ UNCHANGED <<clock, streamer, sent, log, committed, col, main, restarts, overtaken>>
<1>1. /\ UNCHANGED <<clock, streamer, sent, log, committed, col, main, restarts, overtaken, failed>>
      /\ late[i].op = "insert" /\ rows' = WithRow(late[i].msg) /\ late' = [late EXCEPT ![i] = NoRequest]
  BY DEF InsertLands, streamVars, brokerVars, mainVars
<1>2. late[i] \in Request /\ GoodRequest(late[i])
  BY RequestType DEF Inv, LateInv
<1>3. /\ late[i].msg \in DOMAIN sent /\ Valid(late[i].msg)
      /\ PartitionOf[sent[late[i].msg].gpu] \notin overtaken => Preceded(late[i].msg)
  BY <1>1, <1>2 DEF Request, GoodRequest, NoRequest
<1>4. /\ Grown /\ LogInv' /\ FirstWins'
      /\ rows' \subseteq DOMAIN sent /\ failed' \subseteq DOMAIN sent
      /\ \A r, s \in rows' : Key(r) = Key(s) => r = s
  BY <1>1, <1>3, RowStep
<1> QED BY <1>1, <1>3, <1>4, LandStep

-----------------------------------------------------------------------------
(* The invariant.                                                          *)

LEMMA InvInit == Init => Inv
<1> SUFFICES ASSUME Init PROVE Inv
  OBVIOUS
<1>1. sent = <<>> /\ DOMAIN sent = {} /\ rows = {} /\ failed = {} /\ col.pc = "poll" /\ overtaken = {}
  BY DEF Init, AtPart
<1>2. \A p \in Part : log[p] = <<>> /\ DOMAIN log[p] = {} /\ committed[p] = 0 /\ Len(log[p]) = 0
  BY DEF Init
<1>3. TypeOK
  <2>1. sent \in Seq([gpu : Gpu, sec : Nat, payload : {"record", "bad", "opaque"}]) /\ log \in [Part -> Seq(Nat)]
    BY <1>1, EmptySeq DEF Init
  <2>2. streamer \in [Streamer -> [pc : {"next"}, rec : DOMAIN Records]
                               \cup [pc : {"publish"}, rec : DOMAIN Records, sec : Nat]]
    <3>1. 1 \in DOMAIN Records
      BY PipelineAssumption, EmptySeq, LenProperties
    <3> QED BY <3>1 DEF Init, AtRecord
  <2>3. committed \in [Part -> Nat] /\ col \in [pc : {"poll"}, part : Part]
    BY PipelineAssumption DEF Init, AtPart, Part
  <2> QED BY <1>1, <1>2, <2>1, <2>2, <2>3 DEF TypeOK, Init
<1>4. ColInv /\ CommittedInv /\ LateInv /\ LogInv /\ FirstWins
  <2>1. CommittedInv
    BY <1>2 DEF CommittedInv, Upto
  <2>2. LateInv
    BY DEF Init, LateInv, GoodRequest, NoRequest
  <2> QED BY <1>1, <1>2, <2>1, <2>2 DEF ColInv, LogInv, FirstWins
<1>5. StreamerInv
  BY DEF Init, StreamerInv, AtRecord
<1> QED BY <1>3, <1>4, <1>5 DEF Inv

\* Streamers stay at a record of the file.
StreamerType ==
  streamer \in [Streamer -> [pc : {"next"}, rec : DOMAIN Records]
                            \cup [pc : {"publish"}, rec : DOMAIN Records, sec : Nat]]

LEMMA FollowingType ==
  /\ 1 \in DOMAIN Records
  /\ \A i \in DOMAIN Records : Following(i) \in DOMAIN Records /\ Records[i] \in Gpu \cup {NoGpu}
<1>1. Records \in Seq(Gpu \cup {NoGpu}) /\ Records # <<>>
  BY PipelineAssumption
<1>2. DOMAIN Records = 1..Len(Records) /\ Len(Records) \in Nat /\ Len(Records) # 0
  BY <1>1, LenProperties, EmptySeq
<1> QED BY <1>1, <1>2, ElementOfSeq DEF Following

LEMMA StreamerMoves ==
  ASSUME Inv, NEW s \in Streamer, NEW v, streamer' = [streamer EXCEPT ![s] = v],
         \/ \E i \in DOMAIN Records : v = AtRecord(i)
         \/ /\ v \in [pc : {"publish"}, rec : DOMAIN Records, sec : Nat]
            /\ Records[v.rec] \in Gpu
  PROVE  StreamerType' /\ StreamerInv'
<1>1. StreamerType
  BY DEF Inv, TypeOK, StreamerType
<1>2. v \in [pc : {"next"}, rec : DOMAIN Records] \cup [pc : {"publish"}, rec : DOMAIN Records, sec : Nat]
  BY DEF AtRecord
<1>3. StreamerType'
  BY <1>1, <1>2 DEF StreamerType
<1>4. \A z \in Streamer : streamer'[z] = IF z = s THEN v ELSE streamer[z]
  BY <1>1 DEF StreamerType
<1>5. v.pc = "publish" => Records[v.rec] \in Gpu
  BY DEF AtRecord
<1> QED BY <1>3, <1>4, <1>5 DEF Inv, StreamerInv

LEMMA StreamerStep ==
  ASSUME Inv, NEW s \in Streamer, Stamp(s) \/ Publish(s) \/ PublishFails(s) \/ StreamerRestart(s)
  PROVE  StreamerType' /\ StreamerInv'
<1>1. /\ streamer[s].rec \in DOMAIN Records
      /\ streamer \in [Streamer -> [pc : {"next"}, rec : DOMAIN Records]
                                   \cup [pc : {"publish"}, rec : DOMAIN Records, sec : Nat]]
      /\ clock \in Nat
  BY DEF Inv, TypeOK
<1> DEFINE i == streamer[s].rec
<1>2. CASE Stamp(s)
  <2>1. CASE Records[i] = NoGpu
    <3>1. streamer' = [streamer EXCEPT ![s] = AtRecord(Following(i))]
      BY <1>2, <2>1 DEF Stamp
    <3> QED BY <1>1, <3>1, FollowingType, StreamerMoves
  <2>2. CASE Records[i] # NoGpu
    <3> DEFINE v == [pc |-> "publish", rec |-> i, sec |-> clock]
    <3>1. streamer' = [streamer EXCEPT ![s] = v]
      BY <1>2, <2>2 DEF Stamp
    <3>2. v \in [pc : {"publish"}, rec : DOMAIN Records, sec : Nat] /\ Records[v.rec] \in Gpu
      BY <1>1, <2>2, FollowingType
    <3> HIDE DEF v
    <3> QED BY <3>1, <3>2, StreamerMoves
  <2> QED BY <2>1, <2>2
<1>3. CASE Publish(s) \/ PublishFails(s)
  <2>1. streamer' = [streamer EXCEPT ![s] = AtRecord(Following(i))]
    BY <1>1, <1>3 DEF Publish, PublishFails
  <2> QED BY <1>1, <2>1, FollowingType, StreamerMoves
<1>4. CASE StreamerRestart(s)
  BY <1>4, FollowingType, StreamerMoves DEF StreamerRestart
<1> QED BY <1>2, <1>3, <1>4

LEMMA OutgoingType ==
  ASSUME Inv, NEW s \in Streamer, streamer[s].pc = "publish"
  PROVE  Outgoing(s) \in [gpu : Gpu, sec : Nat, payload : {"record"}]
<1>1. streamer[s].sec \in Nat /\ Records[streamer[s].rec] \in Gpu
  BY DEF Inv, TypeOK, StreamerInv
<1> QED BY <1>1 DEF Outgoing

LEMMA LateRecordType ==
  ASSUME Inv, NEW i \in Slot, PublishLands(i)
  PROVE  late[i].record \in [gpu : Gpu, sec : Nat, payload : {"record", "bad", "opaque"}]
<1>1. late[i] \in Request
  BY RequestType DEF Inv
<1>2. late[i].op = "publish"
  BY DEF PublishLands
<1>3. late[i].record \in [gpu : Gpu, sec : Nat, payload : {"record"}]
  BY <1>1, <1>2 DEF Request, NoRequest
<1> QED BY <1>3

\* A streamer's publication, in time or late, and anyone else's.
LEMMA PublicationStep ==
  ASSUME Inv, \/ \E s \in Streamer : Publish(s)
              \/ PublishOther
              \/ \E i \in Slot : PublishLands(i) /\ ~ UNCHANGED brokerVars
  PROVE  Inv'
<1>1. PICK m \in [gpu : Gpu, sec : Nat, payload : {"record", "bad", "opaque"}] : Accept(m)
  <2>1. ASSUME NEW s \in Streamer, Publish(s)
        PROVE  \E m \in [gpu : Gpu, sec : Nat, payload : {"record", "bad", "opaque"}] : Accept(m)
    BY <2>1, OutgoingType DEF Publish
  <2>2. ASSUME PublishOther PROVE \E m \in [gpu : Gpu, sec : Nat, payload : {"record", "bad", "opaque"}] : Accept(m)
    BY <2>2, PipelineAssumption DEF PublishOther, Inv, TypeOK
  <2>3. ASSUME NEW i \in Slot, PublishLands(i), ~ UNCHANGED brokerVars
        PROVE  \E m \in [gpu : Gpu, sec : Nat, payload : {"record", "bad", "opaque"}] : Accept(m)
    BY <2>3, LateRecordType DEF PublishLands
  <2> QED BY <2>1, <2>2, <2>3
<1>2. UNCHANGED <<clock, committed, col, main, rows, failed, overtaken, restarts>>
  BY DEF Publish, PublishOther, PublishLands, streamVars, mainVars, tableVars
<1>3. StreamerType' /\ StreamerInv'
  <2>1. CASE PublishOther \/ \E i \in Slot : PublishLands(i)
    BY <2>1 DEF PublishOther, PublishLands, streamVars, Inv, TypeOK, StreamerType, StreamerInv
  <2> QED BY <2>1, StreamerStep
<1>4. sent' \in Seq([gpu : Gpu, sec : Nat, payload : {"record", "bad", "opaque"}]) /\ log' \in [Part -> Seq(Nat)]
      /\ DOMAIN sent \subseteq DOMAIN sent'
  <2>1. DOMAIN sent = 1..Len(sent) /\ DOMAIN sent' = 1..(Len(sent) + 1) /\ Len(sent) \in Nat
    BY <1>1, <1>2, AcceptFrame
  <2>2. DOMAIN sent \subseteq DOMAIN sent'
    BY <2>1
  <2> QED BY <1>1, <1>2, <2>2, AcceptFrame
<1>5. /\ Grown /\ LogInv' /\ FirstWins'
      /\ (\A p \in Part : committed[p] <= Len(log'[p]))
      /\ (\A p \in Part : \A i \in DOMAIN log'[p] : log'[p][i] \in DOMAIN sent')
      /\ (\A r, q \in rows : Key(r)' = Key(q)' => r = q)
  BY <1>1, <1>2, AcceptStep
<1>6. ColInv' /\ CommittedInv' /\ LateInv' /\ late' \in [Slot -> Request']
  <2>1. UNCHANGED late \/ \E i \in Slot : late' = [late EXCEPT ![i] = NoRequest]
    BY DEF Publish, PublishOther, PublishLands
  <2> QED BY <1>2, <1>5, <2>1, GrownKeeps, LandStep
<1>7. TypeOK'
  BY <1>2, <1>3, <1>4, <1>5, <1>6 DEF Inv, TypeOK, StreamerType, Key, Request
<1> QED BY <1>3, <1>5, <1>6, <1>7 DEF Inv

LEMMA InvStep == Inv /\ [Next]_vars => Inv'
<1> SUFFICES ASSUME Inv, [Next]_vars PROVE Inv'
  OBVIOUS
<1>t. /\ TypeOK /\ StreamerType /\ StreamerInv
      /\ col \in ColState /\ committed \in [Part -> Nat] /\ overtaken \subseteq Part
      /\ \A p \in Part : committed[p] <= Len(log[p])
  BY DEF Inv, TypeOK, StreamerType, ColState
\* Of every step but a publication, what remains to be shown.
<1>1. ASSUME UNCHANGED <<sent, log>>, Grown, LogInv', FirstWins', ColInv', CommittedInv', LateInv',
             late' \in [Slot -> Request'], col' \in ColState, committed' \in [Part -> Nat],
             \A p \in Part : committed'[p] <= Len(log[p]),
             rows' \subseteq DOMAIN sent, failed' \subseteq DOMAIN sent,
             \A r, s \in rows' : Key(r) = Key(s) => r = s,
             overtaken' \subseteq Part, StreamerType', StreamerInv',
             clock' \in Nat, main' \in {"running", "signalled", "closed"}, restarts' \in Nat
      PROVE  Inv'
  <2>1. /\ sent' \in Seq([gpu : Gpu, sec : Nat, payload : {"record", "bad", "opaque"}])
        /\ log' \in [Part -> Seq(Nat)]
        /\ \A p \in Part : \A i \in DOMAIN log'[p] : log'[p][i] \in DOMAIN sent'
        /\ \A r, s \in rows' : Key(r)' = Key(s)' => r = s
    BY <1>1, <1>t DEF TypeOK, Key
  <2>2. TypeOK'
    BY <1>1, <2>1 DEF TypeOK, StreamerType, ColState, Request
  <2> QED BY <1>1, <2>2 DEF Inv
<1>2. ASSUME UNCHANGED <<sent, log, committed, late, col, rows, failed, overtaken>>, StreamerType', StreamerInv',
             clock' \in Nat, main' \in {"running", "signalled", "closed"}, restarts' \in Nat
      PROVE  Inv'
  <2>1. Grown /\ LogInv' /\ FirstWins'
    BY <1>2, QuietStep
  <2>2. /\ ColInv' /\ CommittedInv' /\ LateInv' /\ late' \in [Slot -> Request']
    BY <1>2, <2>1, GrownKeeps
  <2> QED BY <1>1, <1>2, <1>t, <2>1, <2>2 DEF TypeOK
<1>3. CASE Tick \/ Signal \/ CloseStore
  <2>1. UNCHANGED <<streamer, sent, log, committed, late, col, rows, failed, overtaken>>
    BY <1>3 DEF Tick, Signal, CloseStore, streamVars, brokerVars, tableVars
  <2>2. clock' \in Nat /\ main' \in {"running", "signalled", "closed"} /\ restarts' \in Nat
    BY <1>3, <1>t DEF TypeOK, Tick, Signal, CloseStore, streamVars, mainVars
  <2>3. StreamerType' /\ StreamerInv'
    BY <1>t, <2>1 DEF StreamerType, StreamerInv
  <2> QED BY <1>2, <2>1, <2>2, <2>3
\* A request comes or goes.
<1>11. ASSUME UNCHANGED <<clock, sent, log, committed, col, main, rows, failed, overtaken, restarts>>,
              StreamerType', StreamerInv',
              \/ UNCHANGED late
              \/ \E s \in Streamer : streamer[s].pc = "publish" /\ Abandon(PublishOf(Outgoing(s)))
              \/ \E i \in Slot : late' = [late EXCEPT ![i] = NoRequest]
       PROVE  Inv'
  <2>1. Grown /\ LogInv' /\ FirstWins'
    BY <1>11, QuietStep
  <2>2. ColInv' /\ CommittedInv'
    BY <1>11, <2>1, GrownKeeps
  <2>3. ASSUME NEW s \in Streamer, streamer[s].pc = "publish"
        PROVE  PublishOf(Outgoing(s)) \in Request /\ GoodRequest(PublishOf(Outgoing(s)))
    <3>1. PublishOf(Outgoing(s)) \in [op : {"publish"}, record : [gpu : Gpu, sec : Nat, payload : {"record"}]]
      BY <2>3, OutgoingType DEF PublishOf
    <3> QED BY <3>1 DEF Request, GoodRequest
  <2>4. LateInv' /\ late' \in [Slot -> Request']
    BY <1>11, <2>1, <2>3, GrownKeeps, AbandonStep, LandStep
  <2> QED BY <1>1, <1>11, <1>t, <2>1, <2>2, <2>4 DEF TypeOK
<1>4. ASSUME NEW s \in Streamer, Stamp(s) \/ PublishFails(s) \/ StreamerRestart(s)
      PROVE  Inv'
  <2>1. UNCHANGED <<clock, sent, log, committed, col, main, rows, failed, overtaken, restarts>>
    BY <1>4 DEF Stamp, PublishFails, StreamerRestart, brokerVars, mainVars, tableVars
  <2>2. UNCHANGED late \/ (streamer[s].pc = "publish" /\ Abandon(PublishOf(Outgoing(s))))
    BY <1>4 DEF Stamp, PublishFails, StreamerRestart
  <2>3. StreamerType' /\ StreamerInv'
    BY <1>4, StreamerStep
  <2> QED BY <1>11, <2>1, <2>2, <2>3
<1>5. CASE PublishOther \/ \E s \in Streamer : Publish(s)
  BY <1>5, PublicationStep
<1>12. ASSUME NEW i \in Slot, PublishLands(i) PROVE Inv'
  <2>1. CASE UNCHANGED brokerVars
    <3>1. /\ UNCHANGED <<clock, streamer, sent, log, committed, col, main, rows, failed, overtaken, restarts>>
          /\ late' = [late EXCEPT ![i] = NoRequest]
      BY <1>12, <2>1 DEF PublishLands, streamVars, brokerVars, mainVars, tableVars
    <3>2. StreamerType' /\ StreamerInv'
      BY <1>t, <3>1 DEF StreamerType, StreamerInv
    <3> QED BY <1>11, <3>1, <3>2
  <2> QED BY <1>12, <2>1, PublicationStep
<1>6. CASE (\E p \in Part : PollRead(p)) \/ PollRespond \/ ConsumeFails
  <2>1. /\ Grown /\ LogInv' /\ FirstWins' /\ ColInv'
        /\ col' \in ColState /\ overtaken' \subseteq Part
        /\ UNCHANGED <<clock, streamer, sent, log, committed, late, main, restarts, rows, failed>>
    BY <1>6, PollStep
  <2>2. CommittedInv' /\ LateInv' /\ late' \in [Slot -> Request']
    BY <2>1, GrownKeeps
  <2>3. StreamerType' /\ StreamerInv'
    BY <1>t, <2>1 DEF StreamerType, StreamerInv
  <2> QED BY <1>1, <1>t, <2>1, <2>2, <2>3 DEF TypeOK
<1>7. CASE Ack \/ AckFails \/ CollectorRestart \/ \E i \in Slot : AckLands(i)
  <2>1. /\ Grown /\ LogInv' /\ FirstWins' /\ ColInv' /\ CommittedInv' /\ LateInv'
        /\ late' \in [Slot -> Request'] /\ col' \in ColState
        /\ committed' \in [Part -> Nat] /\ \A p \in Part : committed'[p] <= Len(log[p])
        /\ main' \in {"running", "signalled", "closed"} /\ restarts' \in Nat
        /\ UNCHANGED <<clock, streamer, sent, log, rows, failed, overtaken>>
    BY <1>7, AckStep
  <2>2. StreamerType' /\ StreamerInv'
    BY <1>t, <2>1 DEF StreamerType, StreamerInv
  <2> QED BY <1>1, <1>t, <2>1, <2>2 DEF TypeOK
<1>8. CASE Reject \/ Insert \/ InsertFails
  <2>1. /\ Grown /\ LogInv' /\ FirstWins' /\ ColInv' /\ LateInv'
        /\ late' \in [Slot -> Request'] /\ col' \in ColState
        /\ rows' \subseteq DOMAIN sent /\ failed' \subseteq DOMAIN sent
        /\ \A r, s \in rows' : Key(r) = Key(s) => r = s
        /\ UNCHANGED <<clock, streamer, sent, log, committed, main, restarts, overtaken>>
    BY <1>8, MessageStep
  <2>2. CommittedInv' /\ StreamerType' /\ StreamerInv'
    BY <1>t, <2>1, GrownKeeps DEF StreamerType, StreamerInv
  <2> QED BY <1>1, <1>t, <2>1, <2>2 DEF TypeOK
<1>9. ASSUME NEW i \in Slot, InsertLands(i) PROVE Inv'
  <2>1. /\ Grown /\ LogInv' /\ FirstWins' /\ LateInv'
        /\ late' \in [Slot -> Request']
        /\ rows' \subseteq DOMAIN sent /\ failed' \subseteq DOMAIN sent
        /\ \A r, s \in rows' : Key(r) = Key(s) => r = s
        /\ UNCHANGED <<clock, streamer, sent, log, committed, col, main, restarts, overtaken>>
    BY <1>9, LateInsertStep
  <2>2. ColInv' /\ CommittedInv' /\ StreamerType' /\ StreamerInv'
    BY <1>t, <2>1, GrownKeeps DEF StreamerType, StreamerInv
  <2> QED BY <1>1, <1>t, <2>1, <2>2 DEF TypeOK
<1>10. CASE UNCHANGED vars
  BY <1>2, <1>10, <1>t DEF vars, streamVars, brokerVars, mainVars, tableVars, TypeOK, StreamerType, StreamerInv
<1> QED BY <1>3, <1>4, <1>5, <1>6, <1>7, <1>8, <1>9, <1>10, <1>12 DEF Next, CollectorStep

\* Every offset stays within its log, however late an acknowledgement is carried
\* out; every message the collector holds, stores or gives up on is one that was
\* published; and the table never has two rows of one GPU and second.
THEOREM TypeCorrect == Spec => []TypeOK
<1>1. Inv => TypeOK
  BY DEF Inv
<1> QED BY <1>1, InvInit, InvStep, PTL DEF Spec

\* What the group's offset has passed is stored, was no record, or returned an
\* error: no crash in mid-batch, lost request, lost ack or ack that is carried out
\* long after leaves a gap, except in a partition whose offset moved on between
\* the two lookups of one poll.
THEOREM StoredOrFailedHolds == Spec => []StoredOrFailed
<1>1. ASSUME Inv PROVE StoredOrFailed
  <2> SUFFICES ASSUME NEW p \in Part \ overtaken, NEW i \in 1..committed[p]
               PROVE  Done(log[p][i])
    BY DEF StoredOrFailed, Done
  <2>1. committed[p] \in Nat
    BY <1>1 DEF Inv, TypeOK
  <2> QED BY <1>1, <2>1 DEF Inv, CommittedInv, Upto
<1> QED BY <1>1, InvInit, InvStep, PTL DEF Spec

\* Redelivery, an insert that is made when its collector has died, and a second
\* streamer of the same file never replace a row: of the messages of one GPU and
\* second the table has the first that was not refused, unless their partition
\* was overtaken as above.
THEOREM FirstWinsHolds == Spec => []FirstWins
<1>1. Inv => FirstWins
  BY DEF Inv
<1> QED BY <1>1, InvInit, InvStep, PTL DEF Spec

-----------------------------------------------------------------------------
(* The refinement of TelemetryTable.                                       *)

\* An insert is a step of the table, or finds the row there.
LEMMA InsertStores ==
  ASSUME NEW m \in DOMAIN sent, Valid(m), rows' = WithRow(m), UNCHANGED sent
  PROVE  Table!Store \/ UNCHANGED <<sent, rows>>
<1>1. CASE Stored(m)
  BY <1>1 DEF WithRow
<1>2. CASE ~ Stored(m)
  <2>1. m \in DOMAIN sent \ rows
    BY <1>2 DEF Stored
  <2>2. \A r \in rows : ~ Table!SameRow(sent[r], sent[m])
    BY <1>2 DEF Stored, Key, Table!SameRow
  <2>3. rows' = rows \cup {m}
    BY <1>2 DEF WithRow
  <2> QED BY <2>1, <2>2, <2>3 DEF Valid, Table!Store
<1> QED BY <1>1, <1>2

LEMMA AcceptPublishes ==
  ASSUME Inv, NEW m, m \in [gpu : Gpu, sec : Nat, payload : {"record", "bad", "opaque"}], Accept(m),
         UNCHANGED <<committed, rows, failed>>
  PROVE  Table!Publish
<1>1. sent' = Append(sent, m)
  BY DEF Accept
<1>2. Len(sent') = Len(sent) + 1 /\ Len(sent) \in Nat /\ sent'[Len(sent) + 1] = m
  BY AcceptFrame
<1> QED BY <1>1, <1>2 DEF Table!Publish

LEMMA TableStep ==
  ASSUME Inv, [Next]_vars
  PROVE  Table!Next \/ UNCHANGED <<sent, rows>>
<1> USE DEF streamVars, brokerVars, mainVars, tableVars
<1>1. CASE Tick \/ Signal \/ CloseStore \/ CollectorRestart
  BY <1>1 DEF Tick, Signal, CloseStore, CollectorRestart
<1>2. ASSUME NEW s \in Streamer, Stamp(s) \/ PublishFails(s) \/ StreamerRestart(s)
      PROVE  UNCHANGED <<sent, rows>>
  BY <1>2 DEF Stamp, PublishFails, StreamerRestart
<1>3. ASSUME NEW s \in Streamer, Publish(s) PROVE Table!Next
  <2>1. Outgoing(s) \in [gpu : Gpu, sec : Nat, payload : {"record", "bad", "opaque"}]
    BY <1>3, OutgoingType DEF Publish
  <2>2. Accept(Outgoing(s)) /\ UNCHANGED <<committed, rows, failed>>
    BY <1>3 DEF Publish
  <2> QED BY <2>1, <2>2, AcceptPublishes DEF Table!Next
<1>4. CASE PublishOther
  <2>1. PICK g \in Gpu, k \in OtherPayload : Accept([gpu |-> g, sec |-> clock, payload |-> k])
    BY <1>4 DEF PublishOther
  <2> DEFINE m == [gpu |-> g, sec |-> clock, payload |-> k]
  <2>2. m \in [gpu : Gpu, sec : Nat, payload : {"record", "bad", "opaque"}]
    BY PipelineAssumption DEF Inv, TypeOK
  <2>3. Accept(m) /\ UNCHANGED <<committed, rows, failed>>
    BY <1>4, <2>1 DEF PublishOther
  <2> HIDE DEF m
  <2> QED BY <2>2, <2>3, AcceptPublishes DEF Table!Next
<1>5. CASE (\E p \in Part : PollRead(p)) \/ PollRespond \/ ConsumeFails \/ Ack \/ AckFails
  BY <1>5 DEF PollRead, PollRespond, ConsumeFails, Ack, AckFails
<1>6. CASE Reject \/ Insert \/ InsertFails
  <2>1. col.pc = "process" /\ col.at < col.end /\ UNCHANGED sent
    BY <1>6 DEF Reject, Insert, InsertFails, Processing
  <2>2. UNCHANGED rows \/ (Valid(Message) /\ rows' = WithRow(Message))
    BY <1>6 DEF Reject, Insert, InsertFails
  <2> QED BY <2>1, <2>2, MessageShape, InsertStores DEF Table!Next
<1>8. ASSUME NEW i \in Slot, AckLands(i) \/ InsertLands(i)
      PROVE  Table!Next \/ UNCHANGED <<sent, rows>>
  <2>1. CASE AckLands(i)
    BY <2>1 DEF AckLands
  <2>2. CASE InsertLands(i)
    BY <2>2, LateInsertStep, InsertStores DEF Table!Next
  <2> QED BY <1>8, <2>1, <2>2
<1>9. ASSUME NEW i \in Slot, PublishLands(i)
      PROVE  Table!Next \/ UNCHANGED <<sent, rows>>
  <2>1. late[i].record \in [gpu : Gpu, sec : Nat, payload : {"record", "bad", "opaque"}]
    BY <1>9, LateRecordType
  <2>2. (Accept(late[i].record) \/ UNCHANGED sent) /\ UNCHANGED <<committed, rows, failed>>
    BY <1>9 DEF PublishLands
  <2> QED BY <2>1, <2>2, AcceptPublishes DEF Table!Next
<1>7. CASE UNCHANGED vars
  BY <1>7 DEF vars
<1> QED BY <1>1, <1>2, <1>3, <1>4, <1>5, <1>6, <1>7, <1>8, <1>9 DEF Next, CollectorStep

\* Whatever is lost, repeated, refused or restarted, those who read the database
\* see a table that only grows, by rows made from published records, with one row
\* at most for each GPU and second.
THEOREM ImplementsTelemetryTable == Spec => TableSpec
<1>1. Init => Table!Init
  BY DEF Init, Table!Init
<1> QED BY <1>1, InvInit, InvStep, TableStep, PTL DEF Spec, TableSpec, Table!Spec
=============================================================================
