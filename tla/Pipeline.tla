------------------------------ MODULE Pipeline ------------------------------
(***************************************************************************)
(* From a CSV file to a database row: the streamers                        *)
(* (streamer/internal/streamer.go), the collector with its main            *)
(* (collector/internal/collector.go, collector/cmd/main.go) and the store  *)
(* (collector/internal/store.go).                                          *)
(*                                                                         *)
(* The broker between them is the one that module AtLeastOnce describes: a *)
(* log per partition and the position of the one group, which one          *)
(* collector reads.  Module Delivery says when the broker is that good.    *)
(* PostgreSQL is a table with a unique index on GPU and timestamp.  Both   *)
(* carry out a request whose caller has given up or died, some time.       *)
(*                                                                         *)
(* A message is its number in the order of publication.  Of its payload    *)
(* remain the GPU, the second of its timestamp and its kind: a record that *)
(* the store accepts; "bad", anything else that a client of                *)
(* mq/client/client.go sends; or "opaque", a string that is not the base64 *)
(* text which that client puts in place of the bytes of a payload and      *)
(* expects in a response.  The server takes and returns any string         *)
(* (mq/api/handler.go:139, 236).                                           *)
(***************************************************************************)
EXTENDS Integers, Sequences

CONSTANTS
  Gpu,          \* GPU ids, which are the keys of the messages
  NoGpu,        \* in place of a GPU id: the field is empty or missing
  Records,      \* the GPU of each record of the file, in order
  Streamer,     \* streamer processes, all with the same file
  Partitions,   \* number of partitions of the topic
  PartitionOf,  \* the partition of each key
  Batch,        \* BATCH_SIZE
  OtherPayload, \* kinds of payload that other clients publish
  DbErrors,     \* whether the database may refuse an insert
  MaxClock,     \* bound of the model: seconds that pass
  MaxSent,      \* bound of the model: messages published
  MaxRestarts,  \* bound of the model: restarts of the collector
  MaxLate       \* bound of the model: requests without a caller at a time

ASSUME PipelineAssumption ==
  /\ Records \in Seq(Gpu \cup {NoGpu}) /\ Records # <<>> /\ NoGpu \notin Gpu
  /\ Partitions \in Nat \ {0}
  /\ PartitionOf \in [Gpu -> 1..Partitions]
  /\ Batch \in Nat \ {0}
  /\ OtherPayload \subseteq {"bad", "opaque"}
  /\ DbErrors \in BOOLEAN
  /\ MaxClock \in Nat /\ MaxSent \in Nat /\ MaxRestarts \in Nat /\ MaxLate \in Nat

VARIABLES
  clock,        \* seconds since the start
  streamer,     \* what each streamer is doing
  sent,         \* history: every message that was published
  log,          \* partition -> numbers of its messages
  committed,    \* partition -> offset of the collector's group
  late,         \* requests that are still to be carried out, though nobody waits
  col,          \* what the collector's loop is doing
  main,         \* what the collector's main is doing
  rows,         \* the messages that the rows of the table were made from
  failed,       \* history: messages whose insert returned an error
  overtaken,    \* history: partitions where an offset moved on during a poll
  restarts      \* number of restarts of the collector

streamVars == <<clock, streamer>>
brokerVars == <<sent, log>>
mainVars   == <<main, restarts>>
tableVars  == <<rows, failed>>
vars == <<streamVars, brokerVars, committed, late, col, mainVars, tableVars, overtaken>>

Part == 1..Partitions
Slot == 1..MaxLate

NoRequest     == [op |-> "none"]
AckOf(p, n)   == [op |-> "ack", part |-> p, to |-> n]
InsertOf(m)   == [op |-> "insert", msg |-> m]
PublishOf(r)  == [op |-> "publish", record |-> r]

\* A request that its caller gives up on has not reached its server and never
\* will, or it has and will be carried out some time.
Abandon(request) ==
  \/ UNCHANGED late
  \/ \E i \in Slot : late[i] = NoRequest /\ late' = [late EXCEPT ![i] = request]

AtRecord(i) == [pc |-> "next", rec |-> i]
AtPart(p)   == [pc |-> "poll", part |-> p]

Init ==
  /\ clock = 0
  /\ streamer = [s \in Streamer |-> AtRecord(1)]
  /\ sent = <<>>
  /\ log = [p \in Part |-> <<>>]
  /\ committed = [p \in Part |-> 0]
  /\ late = [i \in Slot |-> NoRequest]
  /\ col = AtPart(1)
  /\ main = "running"
  /\ rows = {} /\ failed = {}
  /\ overtaken = {}
  /\ restarts = 0

Tick ==
  /\ clock < MaxClock
  /\ clock' = clock + 1
  /\ UNCHANGED <<streamer, brokerVars, committed, late, col, mainVars, tableVars, overtaken>>

-----------------------------------------------------------------------------
(* Streamers.                                                              *)

\* Start runs StreamBatch over the file for ever.
Following(i) == IF i = Len(Records) THEN 1 ELSE i + 1

\* The record gets its timestamp, in whole seconds, before it is sent.  One
\* without a GPU is an error, which is logged, and the next record's turn.
Stamp(s) ==
  /\ streamer[s].pc = "next"
  /\ LET i == streamer[s].rec
     IN  streamer' = [streamer EXCEPT ![s] =
           IF Records[i] = NoGpu THEN AtRecord(Following(i))
           ELSE [pc |-> "publish", rec |-> i, sec |-> clock]]
  /\ UNCHANGED <<clock, brokerVars, committed, late, col, mainVars, tableVars, overtaken>>

Accept(m) ==
  /\ Len(sent) < MaxSent
  /\ sent' = Append(sent, m)
  /\ log' = [log EXCEPT ![PartitionOf[m.gpu]] = Append(@, Len(sent) + 1)]

Outgoing(s) == [gpu |-> Records[streamer[s].rec], sec |-> streamer[s].sec, payload |-> "record"]

\* The broker accepts the message.  The streamer goes on whether it learns of it
\* or not.
Publish(s) ==
  /\ streamer[s].pc = "publish"
  /\ Accept(Outgoing(s))
  /\ streamer' = [streamer EXCEPT ![s] = AtRecord(Following(@.rec))]
  /\ UNCHANGED <<clock, committed, late, col, mainVars, tableVars, overtaken>>

\* The broker refuses it or is not heard of; the record is not tried again.
PublishFails(s) ==
  /\ streamer[s].pc = "publish"
  /\ streamer' = [streamer EXCEPT ![s] = AtRecord(Following(@.rec))]
  /\ Abandon(PublishOf(Outgoing(s)))
  /\ UNCHANGED <<clock, brokerVars, committed, col, mainVars, tableVars, overtaken>>

\* A streamer that restarts reads the file from its first record.
StreamerRestart(s) ==
  /\ streamer' = [streamer EXCEPT ![s] = AtRecord(1)]
  /\ UNCHANGED late \/ (streamer[s].pc = "publish" /\ Abandon(PublishOf(Outgoing(s))))
  /\ UNCHANGED <<clock, brokerVars, committed, col, mainVars, tableVars, overtaken>>

\* A record that nobody waits for is accepted after later ones, or refused.
PublishLands(i) ==
  /\ late[i].op = "publish"
  /\ late' = [late EXCEPT ![i] = NoRequest]
  /\ Accept(late[i].record) \/ UNCHANGED brokerVars
  /\ UNCHANGED <<streamVars, committed, col, mainVars, tableVars, overtaken>>

\* Another client publishes what is not a record.
PublishOther ==
  /\ \E g \in Gpu, k \in OtherPayload : Accept([gpu |-> g, sec |-> clock, payload |-> k])
  /\ UNCHANGED <<streamVars, committed, late, col, mainVars, tableVars, overtaken>>

-----------------------------------------------------------------------------
(* The store.                                                              *)

Valid(m)  == sent[m].payload = "record"
Key(m)    == <<sent[m].gpu, sent[m].sec>>
Stored(m) == \E r \in rows : Key(r) = Key(m)

\* ON CONFLICT DO NOTHING.
\* (mutants: the conflicting row is replaced; there is no unique index)
Upserted(m)    == {r \in rows : Key(r) # Key(m)} \cup {m}
Duplicated(m)  == rows \cup {m}
WithRow(m)     == IF Stored(m) THEN rows ELSE rows \cup {m}

-----------------------------------------------------------------------------
(* The collector's loop.  The messages of a batch are those up to "end" in  *)
(* its partition's log, of which "at" are behind the loop; "next" is the    *)
(* offset that the response says to acknowledge.                            *)

AfterPart(p) == AtPart(IF p = Partitions THEN 1 ELSE p + 1)

Lesser(a, b) == IF a < b THEN a ELSE b

\* The client reads a response as a whole, or not at all.
Readable(p, at, end) == \A i \in (at + 1)..end : sent[log[p][i]].payload # "opaque"

\* The server looks the offset up and reads the messages from there.  (The log
\* only grows, so what comes between the two might as well come before or after.)
\* A response without messages, or one that the client cannot read, ends the poll.
PollRead(p) ==
  /\ col = AtPart(p)
  /\ LET at  == committed[p]
         end == Lesser(at + Batch, Len(log[p]))
     IN  col' = IF end = at \/ ~ Readable(p, at, end) THEN AfterPart(p)
                ELSE [pc |-> "respond", part |-> p, at |-> at, end |-> end]
  /\ UNCHANGED <<streamVars, brokerVars, committed, late, mainVars, tableVars, overtaken>>

\* The server looks the offset up again, and counts from there what it has read.
PollRespond ==
  /\ col.pc = "respond"
  /\ LET again == committed[col.part]
     IN  /\ col' = [pc |-> "process", part |-> col.part, at |-> col.at, end |-> col.end,
                    next |-> again + (col.end - col.at)]
         /\ overtaken' = IF again > col.at THEN overtaken \cup {col.part} ELSE overtaken
  /\ UNCHANGED <<streamVars, brokerVars, committed, late, mainVars, tableVars>>

\* The request is lost, which is as if it had been read and not answered, or the
\* response is; the partition is left for this round.
ConsumeFails ==
  /\ col.pc = "respond"
  /\ col' = AfterPart(col.part)
  /\ UNCHANGED <<streamVars, brokerVars, committed, late, mainVars, tableVars, overtaken>>

Message == log[col.part][col.at + 1]

\* (mutant: a message that is no record is tried again)
RetryBad == Valid(Message) /\ col' = [col EXCEPT !.at = @ + 1]
NextMessage == col' = [col EXCEPT !.at = @ + 1]

Processing ==
  /\ col.pc = "process" /\ col.at < col.end
  /\ UNCHANGED <<streamVars, brokerVars, committed, mainVars, overtaken>>

\* The payload does not parse, or the record is not valid.
Reject ==
  /\ Processing
  /\ ~ Valid(Message)
  /\ NextMessage
  /\ UNCHANGED <<tableVars, late>>

Insert ==
  /\ Processing
  /\ Valid(Message) /\ main # "closed"
  /\ NextMessage
  /\ rows' = WithRow(Message)
  /\ UNCHANGED <<failed, late>>

\* The store is closed, or the database fails before or after it has the row, or
\* is not heard of until it has.  The error is logged and the loop goes on.
InsertFails ==
  /\ Processing
  /\ Valid(Message)
  /\ NextMessage
  /\ failed' = failed \cup {Message}
  /\ \/ main = "closed" /\ UNCHANGED <<rows, late>>
     \/ main # "closed" /\ DbErrors /\ rows' = WithRow(Message) /\ UNCHANGED late
     \/ main # "closed" /\ DbErrors /\ UNCHANGED rows /\ Abandon(InsertOf(Message))

InRange(p, n) == n <= Len(log[p])

\* (mutant: the batch is acknowledged before it is processed)
AckEarly ==
  /\ col.pc = "process"
  /\ InRange(col.part, col.next)
  /\ committed' = [committed EXCEPT ![col.part] = col.next]
  /\ col' = AfterPart(col.part)
  /\ UNCHANGED <<streamVars, brokerVars, late, mainVars, tableVars, overtaken>>
Ack ==
  /\ col.pc = "process" /\ col.at = col.end
  /\ InRange(col.part, col.next)
  /\ committed' = [committed EXCEPT ![col.part] = col.next]
  /\ col' = AfterPart(col.part)
  /\ UNCHANGED <<streamVars, brokerVars, late, mainVars, tableVars, overtaken>>

\* The ack is refused or lost, which the collector does not make up for.
AckFails ==
  /\ col.pc = "process" /\ col.at = col.end
  /\ col' = AfterPart(col.part)
  /\ Abandon(AckOf(col.part, col.next))
  /\ UNCHANGED <<streamVars, brokerVars, committed, mainVars, tableVars, overtaken>>

\* An ack that nobody waits for is committed, whatever has been committed since,
\* or refused.  (The log only grows, so the check and the store make one step.)
AckLands(i) ==
  /\ late[i].op = "ack"
  /\ LET p == late[i].part
         n == late[i].to
     IN  committed' = IF InRange(p, n) THEN [committed EXCEPT ![p] = n] ELSE committed
  /\ late' = [late EXCEPT ![i] = NoRequest]
  /\ UNCHANGED <<streamVars, brokerVars, col, mainVars, tableVars, overtaken>>

\* An insert that nobody waits for makes its row, or finds one there.
InsertLands(i) ==
  /\ late[i].op = "insert"
  /\ rows' = WithRow(late[i].msg)
  /\ late' = [late EXCEPT ![i] = NoRequest]
  /\ UNCHANGED <<streamVars, brokerVars, committed, col, mainVars, failed, overtaken>>

-----------------------------------------------------------------------------
(* The collector's main.  The loop is a goroutine that main does not stop:  *)
(* it goes on until the process exits.                                      *)

Signal ==
  /\ main = "running" /\ restarts < MaxRestarts
  /\ main' = "signalled"
  /\ UNCHANGED <<streamVars, brokerVars, committed, late, col, restarts, tableVars, overtaken>>

\* A second after the signal.
CloseStore ==
  /\ main = "signalled"
  /\ main' = "closed"
  /\ UNCHANGED <<streamVars, brokerVars, committed, late, col, restarts, tableVars, overtaken>>

\* The process ends, by the return of main or by a crash, and is started again;
\* the insert or the ack that it has sent is not called back.
CollectorRestart ==
  /\ restarts < MaxRestarts
  /\ restarts' = restarts + 1
  /\ main' = "running"
  /\ col' = AtPart(1)
  /\ \/ UNCHANGED late
     \/ col.pc = "process" /\ col.at = col.end /\ Abandon(AckOf(col.part, col.next))
     \/ /\ col.pc = "process" /\ col.at < col.end
        /\ Valid(Message) /\ main # "closed"
        /\ Abandon(InsertOf(Message))
  /\ UNCHANGED <<streamVars, brokerVars, committed, tableVars, overtaken>>

-----------------------------------------------------------------------------
CollectorStep ==
  \/ \E p \in Part : PollRead(p)
  \/ PollRespond \/ ConsumeFails
  \/ Reject \/ Insert \/ InsertFails
  \/ Ack \/ AckFails

Next ==
  \/ Tick
  \/ \E s \in Streamer : Stamp(s) \/ Publish(s) \/ PublishFails(s) \/ StreamerRestart(s)
  \/ PublishOther
  \/ CollectorStep
  \/ \E i \in Slot : AckLands(i) \/ InsertLands(i) \/ PublishLands(i)
  \/ Signal \/ CloseStore \/ CollectorRestart

Spec == Init /\ [][Next]_vars

\* The loop runs, and requests are not lost for ever.  (That restarts end is
\* MaxRestarts: a collector that always dies in a batch gets no further.)
Fairness ==
  /\ WF_vars(CollectorStep)
  /\ \A p \in Part : SF_vars(col.part = p /\ PollRespond) /\ SF_vars(col.part = p /\ Ack)

FairSpec == Spec /\ Fairness

-----------------------------------------------------------------------------
(* Properties.                                                             *)

\* Types; offsets are those of the log, however late an acknowledgement comes; and
\* no two rows are of one GPU and second, however often a message is inserted
\* (store.go:139-143).
TypeOK ==
  /\ clock \in Nat
  /\ streamer \in [Streamer -> [pc : {"next"}, rec : DOMAIN Records]
                               \cup [pc : {"publish"}, rec : DOMAIN Records, sec : Nat]]
  /\ sent \in Seq([gpu : Gpu, sec : Nat, payload : {"record", "bad", "opaque"}])
  /\ log \in [Part -> Seq(Nat)]
  /\ \A p \in Part : \A i \in DOMAIN log[p] : log[p][i] \in DOMAIN sent
  /\ committed \in [Part -> Nat] /\ \A p \in Part : committed[p] <= Len(log[p])
  /\ late \in [Slot -> {NoRequest} \cup [op : {"ack"}, part : Part, to : Nat]
                                   \cup [op : {"insert"}, msg : DOMAIN sent]
                                   \cup [op : {"publish"},
                                         record : [gpu : Gpu, sec : Nat, payload : {"record"}]]]
  /\ col \in [pc : {"poll"}, part : Part]
             \cup [pc : {"respond"}, part : Part, at : Nat, end : Nat]
             \cup [pc : {"process"}, part : Part, at : Nat, end : Nat, next : Nat]
  /\ main \in {"running", "signalled", "closed"}
  /\ rows \subseteq DOMAIN sent /\ failed \subseteq DOMAIN sent
  /\ \A r, q \in rows : Key(r) = Key(q) => r = q
  /\ overtaken \subseteq Part
  /\ restarts \in Nat

\* Messages that the group's offset has passed.
Passed == UNION {{log[p][i] : i \in 1..committed[p]} : p \in Part}

\* "MQ ack after successful processing" (collector/README.md:651), less the
\* errors: what is acknowledged has a row of its GPU and second, was no record,
\* or returned an error when it was inserted.  A crash in the middle of a batch,
\* a lost ack, or one that lands when others have been made since, leaves no gap.
\* The one thing that may leave a gap is an ack that lands during a poll of its
\* partition and moves the offset on between the two lookups of the handler
\* (queue.go:128, handler.go:231).
StoredOrFailed ==
  \A p \in Part \ overtaken : \A i \in 1..committed[p] :
    Valid(log[p][i]) => Stored(log[p][i]) \/ log[p][i] \in failed

\* "Idempotent Storage" (collector/README.md:150-153): of the messages of one
\* GPU and second the table keeps the first that was published and could be
\* inserted; neither redelivery, nor an insert that is done after its collector
\* died, nor a streamer's twin changes a row.  (A message that an overtaken
\* partition has skipped cannot be the first.)
FirstWins ==
  \A r \in rows, m \in DOMAIN sent :
    m < r /\ Valid(m) /\ Key(m) = Key(r) /\ PartitionOf[sent[r].gpu] \notin overtaken
      => m \in failed

\* Streamers, collector and database together are a table that only grows, by
\* one row for a GPU and second that had none, made from a published record.
Table     == INSTANCE TelemetryTable WITH published <- sent, table <- rows
TableSpec == Table!Spec

\* Every message is passed some day: no message that is malformed or fails
\* stops its partition (collector.go:71-82), and no partition starves another.
EveryMessageSettled == \A n \in 1..MaxSent : Len(sent) >= n ~> n \in Passed

\* "Graceful Shutdown: Allows in-flight messages to complete"
\* (collector/README.md:155-158): with a database that fails no insert, all that
\* is acknowledged is stored.
AckedAreStored == \A m \in Passed : Valid(m) => Stored(m)
=============================================================================
