--------------------------- MODULE DeliveryFaults ---------------------------
(***************************************************************************)
(* Delivery with processes that stop and start again at any time.          *)
(*                                                                         *)
(* A collector that restarts over an ack leaves the ack to the server and  *)
(* polls.  The broker (mq/cmd/mq-server/main.go) keeps everything in       *)
(* memory: "Messages lost on restart" (mq/README.md:484).  The collectors  *)
(* do not notice: a request that is open fails, but a collector that is    *)
(* processing a batch of the old log acknowledges it to the new one.       *)
(***************************************************************************)
EXTENDS Delivery

VARIABLE
  misled        \* history: groups that may have been given a wrong offset

restartVars == <<allVars, misled>>

RInit == DInit /\ misled = {}

-----------------------------------------------------------------------------
\* The requests of a group: polls up to their acknowledgement, and Commits that
\* no collector waits for any more.
Polling(g)  == {c \in Consumer : GroupOf[c] = g /\ poll[c] # NoPoll}
Orphans(g)  == {p \in Proc : commit[p] # Idle /\ commit[p].group = g
                               /\ \A c \in Consumer : ~ Acking(c, p)}
Requests(g) == ({"poll"} \X Polling(g)) \cup ({"ack"} \X Orphans(g))

InFlight    == {g \in Group : Requests(g) # {}}
Overlapping == {g \in Group : \E r, s \in Requests(g) : r # s}

\* History: what may give a group a wrong offset is two of its requests at once,
\* a compaction during one of them, or one that deletes messages before the
\* group has committed and is in the map.
Record ==
  misled' = misled \cup Overlapping'
              \cup (IF Unlocked /\ Unlocked' THEN {} ELSE InFlight')
              \cup (IF removed' = removed THEN {} ELSE Group \ Registered)

\* The collector's process ends while the server runs its ack, and the next one
\* polls.  (In any other state a restart is like a lost call.)
CollectorRestart(c) ==
  /\ poll[c].pc = "acking"
  /\ commit[poll[c].via] # Idle
  /\ poll' = [poll EXCEPT ![c] = NoPoll]
  /\ UNCHANGED <<vars, delivered, polled>>
  /\ Record

\* A new partition: all that NewPartition makes, and histories that count anew.
NewPartition ==
  /\ messages' = <<>> /\ appended' = 0 /\ removed' = 0
  /\ offsets' = [g \in Group |-> 0] /\ counter' = <<>>
  /\ commit' = [p \in Proc |-> Idle]
  /\ cpc' = "idle" /\ todo' = {} /\ seen' = {}
  /\ cell' = 0 /\ minOffset' = -1 /\ oldOffset' = 0
  /\ start' = [g \in Group |-> Unknown] /\ dirty' = {}
  /\ delivered' = [g \in Group |-> {}] /\ polled' = {}

\* The new process has a new queue with the default topic, and a new compactor.
\* Requests that were open end at the collector with an error.
ServerRestart ==
  /\ NewPartition
  /\ poll' = [c \in Consumer |-> IF poll[c].pc = "got" THEN poll[c] ELSE NoPoll]
  /\ misled' = {GroupOf[c] : c \in {d \in Consumer : poll[d].pc = "got"}}

RNext ==
  \/ DNext /\ Record
  \/ \E c \in Consumer : CollectorRestart(c)
  \/ ServerRestart

RSpec     == RInit /\ [][RNext]_restartVars

\* What a collector does from its poll on, and it loses nothing by a lost call.
Proceed(c) ==
  \/ PollRead(c) \/ PollRespond(c) \/ PollLost(c)
  \/ AckLost(c) \/ AckDone(c)
  \/ \E p \in Proc : Ack(c, p)

\* Goroutines and collectors run, and those that wait for the mutex get it
\* between two compactions.  That calls succeed is not assumed.
RFairness ==
  /\ \A p \in Proc : SF_allVars(Checking(p) \/ Committing(p))
  /\ WF_allVars(Compacting)
  /\ \A c \in Consumer : SF_allVars(Proceed(c))

RFairSpec == RSpec /\ RFairness

-----------------------------------------------------------------------------
(* Properties.                                                             *)

\* What is left of "at-least-once" (mq/README.md:26) in any deployment: a group
\* passes messages it was not given, or reads on from beyond the log, only after
\* a restart of the broker or a compaction during one of its polls or acks, after
\* two of these at once (two collectors, or one that restarted), or after a
\* compaction before its first commit (Compact asks the groups of the map only).
SkipsHaveACause ==
  Unlocked => \A g \in Group \ misled :
    Offset(g) <= TailOffset /\ 1..(removed + Offset(g)) \subseteq delivered[g]

\* The position of g, which a compaction does not move.
Place(g) == IF Unlocked \/ start[g] = Unknown THEN removed + Offset(g) ELSE start[g]

\* Nor is such a group given again what it has acknowledged: it never goes back,
\* although acks may arrive in any order and Compact renumbers the log.
NeverGoesBack ==
  [][ServerRestart \/ \A g \in Group \ misled' : Place(g) <= Place(g)']_restartVars
=============================================================================
