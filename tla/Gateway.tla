------------------------------ MODULE Gateway ------------------------------
(***************************************************************************)
(* The API gateway on the table that the collector fills: its main         *)
(* (api-gateway/cmd/main.go) with the database singleton (pkg/db), the     *)
(* handlers (internal/handler.go), the service (pkg/service) and the       *)
(* queries (pkg/repository).                                               *)
(*                                                                         *)
(* A request is one query, which sees the table as it is at one moment,    *)
(* and the gateway keeps nothing between requests.  A request that is      *)
(* refused (400, 405) or fails (500) changes nothing and is left out.      *)
(* Times are seconds, as the streamers make them.                          *)
(***************************************************************************)
EXTENDS Pipeline, FiniteSetsExt

CONSTANTS
  Followed,     \* the GPU that a client follows
  Window        \* the start_time and end_time that a client asks for

NoTime == -1    \* no start_time or end_time; Go's zero time

ASSUME GatewayAssumption ==
  /\ Followed \in Gpu
  /\ Window \subseteq (Nat \cup {NoTime}) \X (Nat \cup {NoTime})

VARIABLES
  api,          \* what the gateway's main is doing
  answer,       \* the last answer to a client that lists GPUs and asks for windows
  follower      \* a client that asks from the last EndTime it was given

clientVars  == <<answer, follower>>
gatewayVars == <<vars, api, clientVars>>

GInit ==
  /\ Init
  /\ api = "starting"
  /\ answer = [gpus |-> {}]
  /\ follower = [upTo |-> NoTime, records |-> {}]

-----------------------------------------------------------------------------
(* The process.  It ends when it cannot connect, and is started again; the *)
(* singleton is used by main alone and once.                               *)

Connect ==
  /\ api = "starting"
  /\ api' = "serving"
  /\ UNCHANGED <<vars, clientVars>>

GatewayRestart ==
  /\ api = "serving"
  /\ api' = "starting"
  /\ UNCHANGED <<vars, clientVars>>

-----------------------------------------------------------------------------
(* Queries.                                                                *)

\* gpu_id = ? AND timestamp >= ? AND timestamp <= ?, each time if it is given.
Select(g, start, end) ==
  {r \in rows : /\ sent[r].gpu = g
                /\ start = NoTime \/ sent[r].sec >= start
                /\ end = NoTime \/ sent[r].sec <= end}

Seconds(records) == {sent[r].sec : r \in records}

\* Times that the client did not give are those of the first and of the last
\* record, which are in the order of their timestamps.
\* (mutants: the end is the time of the answer; or that of the first record)
EndNow(end, records)      == IF end = NoTime THEN clock ELSE end
EndFirst(end, records)    == IF end = NoTime THEN Min(Seconds(records)) ELSE end
EndTime(end, records)     == IF end = NoTime THEN Max(Seconds(records)) ELSE end
StartTime(start, records) == IF start = NoTime THEN Min(Seconds(records)) ELSE start

\* GetGPUTelemetry(g, start, end); no records are status 404.
Response(g, start, end) ==
  LET records == Select(g, start, end)
  IN  IF records = {} THEN [gpu |-> g, start |-> start, end |-> end, records |-> {}]
      ELSE [gpu |-> g, start |-> StartTime(start, records), end |-> EndTime(end, records),
            records |-> records]

\* GetGPUIDs
GPUs == {sent[r].gpu : r \in rows}

-----------------------------------------------------------------------------
(* Requests.                                                               *)

ListGPUs ==
  /\ api = "serving"
  /\ answer' = [gpus |-> GPUs]
  /\ UNCHANGED <<vars, api, follower>>

GetGPUTelemetry(g, window) ==
  /\ api = "serving"
  /\ answer' = Response(g, window[1], window[2])
  /\ UNCHANGED <<vars, api, follower>>

Follow ==
  LET response == Response(Followed, follower.upTo, NoTime)
  IN
  /\ api = "serving"
  /\ response.records # {}
  /\ follower' = [upTo |-> response.end, records |-> follower.records \cup response.records]
  /\ UNCHANGED <<vars, api, answer>>

-----------------------------------------------------------------------------
GNext ==
  \/ Next /\ UNCHANGED <<api, clientVars>>
  \/ Connect \/ GatewayRestart
  \/ ListGPUs
  \/ \E g \in Gpu, window \in Window : GetGPUTelemetry(g, window)
  \/ Follow

GSpec == GInit /\ [][GNext]_gatewayVars

\* The pipeline works, the gateway gets its connection, and its clients get an
\* answer now and then, however often it restarts.
GFairness == Fairness /\ WF_gatewayVars(Connect) /\ SF_gatewayVars(Follow)

GFairSpec == GSpec /\ GFairness

-----------------------------------------------------------------------------
(* Properties.                                                             *)

Listing == DOMAIN answer = {"gpus"}

\* Types; an answer is of the GPU and the window that it says.
GTypeOK ==
  /\ api \in {"starting", "serving"}
  /\ answer \in [gpus : SUBSET Gpu]
                \cup [gpu : Gpu, start : Int, end : Int, records : SUBSET DOMAIN sent]
  /\ Listing \/ \A r \in answer.records :
       sent[r].gpu = answer.gpu /\ sent[r].sec \in answer.start..answer.end
  /\ follower \in [upTo : Int, records : SUBSET DOMAIN sent]
  /\ \A r \in follower.records : sent[r].gpu = Followed /\ sent[r].sec <= follower.upTo

\* What the gateway has answered stays true while the collector inserts, dies
\* and inserts again: the window of an answer still has its records when it is
\* asked for again, and a GPU that was listed is never "not found".
AnswersStand ==
  IF Listing THEN \A g \in answer.gpus : Select(g, NoTime, NoTime) # {}
  ELSE answer.records \subseteq Select(answer.gpu, answer.start, answer.end)

\* The records of GPU g were published in the order of their timestamps.
InOrder(g) ==
  \A m, n \in DOMAIN sent :
    m < n /\ Valid(m) /\ Valid(n) /\ sent[m].gpu = g /\ sent[n].gpu = g
      => sent[m].sec <= sent[n].sec

\* A client that asks on from the EndTime it was given (service/telemetry.go:127)
\* misses no row, although the collector fills the table meanwhile and inserts
\* some batches twice.  This takes that no insert failed, to be done again when
\* later ones have been made; that one streamer did not publish late what it had
\* stamped before another's record; and that no poll of the partition skipped a
\* message (see StoredOrFailed), to be given it when the offset is moved back.
Undisturbed ==
  failed = {} /\ InOrder(Followed) /\ PartitionOf[Followed] \notin overtaken

FollowerMissesNothing ==
  Undisturbed =>
    \A r \in rows :
      sent[r].gpu = Followed /\ sent[r].sec <= follower.upTo => r \in follower.records

\* From end to end: what a streamer publishes comes out of the gateway, as a
\* record of its GPU and second, under the same three conditions.
Wanted(n) == n \in DOMAIN sent /\ Valid(n) /\ sent[n].gpu = Followed
Served(n) == n \in DOMAIN sent /\ \E r \in follower.records : Key(r) = Key(n)

EveryRecordServed ==
  \A n \in 1..MaxSent :
    Wanted(n) ~> Served(n) \/ ~ Undisturbed
=============================================================================
