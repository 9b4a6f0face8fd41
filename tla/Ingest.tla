------------------------------- MODULE Ingest -------------------------------
(***************************************************************************)
(* The write path: POST /devices/{id}/telemetry[/batch] from the handler   *)
(* (internal/httpapi/telemetry.go) through redisStore.Append               *)
(* (internal/store/redis.go) to one Redis sorted set per device.           *)
(*                                                                         *)
(* Each API instance keeps two process-local counters, seq and writes; its *)
(* requests are goroutines that run concurrently and share those counters. *)
(* A batch is encoded point by point (one seq.Add each), the request then  *)
(* counts its write and decides whether to pipeline the trim, sends ZADD   *)
(* [ZREMRANGEBYRANK] on a connection and waits for every reply.  Redis     *)
(* executes one command at a time, interleaving all clients.               *)
(*                                                                         *)
(* A member of a sorted set is the record [ts, seq, val]: the 65 encoded   *)
(* bytes are big-endian ts, big-endian seq and the payload, here val.      *)
(***************************************************************************)
EXTENDS Naturals, FiniteSets, Sequences

CONSTANTS
  Instances,    \* API processes behind the load balancer
  Devices,      \* device ids: one sorted set "t:{id}" each
  Requests,     \* request slots; a slot carries one request at a time
  Stamps,       \* timestamps of points (epoch ms)
  Values,       \* payloads of points, in the byte order of their encoding
  Cap,          \* redisStore.cap: DEVICE_CAP
  TrimEvery,    \* redisStore.trimEvery
  MaxBatch,     \* bound: points in a batch (100 in the handler)
  MaxRequests,  \* bound: requests received in a behaviour
  FaultKinds,   \* the faults that may happen
  MaxFaults     \* bound: faults in a behaviour

ASSUME StampsAssumption    == Stamps \subseteq Nat
ASSUME ValuesAssumption    == Values \subseteq Nat
ASSUME CapAssumption       == Cap \in Nat \ {0}
ASSUME TrimAssumption      == TrimEvery \in Nat \ {0}
ASSUME BatchAssumption     == MaxBatch \in Nat \ {0}
ASSUME BoundsAssumption    == MaxRequests \in Nat /\ MaxFaults \in Nat
ASSUME FaultsAssumption    ==
         FaultKinds \subseteq {"dial", "conn", "refuse", "instance", "redis", "evict"}

VARIABLES
  \* The instances and Redis
  seq,      \* seq[i]: redisStore.seq of instance i
  writes,   \* writes[i]: redisStore.writes of instance i
  points,   \* points[i]: the pibench_points_ingested_total counter of i
  zset,     \* zset[d]: the sorted set of device d, in Redis
  ever,     \* history: all members added to d since Redis last lost its key
  \* The request in each slot, as its goroutine sees it
  pc,       \* how far it is
  inst,     \* the instance that serves it
  dev,      \* the device it writes
  size,     \* the number of points of its batch
  todo,     \* points not encoded yet
  members,  \* members encoded so far
  trim,     \* whether its pipeline ends with the trim
  \* Its connection
  broken,   \* the connection is broken
  wire,     \* commands sent and not yet executed by Redis
  replies,  \* results Redis has sent back, in order
  added,    \* the integer reply of its ZADD
  \* Bounds
  received, \* requests received so far
  faults    \* faults so far

instanceVars == <<seq, writes, points>>
storeVars    == <<zset, ever>>
callVars     == <<inst, dev, size>>
batchVars    == <<todo, members, trim>>
connVars     == <<broken, wire, replies, added>>

vars == <<instanceVars, storeVars, pc, callVars, batchVars, connVars, received, faults>>

-----------------------------------------------------------------------------
Point   == [ts: Stamps, val: Values]
Member  == [ts: Stamps, seq: Nat \ {0}, val: Values]
Command == {"zadd", "trim"}
Reply   == {"ok", "err"}

\* The batches a validated request can carry.
Batch == UNION {[1..n -> Point] : n \in 1..MaxBatch}

\* EncodeInto: the member a point becomes under sequence number n.  Mutants: the
\* number before the increment; the payload without a number.
EncodedBeforeAdd(p, n) == [ts |-> p.ts, seq |-> n - 1, val |-> p.val]
EncodedUnnumbered(p, n) == [ts |-> p.ts, seq |-> 1, val |-> p.val]
Encoded(p, n) == [ts |-> p.ts, seq |-> n, val |-> p.val]

\* Redis orders members by score (ts), then by their bytes (ts, seq, payload).
Before(m, n) ==
  \/ m.ts < n.ts
  \/ m.ts = n.ts /\ m.seq < n.seq
  \/ m.ts = n.ts /\ m.seq = n.seq /\ m.val < n.val

Newer(S, m) == {n \in S : Before(m, n)}

\* The k newest members of S.
Newest(S, k) == {m \in S : Cardinality(Newer(S, m)) < k}

\* Every TrimEvery-th write of an instance trims.  Mutant: one write does.
TrimsOnce(n) == n = TrimEvery
Trims(n) == n % TrimEvery = 0

\* ZREMRANGEBYRANK key 0 -(Cap+1): all ranks but the last Cap are removed.
\* Mutant: one more goes (0 -Cap).
TrimmedTooFar(S) == Newest(S, Cap - 1)
Trimmed(S) == Newest(S, Cap)

\* Recent: ZREVRANGE key 0 n-1, the members of the n highest ranks, newest first.
\* Mutant: ZRANGE.
RecentOldest(S, n) ==
  [k \in {j \in 1..n : j <= Cardinality(S)} |->
     CHOOSE m \in S : Cardinality({x \in S : Before(x, m)}) = k - 1]
Recent(S, n) ==
  [k \in {j \in 1..n : j <= Cardinality(S)} |->
     CHOOSE m \in S : Cardinality(Newer(S, m)) = k - 1]

\* The commands Append pipelines for r.
Commands(r) == IF trim[r] THEN <<"zadd", "trim">> ELSE <<"zadd">>

\* roundtrip keeps the first error of the pipeline.  Mutant: only the last reply counts.
RefusedAtLast(r) == replies[r] # << >> /\ replies[r][Len(replies[r])] = "err"
Refused(r) == \E k \in DOMAIN replies[r] : replies[r][k] = "err"

\* roundtrip reads one reply per command.  Mutant: none is awaited.
RepliedUnread(r) == TRUE
Replied(r) == Len(replies[r]) = Len(Commands(r))

-----------------------------------------------------------------------------
Init ==
  /\ seq    = [i \in Instances |-> 0]
  /\ writes = [i \in Instances |-> 0]
  /\ points = [i \in Instances |-> 0]
  /\ zset = [d \in Devices |-> {}]
  /\ ever = [d \in Devices |-> {}]
  /\ pc   = [r \in Requests |-> "idle"]
  /\ inst = [r \in Requests |-> "none"]
  /\ dev  = [r \in Requests |-> "none"]
  /\ size = [r \in Requests |-> 0]
  /\ todo    = [r \in Requests |-> << >>]
  /\ members = [r \in Requests |-> {}]
  /\ trim    = [r \in Requests |-> FALSE]
  /\ broken  = [r \in Requests |-> FALSE]
  /\ wire    = [r \in Requests |-> << >>]
  /\ replies = [r \in Requests |-> << >>]
  /\ added   = [r \in Requests |-> 0]
  /\ received = 0
  /\ faults = 0

\* The load balancer hands a valid request to an instance; the handler has
\* validated the id, the body and every point.
Receive(r) ==
  /\ pc[r] = "idle"
  /\ received < MaxRequests
  /\ received' = received + 1
  /\ pc' = [pc EXCEPT ![r] = "encode"]
  /\ \E i \in Instances : inst' = [inst EXCEPT ![r] = i]
  /\ \E d \in Devices : dev' = [dev EXCEPT ![r] = d]
  /\ \E batch \in Batch :
       /\ todo' = [todo EXCEPT ![r] = batch]
       /\ size' = [size EXCEPT ![r] = Len(batch)]
  /\ UNCHANGED <<instanceVars, storeVars, members, trim, connVars, faults>>

\* encodeMembers, one iteration: the next point under the next sequence number.
EncodeMember(r) ==
  /\ pc[r] = "encode"
  /\ todo[r] # << >>
  /\ seq' = [seq EXCEPT ![inst[r]] = @ + 1]
  /\ members' = [members EXCEPT ![r] = @ \cup {Encoded(Head(todo[r]), seq[inst[r]] + 1)}]
  /\ todo' = [todo EXCEPT ![r] = Tail(@)]
  /\ UNCHANGED <<writes, points, storeVars, pc, callVars, trim, connVars, received, faults>>

\* Append, after encoding: count the write; every TrimEvery-th one trims.
CountWrite(r) ==
  /\ pc[r] = "encode"
  /\ todo[r] = << >>
  /\ pc' = [pc EXCEPT ![r] = "connect"]
  /\ writes' = [writes EXCEPT ![inst[r]] = @ + 1]
  /\ trim' = [trim EXCEPT ![r] = Trims(writes[inst[r]] + 1)]
  /\ UNCHANGED <<seq, points, storeVars, callVars, todo, members, connVars, received, faults>>

\* do, roundtrip: a connection is obtained and the commands are flushed to it.
Send(r) ==
  /\ pc[r] = "connect"
  /\ pc' = [pc EXCEPT ![r] = "sent"]
  /\ wire' = [wire EXCEPT ![r] = Commands(r)]
  /\ UNCHANGED <<instanceVars, storeVars, callVars, batchVars, broken, replies, added,
                 received, faults>>

\* Redis executes the ZADD at the head of r's pipeline.  Its integer reply is
\* the number of members that were not there before.
RedisAdd(r) ==
  /\ wire[r] # << >> /\ Head(wire[r]) = "zadd"
  /\ zset' = [zset EXCEPT ![dev[r]] = @ \cup members[r]]
  /\ ever' = [ever EXCEPT ![dev[r]] = @ \cup members[r]]
  /\ added' = [added EXCEPT ![r] = Cardinality(members[r] \ zset[dev[r]])]
  /\ wire' = [wire EXCEPT ![r] = Tail(@)]
  /\ replies' = [replies EXCEPT ![r] = Append(@, "ok")]
  /\ UNCHANGED <<instanceVars, pc, callVars, batchVars, broken, received, faults>>

\* Redis executes the ZREMRANGEBYRANK at the head of r's pipeline.
RedisTrim(r) ==
  /\ wire[r] # << >> /\ Head(wire[r]) = "trim"
  /\ zset' = [zset EXCEPT ![dev[r]] = Trimmed(@)]
  /\ wire' = [wire EXCEPT ![r] = Tail(@)]
  /\ replies' = [replies EXCEPT ![r] = Append(@, "ok")]
  /\ UNCHANGED <<instanceVars, ever, pc, callVars, batchVars, broken, added, received, faults>>

\* Every reply is read and none is an error: the handler counts the points and
\* answers 202.
Accept(r) ==
  /\ pc[r] = "sent"
  /\ Replied(r) /\ ~Refused(r)
  /\ pc' = [pc EXCEPT ![r] = "accepted"]
  /\ points' = [points EXCEPT ![inst[r]] = @ + size[r]]
  /\ UNCHANGED <<seq, writes, storeVars, callVars, batchVars, connVars, received, faults>>

\* Mutant of Reject: the round trip is tried again on the same connection.
RejectRetries(r) ==
  /\ pc[r] = "sent"
  /\ Refused(r) \/ broken[r]
  /\ pc' = [pc EXCEPT ![r] = "connect"]
  /\ replies' = [replies EXCEPT ![r] = << >>]
  /\ UNCHANGED <<instanceVars, storeVars, callVars, batchVars, broken, wire, added, received, faults>>

\* roundtrip fails, on an error reply or on a connection that broke: Append
\* returns 0 and the handler answers 503.  What is still on the wire stays.
Reject(r) ==
  /\ pc[r] = "sent"
  /\ Refused(r) \/ broken[r]
  /\ pc' = [pc EXCEPT ![r] = "rejected"]
  /\ UNCHANGED <<instanceVars, storeVars, callVars, batchVars, connVars, received, faults>>

\* The response is gone and nothing of the request is left on the wire.
Finish(r) ==
  /\ pc[r] \in {"accepted", "rejected", "dead"}
  /\ wire[r] = << >>
  /\ pc'   = [pc EXCEPT ![r] = "idle"]
  /\ inst' = [inst EXCEPT ![r] = "none"]
  /\ dev'  = [dev EXCEPT ![r] = "none"]
  /\ size' = [size EXCEPT ![r] = 0]
  /\ todo' = [todo EXCEPT ![r] = << >>]
  /\ members' = [members EXCEPT ![r] = {}]
  /\ trim'    = [trim EXCEPT ![r] = FALSE]
  /\ broken'  = [broken EXCEPT ![r] = FALSE]
  /\ replies' = [replies EXCEPT ![r] = << >>]
  /\ added'   = [added EXCEPT ![r] = 0]
  /\ UNCHANGED <<instanceVars, storeVars, wire, received, faults>>

-----------------------------------------------------------------------------
(* Faults.  None of them is fair: they may never happen.                   *)

Fault(kind) ==
  /\ kind \in FaultKinds
  /\ faults < MaxFaults
  /\ faults' = faults + 1

\* get fails: no pooled connection and the dial is refused or times out.
DialFails(r) ==
  /\ Fault("dial")
  /\ pc[r] = "connect"
  /\ pc' = [pc EXCEPT ![r] = "rejected"]
  /\ UNCHANGED <<instanceVars, storeVars, callVars, batchVars, connVars, received>>

\* r's connection breaks.  Redis may hold, and execute later, the commands that
\* reached it: a prefix of the pipeline.
ConnBreaks(r) ==
  /\ Fault("conn")
  /\ pc[r] = "sent" /\ ~broken[r]
  /\ broken' = [broken EXCEPT ![r] = TRUE]
  /\ \E k \in 0..Len(wire[r]) : wire' = [wire EXCEPT ![r] = SubSeq(@, 1, k)]
  /\ UNCHANGED <<instanceVars, storeVars, pc, callVars, batchVars, replies, added, received>>

\* Redis answers the next command with an error (OOM, LOADING, ...) and does
\* not execute it; the commands behind it are executed all the same.
RedisRefuses(r) ==
  /\ Fault("refuse")
  /\ wire[r] # << >>
  /\ wire' = [wire EXCEPT ![r] = Tail(@)]
  /\ replies' = [replies EXCEPT ![r] = Append(@, "err")]
  /\ UNCHANGED <<instanceVars, storeVars, pc, callVars, batchVars, broken, added, received>>

\* An instance is killed and restarted (restart: unless-stopped): its counters
\* start again from zero, its requests die, what they sent stays on the wire.
InstanceRestarts(i) ==
  /\ Fault("instance")
  /\ seq'    = [seq EXCEPT ![i] = 0]
  /\ writes' = [writes EXCEPT ![i] = 0]
  /\ points' = [points EXCEPT ![i] = 0]
  /\ pc' = [r \in Requests |->
              IF inst[r] = i /\ pc[r] \in {"encode", "connect", "sent"} THEN "dead" ELSE pc[r]]
  /\ UNCHANGED <<storeVars, callVars, batchVars, connVars, received>>

\* Redis is killed and restarted: it persists nothing, every connection breaks.
RedisRestarts ==
  /\ Fault("redis")
  /\ zset' = [d \in Devices |-> {}]
  /\ ever' = [d \in Devices |-> {}]
  /\ wire' = [r \in Requests |-> << >>]
  /\ broken' = [r \in Requests |-> broken[r] \/ pc[r] = "sent"]
  /\ UNCHANGED <<instanceVars, pc, callVars, batchVars, replies, added, received>>

\* maxmemory-policy allkeys-lru: Redis drops the whole key of a device.
RedisEvicts(d) ==
  /\ Fault("evict")
  /\ zset' = [zset EXCEPT ![d] = {}]
  /\ ever' = [ever EXCEPT ![d] = {}]
  /\ UNCHANGED <<instanceVars, pc, callVars, batchVars, connVars, received>>

\* All the requests of the behaviour are over.
Quiescent ==
  /\ received = MaxRequests
  /\ \A r \in Requests : pc[r] = "idle"
  /\ UNCHANGED vars

-----------------------------------------------------------------------------
\* The steps the instances and Redis take by themselves.
Server(r) ==
  \/ EncodeMember(r) \/ CountWrite(r) \/ Send(r)
  \/ RedisAdd(r) \/ RedisTrim(r)
  \/ Accept(r) \/ Reject(r) \/ Finish(r)

RequestFault(r) == DialFails(r) \/ ConnBreaks(r) \/ RedisRefuses(r)

Next ==
  \/ \E r \in Requests : Receive(r) \/ Server(r) \/ RequestFault(r)
  \/ \E i \in Instances : InstanceRestarts(i)
  \/ RedisRestarts
  \/ \E d \in Devices : RedisEvicts(d)
  \/ Quiescent

Spec == Init /\ [][Next]_vars

\* Goroutines are scheduled and Redis serves every client.
FairSpec == Spec /\ \A r \in Requests : WF_vars(Server(r))

-----------------------------------------------------------------------------
Phase == {"idle", "encode", "connect", "sent", "accepted", "rejected", "dead"}

TypeOK ==
  /\ seq    \in [Instances -> Nat]
  /\ writes \in [Instances -> Nat]
  /\ points \in [Instances -> Nat]
  /\ zset \in [Devices -> SUBSET Member]
  /\ ever \in [Devices -> SUBSET Member]
  /\ pc   \in [Requests -> Phase]
  /\ inst \in [Requests -> Instances \cup {"none"}]
  /\ dev  \in [Requests -> Devices \cup {"none"}]
  /\ size \in [Requests -> Nat]
  /\ todo    \in [Requests -> Seq(Point)]
  /\ members \in [Requests -> SUBSET Member]
  /\ trim    \in [Requests -> BOOLEAN]
  /\ broken  \in [Requests -> BOOLEAN]
  /\ wire    \in [Requests -> Seq(Command)]
  /\ replies \in [Requests -> Seq(Reply)]
  /\ added   \in [Requests -> Nat]
  /\ received \in 0..MaxRequests
  /\ faults \in 0..MaxFaults

\* 202 means persisted (README): a point of an accepted request is in its
\* device's set, unless Cap newer points have been stored since.  Holds through
\* lost connections, refused commands and instance restarts.
AcceptedIsStored ==
  \A r \in Requests : pc[r] = "accepted" =>
    \A m \in members[r] :
      \/ m \in zset[dev[r]]
      \/ Cardinality(Newer(ever[dev[r]], m)) >= Cap

\* The trim never costs a device one of its newest Cap points, whatever trims
\* and late, out-of-order or concurrent ZADDs came in between.
NewestRetained ==
  \A d \in Devices : Newest(ever[d], Cap) \subseteq zset[d]

\* What GET /devices/{id}/anomaly judges, the first point against all of them, are the
\* newest points ever stored, newest first, as long as it asks for no more than the cap:
\* it answers "insufficient" only to a device that has not had enough points, and never
\* takes an older point for the newest, whatever trims and late writes came before.
RecentIsNewest ==
  \A d \in Devices, n \in 1..Cap : Recent(zset[d], n) = Recent(ever[d], n)

\* No accepted point collapses into a member that was already there: the ZADD of
\* an accepted request added as many members as the 202 says it accepted
\* (Append returns len(pts) and ignores the ZADD reply).
AcceptedIsAdded ==
  \A r \in Requests : pc[r] = "accepted" => added[r] = size[r]

\* The points counter of an instance never runs ahead of what Redis has stored:
\* it counts a batch only after its ZADD, and never one point twice.
PointsAreStored ==
  \A i \in Instances :
    points[i] <= Cardinality({dm \in Devices \X UNION {ever[d] : d \in Devices} :
                                dm[2] \in ever[dm[1]]})

\* The comment in Append: between trims a device holds at most TrimEvery batches
\* above its cap.
TrimBound ==
  \A d \in Devices : Cardinality(zset[d]) <= Cap + TrimEvery * MaxBatch

\* What one instance that serves one device guarantees when K requests overlap.
\* Each can sit on a trim that Redis has not executed yet, TrimEvery batches each,
\* and all but one may still add a batch counted before the last trim.
OverlapBound ==
  LET K == Cardinality(Requests)
  IN \A d \in Devices :
       Cardinality(zset[d]) <= Cap + (K * TrimEvery + K - 1) * MaxBatch

\* Every request is answered or dies with its instance.
EveryRequestEnds ==
  \A r \in Requests :
    (pc[r] = "encode") ~> (pc[r] \in {"accepted", "rejected", "dead"})

-----------------------------------------------------------------------------
(* The write path implements the abstract log.                             *)

PhaseOf(r) ==
  CASE pc[r] = "idle" -> "idle"
    [] pc[r] = "accepted" -> "acked"
    [] pc[r] \in {"rejected", "dead"} -> "failed"
    [] OTHER -> "open"

Log == INSTANCE TelemetryLog WITH
  Calls    <- Requests,
  log      <- zset,
  phase    <- [r \in Requests |-> PhaseOf(r)],
  target   <- dev,
  failures <- faults,
  applied  <- [r \in Requests |-> replies[r] # << >> /\ Head(replies[r]) = "ok"]

\* Clients of one instance that is not restarted see the abstract log: a batch
\* is stored at most once and in one step, each point as an entry of its own,
\* before its 202; a 503 leaves the outcome open; a trim costs only old points, and
\* whole logs go only as a fault happens.
ImplementsLog == Log!Spec
=============================================================================
