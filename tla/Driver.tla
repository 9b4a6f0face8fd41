-------------------------------- MODULE Driver --------------------------------
(***************************************************************************)
(* The load generator (stress/load): Run seeds the devices, then a pacer   *)
(* hands out jobs at a constant arrival rate, whatever the service does,   *)
(* to workers that fire one request at a time and record its outcome.      *)
(*                                                                         *)
(* Of time there is only the order of events: the ticker of a segment may  *)
(* fire at any moment, its channel holds one tick and loses the others; a  *)
(* segment may be over at any moment after it began; the run may be        *)
(* cancelled at any moment.  Latencies are left out.                       *)
(***************************************************************************)
EXTENDS Naturals, FiniteSetsExt, SequencesExt

CONSTANTS
  Workers,   \* the worker goroutines; the jobs channel holds as many jobs
  Ops,       \* the operations of the mix
  Devices,   \* number of devices to seed
  Rates,     \* the rates of the segments; one without a rate is skipped
  MaxTicks   \* bound: times a ticker fires

ASSUME WorkersAssumption == IsFiniteSet(Workers) /\ Workers # {}
ASSUME OpsAssumption == IsFiniteSet(Ops) /\ "none" \notin Ops
ASSUME RatesAssumption == Rates \in Seq(Nat)
ASSUME BoundsAssumption == Devices \in Nat /\ MaxTicks \in Nat

VARIABLES
  run,        \* Run: "seed", "pace", "wait" or "returned"
  seeded,     \* devices seeded so far
  pacer,      \* pace: "next" segment, "select", or "offer" a job
  segment,    \* segments begun or skipped so far
  picked,     \* the operation it offers
  tick,       \* a tick waits in the channel of the ticker
  ticks,      \* times a ticker has fired
  jobs,       \* the jobs channel
  closed,     \* ... is closed
  dropped,    \* jobs that did not fit in
  cancelled,  \* ctx is done
  worker,     \* worker[w]: "idle", "fire", "record" or "exited"
  job,        \* job[w]: the operation w works on
  ok,         \* ok[w]: whether its request succeeded
  count,      \* Stats: samples by operation
  fails,      \* ... and failures among them
  offered     \* history: ticks the pacer has turned into a job, by operation

pacerVars == <<pacer, segment, picked, tick, ticks>>
queueVars == <<jobs, closed, dropped>>
workVars == <<worker, job, ok, count, fails>>
vars == <<run, seeded, pacerVars, queueVars, cancelled, workVars, offered>>

Init ==
  /\ run = "seed" /\ seeded = 0
  /\ pacer = "next" /\ segment = 0 /\ picked = "none" /\ tick = FALSE /\ ticks = 0
  /\ jobs = << >> /\ closed = FALSE /\ dropped = 0
  /\ cancelled = FALSE
  /\ worker = [w \in Workers |-> "idle"]
  /\ job = [w \in Workers |-> "none"]
  /\ ok = [w \in Workers |-> FALSE]
  /\ count = [op \in Ops |-> 0] /\ fails = [op \in Ops |-> 0]
  /\ offered = [op \in Ops |-> 0]

-----------------------------------------------------------------------------
(* Run and its pacer.                                                      *)

\* seed: one batch per device, its outcome ignored.
SeedDevice ==
  /\ run = "seed" /\ seeded < Devices
  /\ seeded' = seeded + 1
  /\ UNCHANGED <<run, pacerVars, queueVars, cancelled, workVars, offered>>

Seeded ==
  /\ run = "seed" /\ seeded = Devices
  /\ run' = "pace"
  /\ UNCHANGED <<seeded, pacerVars, queueVars, cancelled, workVars, offered>>

\* The next segment, with a ticker and a deadline of its own.
BeginSegment ==
  /\ run = "pace" /\ pacer = "next" /\ segment < Len(Rates)
  /\ segment' = segment + 1
  /\ pacer' = IF Rates[segment + 1] > 0 THEN "select" ELSE "next"
  /\ tick' = FALSE
  /\ UNCHANGED <<run, seeded, picked, ticks, queueVars, cancelled, workVars, offered>>

\* The select: a tick picks an operation.
TakeTick ==
  /\ pacer = "select" /\ tick
  /\ pacer' = "offer"
  /\ tick' = FALSE
  /\ \E op \in Ops : picked' = op /\ offered' = [offered EXCEPT ![op] = @ + 1]
  /\ UNCHANGED <<run, seeded, segment, ticks, queueVars, cancelled, workVars>>

\* The select: the deadline of the segment.
EndSegment ==
  /\ pacer = "select"
  /\ pacer' = "next"
  /\ UNCHANGED <<run, seeded, segment, picked, tick, ticks>>
  /\ UNCHANGED <<queueVars, cancelled, workVars, offered>>

\* Room in the jobs channel, for a job of every worker.  Mutant: it is not asked.
AlwaysRoom == TRUE
Room == Len(jobs) < Cardinality(Workers)

\* The default branch: no room.  Mutants: the job is not counted; there is no default
\* branch.
DropUncounted == ~Room /\ UNCHANGED <<jobs, dropped>>
DropNever == FALSE /\ UNCHANGED <<jobs, dropped>>
Drop == ~Room /\ dropped' = dropped + 1 /\ UNCHANGED jobs

\* The job is handed over or dropped.
Offer ==
  /\ pacer = "offer"
  /\ \/ Room /\ jobs' = Append(jobs, picked) /\ UNCHANGED dropped
     \/ Drop
  /\ pacer' = "select"
  /\ picked' = "none"
  /\ UNCHANGED <<run, seeded, segment, tick, ticks, closed, cancelled, workVars, offered>>

\* pace returns, after the last segment or in the select when ctx is done, and Run closes
\* the channel.  Mutant: it does not.
LeftOpen == closed
Closed == TRUE

PaceReturns ==
  /\ run = "pace"
  /\ \/ pacer = "next" /\ segment = Len(Rates)
     \/ pacer = "select" /\ cancelled
  /\ run' = "wait"
  /\ pacer' = "next"
  /\ closed' = Closed
  /\ UNCHANGED <<seeded, segment, picked, tick, ticks, jobs, dropped, cancelled, workVars, offered>>

\* wg.Wait.  Mutant: Run returns when the channel is drained.
Drained == jobs = << >>
AllExited == \A w \in Workers : worker[w] = "exited"

RunReturns ==
  /\ run = "wait" /\ AllExited
  /\ run' = "returned"
  /\ UNCHANGED <<seeded, pacerVars, queueVars, cancelled, workVars, offered>>

-----------------------------------------------------------------------------
(* The workers.                                                            *)

\* The next job; a request under a context that is done fails at once.
Take(w) ==
  /\ worker[w] = "idle" /\ jobs # << >>
  /\ jobs' = Tail(jobs)
  /\ job' = [job EXCEPT ![w] = Head(jobs)]
  /\ worker' = [worker EXCEPT ![w] = IF cancelled THEN "record" ELSE "fire"]
  /\ ok' = [ok EXCEPT ![w] = FALSE]
  /\ UNCHANGED <<run, seeded, pacerVars, closed, dropped, cancelled, count, fails, offered>>

\* client.Do returns: a status, or an error after ctx is done or Timeout has passed.
FireEnds(w, success) ==
  /\ worker[w] = "fire"
  /\ worker' = [worker EXCEPT ![w] = "record"]
  /\ ok' = [ok EXCEPT ![w] = success]
  /\ UNCHANGED <<run, seeded, pacerVars, queueVars, cancelled, job, count, fails, offered>>

\* Stats.Record, under its mutex.
Record(w) ==
  /\ worker[w] = "record"
  /\ worker' = [worker EXCEPT ![w] = "idle"]
  /\ job' = [job EXCEPT ![w] = "none"]
  /\ count' = [count EXCEPT ![job[w]] = @ + 1]
  /\ fails' = [fails EXCEPT ![job[w]] = IF ok[w] THEN @ ELSE @ + 1]
  /\ UNCHANGED <<run, seeded, pacerVars, queueVars, cancelled, ok, offered>>

\* The channel is closed and empty.
WorkerExits(w) ==
  /\ worker[w] = "idle" /\ closed /\ jobs = << >>
  /\ worker' = [worker EXCEPT ![w] = "exited"]
  /\ UNCHANGED <<run, seeded, pacerVars, queueVars, cancelled, job, ok, count, fails, offered>>

-----------------------------------------------------------------------------
(* Time and the caller.                                                    *)

\* The ticker of the segment fires; a tick that is still there swallows it.
TickerFires ==
  /\ pacer \in {"select", "offer"} /\ ticks < MaxTicks
  /\ ticks' = ticks + 1
  /\ tick' = TRUE
  /\ UNCHANGED <<run, seeded, pacer, segment, picked, queueVars, cancelled, workVars, offered>>

Cancel ==
  /\ run # "returned" /\ ~cancelled
  /\ cancelled' = TRUE
  /\ UNCHANGED <<run, seeded, pacerVars, queueVars, workVars, offered>>

Returned == run = "returned" /\ UNCHANGED vars

-----------------------------------------------------------------------------
Pacer == SeedDevice \/ Seeded \/ BeginSegment \/ TakeTick \/ Offer \/ PaceReturns \/ RunReturns

Worker(w) == Take(w) \/ FireEnds(w, FALSE) \/ Record(w) \/ WorkerExits(w)

Next ==
  \/ Pacer \/ EndSegment
  \/ \E w \in Workers : Worker(w) \/ FireEnds(w, TRUE)
  \/ TickerFires \/ Cancel \/ Returned

Spec == Init /\ [][Next]_vars

\* Run's goroutine is scheduled, a request of seed ends by the client's Timeout, and the
\* timer of a segment fires: select chooses at random among what is ready, so the end of
\* the segment gets its turn though ticks keep coming.
PacerSpec == Spec /\ WF_vars(Pacer) /\ SF_vars(EndSegment)

\* In addition the workers are scheduled, and a request ends: the client has a Timeout.
WorkerFairness == \A w \in Workers : WF_vars(Worker(w))

-----------------------------------------------------------------------------
TypeOK ==
  /\ run \in {"seed", "pace", "wait", "returned"} /\ seeded \in 0..Devices
  /\ pacer \in {"next", "select", "offer"} /\ segment \in 0..Len(Rates)
  /\ picked \in Ops \cup {"none"} /\ tick \in BOOLEAN /\ ticks \in 0..MaxTicks
  /\ jobs \in Seq(Ops) /\ Len(jobs) <= Cardinality(Workers) /\ closed \in BOOLEAN
  /\ dropped \in Nat /\ cancelled \in BOOLEAN
  /\ worker \in [Workers -> {"idle", "fire", "record", "exited"}]
  /\ job \in [Workers -> Ops \cup {"none"}] /\ ok \in [Workers -> BOOLEAN]
  /\ count \in [Ops -> Nat] /\ fails \in [Ops -> Nat] /\ offered \in [Ops -> Nat]

\* Jobs of op that are on their way, not counted as dropped or in the statistics.
UnderWay(op) ==
  Cardinality({k \in DOMAIN jobs : jobs[k] = op}) + Cardinality({w \in Workers : job[w] = op})
    + IF picked = op THEN 1 ELSE 0

\* No job gets lost between the pacer, the channel, the workers and the statistics, of
\* whatever operation, also when the run is cancelled: each is counted once, as dropped
\* or as a sample, or is still under way.
JobsAccounted ==
  /\ \A op \in Ops : count[op] + UnderWay(op) <= offered[op]
  /\ SumFunction(offered) = dropped + SumFunction([op \in Ops |-> count[op] + UnderWay(op)])

\* The statistics Run returns are final: no worker is still to add to them.
ResultIsFinal == run = "returned" => \A op \in Ops : UnderWay(op) = 0

\* The pacer gets through its segments whatever the service and the workers do: the
\* arrival rate does not depend on the response time (Run).
PacerReturns == (run = "pace") ~> (run = "wait")

\* Run returns, cancelled or not, even if the service answers nothing.
RunEnds == WorkerFairness => ((run = "seed") ~> (run = "returned"))
=============================================================================
