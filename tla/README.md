# A verification project for the Pi-Bench telemetry service

TLA+ modules, model-checking configurations and proofs for the Go service in `src/`: an HTTP API for device
telemetry, three instances of it behind nginx, and one Redis that keeps a sorted set per device. Paths below are
relative to `src/`.

## 1. Inventory

| Component | Source | State it keeps | Operations | Hard behaviour | What makes it correct |
|---|---|---|---|---|---|
| Ingest path | `internal/httpapi/telemetry.go`, `internal/store/redis.go` (`Append`, `encodeMembers`) | per process: `seq`, `writes`, points counter; in Redis: the sets | single and batch ingest, trim | concurrent requests on shared counters, pipelines that half fail, lost replies, restarts | a 202 means stored; trims cost only old points; points do not collapse; a device stays bounded |
| Connection pool | `internal/store/redis.go` | channel of idle connections, a deadline per connection | `get`, `dial`, `put`, `do`, `readPoints`, `Warm`, `Close` | pipelined replies, deadlines left behind, stalls, resets, warm-up against requests | no leak, no sharing, clean reuse, replies to the right caller, reads always end |
| Query and pagination | `internal/store/redis.go`, `internal/store/mem.go` (`Range`), `internal/store/paginate.go`, `internal/cursor`, `internal/httpapi/query.go` | none: the cursor is all that connects two pages | one page | the set changes between pages; scores are doubles | no stable point skipped, none twice, ascending, inside the window, an end |
| Recent points, anomaly | `internal/store/redis.go` (`Recent`), `internal/anomaly`, `internal/httpapi/anomaly.go` | none | z-score over the newest 256 | stored points come and go with trims; too few samples | the newest n of what was ever stored, newest first |
| Handler and metrics | `internal/httpapi/handler.go`, `internal/metrics` | counters, label cells | count, scrape, readiness | first use of a label while a scrape holds the lock, panics | every response counted once; scrapes do not stop requests |
| Lifecycle | `cmd/api/main.go` | signal, server state, warm-up | start, drain, close | shutdown window against requests that hang | requests in flight are answered within the window |
| In-memory store | `internal/store/mem.go` | sorted slices under a lock | the `Store` interface | must mirror Redis for the tests; trims on every write | its pages keep the promises of the Redis store's |
| RESP codec | `internal/resp/resp.go` | position in the stream of a connection | encode a command, read a reply, read an array of members in place | replies in pieces, cut off, bulks that hold CR LF; two readers of one protocol | returns what was sent, waits for nothing else, leaves the connection in step |
| Point codecs | `internal/model` | none | JSON scanner, 65-byte member | malformed input | agrees with a reference |
| Load generator | `stress/load`, `stress/cmd` | jobs channel, dropped, samples | seed, pace, fire, record | saturation, a service that hangs, cancellation, shutdown of the workers | every offered job is run or counted as dropped; the pacer waits for nobody; the result is final |
| Deployment | `docker-compose.yml`, `deploy/nginx.conf` | - | restarts, eviction, no persistence | - | the environment of all of the above |

How they interact: a handler calls the store; the store takes a connection from the pool, sends one command or a
pipeline of two and reads the replies; Redis executes the commands of all connections one at a time. Requests share the
two atomic counters and the pool, nothing else. Reads carry a deadline (`READ_TIMEOUT_MS`), writes do not. Instances
share nothing but Redis. Reads and writes of one client meet only in the sorted set.

## 2. Modules

| Module | Models |
|---|---|
| `Ingest` | the write path: handler, `Append`, the pipeline, Redis as a set of members per device |
| `TelemetryLog` | what the write path promises: an abstract capped log that calls append to |
| `Ingest_proofs` | theorems about `Ingest`, and that it implements `TelemetryLog` |
| `Retention_proofs` | what the set of a device retains: the recent points, and the bound between two trims |
| `ConnPool` | the pool, its operations, deadlines, warm-up and `Close` |
| `Pages` | the pure part of a range query: score, order, fetch, page, next cursor |
| `Pagination` | a client walking pages while the set is written and trimmed |
| `Metrics` | the labeled counter family: `With`, `Inc`, the scrape, the read-write lock |
| `Service` | one API process on top of `Metrics`: requests from `ServeHTTP` to their answer, signal, drain, exit |
| `Scanner` | the JSON point scanner and its validation, in step with encoding/json |
| `Resp` | the RESP codec: encoder, generic reader and fast path over a stream of bytes |
| `Driver` | the load generator: seed, pacer, jobs channel, workers, statistics |
| `ConnPool_proofs`, `Pagination_proofs`, `Service_proofs`, `Scanner_proofs`, `Resp_proofs`, `Driver_proofs` | theorems about the module of that name |
| `MCIngest`, `MCConnPool`, `MCPagination`, `MCService`, `MCScanner`, `MCResp`, `MCDriver` | symmetry sets and inputs for TLC; each `.cfg` is named after its module and run |

Operators whose comment calls them a mutant are single faults a bug could put in the place of the definition below
them. They are used in no specification; substituting one must make TLC report a violation, which shows that the
property depends on that line of the code.

### Ingest

A request slot goes through `pc`: `idle`, `encode`, `connect`, `sent`, then `accepted`, `rejected` or (its instance
killed) `dead`.

| Action | Code |
|---|---|
| `Receive` | the handlers up to `Append`; bodies that fail validation answer 4xx without touching any state and are left out |
| `EncodeMember` | one iteration of `encodeMembers`: `seq.Add(1)`, `EncodeInto`. One step each, since encoders interleave |
| `CountWrite` | `writes.Add(1)%trimEvery`, the decision to pipeline the trim |
| `Send` | `do`/`roundtrip`: write and flush |
| `RedisAdd`, `RedisTrim`, `RedisRefuses` | Redis executes or refuses the head of a pipeline |
| `Accept`, `Reject` | the end of `roundtrip`, of `Append` and of the handler |
| `DialFails`, `ConnBreaks`, `InstanceRestarts`, `RedisRestarts`, `RedisEvicts` | faults |

A member is `[ts, seq, val]`; the 65 bytes start with big-endian `ts` and `seq`, so byte order is the order of these
fields. Scores are taken as exact here (section 3 of `Pages` deals with scores above 2^53). A connection breaks with any
prefix of the pipeline still under way to Redis, which may execute it long after the 503 and after the instance that
sent it has died. `ever` is a history variable, `added` the integer reply of ZADD, which the code throws away.
`Recent(S, n)` is what `redisStore.Recent` reads from a set, as an operator: it is one command of Redis, so a step of its
own would add nothing to saying, in every state, what it would return (`RecentIsNewest`).

### TelemetryLog

A call has no effect or one atomic effect: as many new entries as its batch has points. It is acknowledged after the
effect; a failed call may take effect later, but not after its slot has ended. `Prune` may drop anything but the
newest `Cap` entries; `Lose` empties logs (a restart of Redis or an eviction), and only as something fails: `failures`
counts one more. `Ingest!ImplementsLog` instantiates it with `log <- zset`, `failures <- faults`, `phase` derived from
`pc`, and `applied` derived from the first reply. Since `faults` counts the steps of the environment and no step of
the code moves it, a trim that empties a device is no step of the log.

### ConnPool

An operation is one `do` or `readPoints`: `get` or `dial`, `arm`, `send`, `await`, `put`, `done`. Connections have an
identity; `sent` and `inbox` are the two directions of the stream, and each reply remembers whose command it answers.
`limit` is the I/O deadline of the connection and `ctx` the timer of the context: the instant comes once, the two timers
are seen in either order. `Warm` runs the same steps without `get`. `Close` drains the channel while operations the
shutdown did not wait for, and the warm-up, still run. The cancellation of a request's context by its client is not
modelled: it interrupts no I/O here and only changes an error value that every path maps to the same status.

### Pages and Pagination

`Score` is the rounding of an integer to a double for numbers up to twice `Exact` (2^53 in reality, 4 in the models):
above it only even numbers exist and ties go to the even significand. `Fetched` is ZRANGEBYSCORE with LIMIT, `Page`,
`Exhausted` and `NextCursor` are `BuildPage`. In `Pagination` each page is one action, since Redis answers it
atomically; between pages points are appended in sequence order (`Append`) or with a sequence number below the highest
(`AppendLate`: another instance, or a ZADD that was overtaken), and trims run. `disturbed` remembers which of these
happened during the walk, and the properties say what holds under which of them.

`backend` is chosen at the start. The in-memory store shares `BuildPage` and the cursor; it takes the window by exact
timestamps (`ByStamp`), numbers a point under the lock under which it is stored, so none is late, and trims in `Append`
itself (`Stored`), so that a write in the middle of a walk is a trim once the device is full. Both stores are checked
against the same properties.

### Metrics and Service

`Metrics` has one action per critical section: `Find` (the lookup of `With` under the read lock), `Lock` and `Create`
(the second lookup under the write lock), `Inc`, and `ShowLabel`, one per line a scrape writes while it holds the read
lock. A writer that waits keeps new readers out (`blocked`), as `sync.RWMutex` does, and lets them all in when it
unlocks. Cells have an identity: a cell that no label leads to keeps what it counted, which is how a count is lost.

`Service` extends it with the requests of `internal/httpapi` and the two goroutines of `main`.

| Action | Code |
|---|---|
| `Receive`, `AnswerAlone`, `CallStore`, `StoreSucceeds`, `StoreFails` | the handlers; which call of the store, which answers |
| `ScrapeStarts`, `ScrapeEnds` | `GET /metrics` |
| `Panic`, `CountStatus`, `UseMetrics`, `Deliver` | the deferred function of `ServeHTTP`; the response is complete when it has returned |
| `Serve`, `ServeReturns`, `ListenFails`, `CloseStore`, `Exit` | `main` |
| `Notify`, `ShutdownStarts`, `WindowEnds`, `ShutdownEnds` | its signal goroutine and `srv.Shutdown` |
| `Sigterm` | the environment |

The store is whatever its interface allows: it succeeds, fails, or never returns. A request whose status is not among
the cached ones is one the mux refuses (405). `sent` is what went to the client, `status` what will be counted.

### Scanner

`Scanner` reads tokens one by one, chosen as it goes, so that an input is explored only as long as somebody may accept it.
Each action is a place of `fastjson.go` that looks at `b[i]`: `Open`, `ReadKey`, `Colon`, `ReadNumber` (a known field),
`SkipValue` and `SkipContainer` (an unknown one), `NextMember`, `Trailing`, `ToPoint`. `ref` is encoding/json on the same
tokens: a stack automaton for the grammar and the assignment to pointer fields; it is external and no more than the
comments of `fastjson.go` call "matching encoding/json". `odd` collects what the two are known to see differently: keys
only encoding/json recognizes, a null after a value, strings and containers that are not well-formed.

### Resp

A reply contains replies, and `readArray` calls `ReadReply` for each of them. What that recursion does to the stream is
flat: a connection carries items (a line, a bulk, a null, or the header of an array, whose members are the items behind
it), and `left` counts the items the call has still to read; `After` is the loop of `readArray`, which counts one down and
adds the members of a header. What `readArray` does with the values, a slice per level, is left out, since the order of the
items says the same.

`wire` is what the peer has sent, `arrived` how much of it has come, `pos` where the reader is. `sent` is the account of
the peer, kept for the properties: where each item ends, how many replies ended with it, and how many items its reply
still lacks. A read is an operator of a position: it gets a value and the next position, fails, or is `"short"`, that is,
waits. `ReadReply`, `ReadArray`, `ReadBulk`, `ReadLine` and `ParseInt` are the functions of these names;
`ReadFixedHeader`, `ReadFixedMember` and `ParseIntLine` are `ReadFixedBulkArray` before its loop, one turn of the loop, and
the integers of both.

| Action | Code |
|---|---|
| `Reads` | the call reads its next item; with the last one of the reply it returns |
| `ReturnsError`, `ReturnsEOF` | the call fails on what it reads, or because no more comes; no call follows |
| `Send`, `Arrive`, `Cut` | the peer and the network |

A reader may run at every number of bytes that have arrived, so it does not matter where the pieces of a reply end. The peer
writes an item when all bytes of the one before have arrived: the reader cannot tell. What it writes is built from the
item by `Encoded`, which is external but for the bulks and array headers of `EncodeCommand`, so that the encoder is checked
by reading it back. Bytes are numbers from 0 to 255, and the digits of a length are worked out, in both directions.
Left out: the width of integers (a length near 2^63 is not sent by Redis), the message of an error, and the buffer of the
fast path, whose members are taken one by one.

`ConnPool` reads a reply in one step or not at all. `InSync` is what allows that: a call that returns leaves the stream
at the next reply, and a call that does not gives the connection up.

### Driver

| Action | Code |
|---|---|
| `SeedDevice`, `Seeded` | `seed`: one batch per device, whatever the answer |
| `BeginSegment`, `TakeTick`, `Offer`, `EndSegment`, `PaceReturns` | `pace`: the loop over segments, the `select`, the `select` with a default inside it; `close(jobs)` |
| `Take`, `FireEnds`, `Record`, `WorkerExits` | a worker: receive, `fire`, `Stats.Record`, the end of the range loop |
| `RunReturns` | `wg.Wait` and the result |
| `TickerFires`, `Cancel` | the ticker, which holds one tick, and the caller |

Time is the order of events. The jobs channel has room for one job per worker. `offered` is a history variable; it starts
at the tick the pacer takes, since a tick the ticker lost leaves no trace anywhere.

## 3. Runs

| Run | Kind | Instance | Shows |
|---|---|---|---|
| `ingest_faults` | pass | 2 instances, 1 device, 2 slots, 4 requests, cap 2, trim every 2nd write, two faults of {dial, conn, refuse, instance} | `AcceptedIsStored`, `NewestRetained`, `RecentIsNewest`, `PointsAreStored` through every fault that leaves Redis' data alone |
| `ingest_log` | pass | 1 instance, 2 devices, 2 slots, 3 requests of up to 2 points, one fault of {dial, conn, refuse, redis, evict}, fair | `ImplementsLog`, `AcceptedIsAdded`, `EveryRequestEnds` |
| `ingest_overlap` | pass | 1 instance, 1 device, 3 slots, 10 requests | `OverlapBound` |
| `ingest_twodevices` | violation | 1 instance, 2 devices, one request at a time | `TrimBound` fails: every trim lands on the same device |
| `pool_safety` | pass | reader, writer, warm-up, pool of 2, 4 connections, one fault of {redis, conn, error, close} | `ConnsAccounted`, `PooledIsClean`, `RepliesAreOwn` |
| `pool_liveness` | pass | reader, writer, warm-up, pool of 1, 2 connections, Redis may die once and may stall for ever | `ReadsEnd`, `WarmUpEnds`; `WritesEnd` if Redis answers |
| `pool_timers` | violation | a reader and a writer | `DeadlineIsReported` fails: the connection's timer wins |
| `pages_walk` | pass | either store, timestamps {1,2}, pages of 1 or 2, cap 2, 6 points, late writes and trims | `NoPointSkipped`, `NoPointTwice`, `PagesAscend`, `WindowRespected`, `WalkEnds` |
| `service_drain` | pass | 2 requests of every kind, panics, a store that may never answer, one SIGTERM, fair | `NoCountLost`, `ScrapeShowsDelivered`, `CountedAsDelivered`, `DrainAnswers`, `SigtermEnds`, `HandledIsDelivered` |
| `scanner_json` | pass | 3 fields, every input of up to 20 tokens | `AcceptsOnlyValid`, `RejectsOnlyInvalid` |
| `resp_streams` | pass | members of 10 bytes; replies of every type, arrays of up to 2 elements nested once, pipelines of 2, commands of up to 2 arguments; bulks of CR, LF and headers; cut at every byte | `InSync`, `NeverStarved`, `FailuresAreReal` |
| `driver_run` | pass | 2 workers, 2 operations, 1 device, segments of rates 1, 0, 2, 5 ticks, one cancellation, fair | `JobsAccounted`, `ResultIsFinal`, `PacerReturns`, `RunEnds` |

Bounds and why they are enough. In `Ingest` a trim at every second write and a cap of 1 or 2 make trims matter from
the second or third request; a cap of 2 lets the order of recent points show, and two faults let one hit what another
left; two slots give every interleaving of two encoders, counters and pipelines, and slots are reused, so a late ZADD
of a finished connection meets later requests; four requests give two trims. `OverlapBound` needs each of three slots
to sit on an unexecuted trim, which ten requests allow with one to spare. `TrimBound`, the comment in `Append`, is
`OverlapBound` for one slot. In `ConnPool` two pooled connections and three operations reach an empty, a full and an
overflowing pool; in `pool_liveness` two connections for three operations mean that a dial can also be refused for
want of descriptors. A warm-up of several connections that fails between them is in `pool_safety`. That it ends there
too was checked apart, without the writer, for it is too large for the run: a reader, a pool of two, three connections
and two attempts (`Faults` {redis, close}; 495,049 states). In `Pagination` six points of two timestamps give runs of
one timestamp longer than a page, a trim that removes part of a run, and pages that end inside and at the end of a
run; six are needed for a trim to break the order within one timestamp (section 5), which five do not show. The
in-memory store, which trims on every write, reaches its cap with the third. In `Service` two users are two creators
of one cell, or a scrape and a creator that waits for its lock; every kind of request meets every other. In `Scanner`
an input of two required fields has 10 tokens; ten more are room for a repeated field, a null, or nested containers
three deep, and the state does not grow with the text that was read. In `Resp` members have 10 bytes where the code
has 65: both are lengths of two digits, and short or long members, terminators inside of members and headers inside of
members are among the inputs; two replies in a row are enough, since what a call leaves to the next is a position. In
`Driver` two workers and a channel of two hold four jobs, and the fifth tick finds no room; the segment without a rate
is in the middle.

Deadlock is checked in every run; `Quiescent` is the idle state of a bounded behaviour.

Fairness. `Ingest!FairSpec`: goroutines are scheduled, and Redis serves every client it is connected to; faults are
never fair. `ConnPool!CodeFairSpec`: goroutines are scheduled, timers fire and a dial ends (it has `dialTimeout`); nothing
is assumed of Redis. `WritesEnd` has the fairness of Redis as its hypothesis, because a write has no deadline and hangs
on a Redis that keeps its connection and says nothing. `Pagination!FairSpec`: a client that began asks for the next
page; a client that stops breaks no promise of the service.
`Service!FairSpec`: goroutines are scheduled, the window of `Shutdown` ends, and a scrape is written or cut off by the
server's `WriteTimeout`; nothing is assumed of the store, so a request may hang in it for ever and the process must
still end.
`Driver!PacerSpec`: the goroutine of `Run` is scheduled, and a segment ends although ticks keep coming: its timer stays
ready, and `select` chooses at random among what is ready, so this fairness is strong (`EndSegment` is disabled while a
job is offered). `PacerReturns` assumes nothing of workers and service. `RunEnds` has the fairness of the workers as its
hypothesis, with requests that fail at the client's `Timeout`; a client passed in `Config.Client` without one would void it.

## 4. Proofs

Every safety property of a passing run is proved for every value of the constants, and so is the refinement of
`TelemetryLog`. The assumptions are the ASSUMEs of the modules (numbers are numbers, a pool has a place, a
cap is not 0) and, where the table names one, a hypothesis. No set of requests, devices, users, operations or connections
is bounded, nor is the length of an input, a reply or a pipeline; where a set has to be finite, it is said.

| Module | Theorem | Assumes | States |
|---|---|---|---|
| `Ingest_proofs` | `TypeCorrect` | - | `TypeOK` |
| | `TrimKeepsNewest` | - | `NewestRetained`: no interleaving of ZADDs and trims costs a device one of its newest `Cap` points |
| | `AcceptedPersists` | `NoLoss` | `AcceptedIsStored`: a 202 means stored, or pushed out by `Cap` newer points |
| | `AcceptedPointsAreDistinct` | `OneInstance` | `AcceptedIsAdded`: one new member per accepted point |
| | `CountedPointsAreStored` | `NoLoss` | `PointsAreStored`: the points counter counts nothing Redis has not stored |
| | `LogRefined` | `OneInstance` | `ImplementsLog`: every step is a step of the abstract log or none |
| `Retention_proofs` | `RecentIsExact` | - | `RecentIsNewest`: the newest n as if no trim had ever run |
| | `DeviceIsBounded` | `OneInstance`, `OneDevice`, `TrimsAreExecuted`, K requests, K finite and not 0 | `OverlapBound`: at most K * `TrimEvery` + K - 1 batches above the cap |
| `ConnPool_proofs` | `TypeCorrect` | - | `TypeOK` |
| | `PoolIsClean` | - | `PooledIsClean` |
| | `NoReplyIsMixedUp` | - | `RepliesAreOwn` |
| | `NoLeakNoSharing` | - | `ConnsAccounted` |
| | `WritesNeverTimeOut` | - | a write meets no deadline a read left on its connection |
| `Service_proofs` | `TypeCorrect` | - | `TypeOK` |
| | `CountsAreKept` | - | `NoCountLost` |
| | `CountsMatchAnswers` | - | `CountedAsDelivered` |
| | `ScrapesAreCurrent` | - | `ScrapeShowsDelivered` |
| | `StoreOutlivesRequests` | - | `DrainAnswers` |
| | `LocksAreReleased` | - | `LocksInUse`: the read-write lock is held only inside a critical section, by a writer alone |
| | `NobodyIsStuck` | - | `SomebodyMoves`: the lock never holds up everybody who is inside of `With` or `Render` |
| | `ShutdownGetsOn` | - | after SIGTERM there is a step towards the end, and there are never more of them left than before |
| `Pagination_proofs` | `TypeCorrect` | - | `TypeOK` |
| | `NothingIsSkipped` | - | `NoPointSkipped` |
| | `OnlyTheWindow` | `ScoresAreExact` | `WindowRespected` |
| | `NothingTwice` | `ScoresAreExact` | `NoPointTwice` |
| | `PagesFollow` | `ScoresAreExact` | `PagesAscend` |
| | `WalkGetsOn` | `ScoresAreExact` | `CursorAdvances`: a page that is not the last moves the cursor on |
| `Scanner_proofs` | `TypeCorrect` | - | `TypeOK` |
| | `AcceptedIsValid` | - | `AcceptsOnlyValid` |
| | `RejectedIsInvalid` | - | `RejectsOnlyInvalid` |
| `Resp_proofs` | `RespInSync` | - | `InSync`: the items that were sent, and the position behind them, for both readers |
| | `RespNeverStarved` | - | `NeverStarved`: a call whose reply has arrived does not wait |
| | `RespFailuresAreReal` | - | `FailuresAreReal`: a call fails for what the peer or the network did |
| `Driver_proofs` | `TypeCorrect` | - | `TypeOK` |
| | `StatisticsAreFinal` | - | `ResultIsFinal` |
| | `NoJobIsLost` | - | `JobsAccounted` |
| | `WaitGetsOn` | - | while `Run` waits there is a step towards its return, and there are never more of them left than before |

The hypotheses:

- `NoLoss`: `FaultKinds` has neither a restart of Redis nor an eviction. Redis persists nothing (`docker-compose.yml`), so
  after either a 202 means nothing. Restarts of instances, broken connections, refused commands and failed dials remain.
- `OneInstance`: one instance that is not restarted. Without it two instances give equal points the same number, and Redis
  stores one member for two 202s; the log, which counts new entries, is not implemented then.
- `OneDevice`, `TrimsAreExecuted` (no fault but an eviction): the counter behind the trim period is shared by all devices,
  so with two of them one may never be trimmed (`ingest_twodevices`), and a trim that a fault drops is not repeated.
- `ScoresAreExact`: timestamps up to 2^53. Above it all four theorems that name it are false: with `Stamps` {4,5} and
  `Exact` 4 TLC finds a point outside of the window, one on two pages, pages that go back in time and a cursor that comes
  back, since the fetch selects by rounded scores and `BuildPage` compares exact timestamps. `NothingIsSkipped` needs no such bound.

The arguments.

`Ingest`. `TypeOK` is not inductive: that Redis executes only well-formed commands for placed requests needs `Placed`
(a request that has begun has an instance and a device), `WireShape` (what is on the wire is the rest of a pipeline,
and replies come in order) and `Finite` (sets are finite, and nothing is in a set that was not added); `TypeInv` is
their conjunction. `NewestRetained` is inductive next to it: a trim keeps the newest of what is there, which by
induction contains the newest of all that ever was, and newer additions only shrink that set (`NewestMonotone`).
`RecentIsExact` follows: ranks in the set and in its history agree below `Cap`. `AppliedInv` says that a request whose
first reply was good has its members in `ever`; `SeqInv` that members in use carry different numbers, none above the
counter; `CountInv` that members encoded plus points left are the batch. `CountedPointsAreStored` needs restarts to be
harmless, where numbers come again: `PointInv` counts for each instance the numbers that are stored or about to be
(`Settled`) against its counter. `LogRefined` has one lemma per action; a ZADD is the effect, and it has the size of
the batch because its members are new. A broken connection and a refused command are failures that lose no log
(`FaultLosesNothing`). `DeviceIsBounded` rests on `Debt`: the size of the set, plus a batch for every ZADD to come, is
at most the cap plus a period of batches for every trim to come, plus those counted since the last. Executing a trim
pays back its period. The strict inequality at the end is `AllTrimming`: K requests that all sit on a trim leave
nobody to have counted since.

`ConnPool`. `ConnsAccounted` counts, so it is proved from `OnePlace`, which does not: an open connection is in the pool
or held, nothing twice. `PooledIsClean` needs to know what a connection carries while it is held (`NothingEarly`,
`NeedsReplies`, `RepliesAreOwn`) and what a dial finds (`ClosedIsBlank`). `Untimed` is why a write never times out: the
deadline of a read is removed before its connection is pooled, so it is never on a writer's.

`Service`. `NoCountLost` holds because two labels never share a cell and a label with a cell keeps it (`OwnCells`), and
because the cell an `Inc` goes to is still the label's (`CountsInPlace`), which is what the second lookup of `With` under
the write lock is for. `CountedAsDelivered` counts users, of whom finitely many are in the process
(`FinitelyMany`), by what their answers are (`AnswersNoted`).
`ScrapeSees` follows one scrape from its snapshot to its last line. `Draining` is the order of `main`.
`NobodyIsStuck` is a chain of waiting that ends: who waits to read waits for a writer, who waits to write for those who
read, and these can go on. `ShutdownGetsOn` counts what `main`, its signal goroutine and the window have before them
(`StepsLeft`), which no step increases and each of theirs decreases. Both say that a step is possible by its guards
(`MayStep`, `MainMayStep`), not by ENABLED; on the run's instance TLC finds them equal, as it does for `WorkerMayStep` of
`Driver`.

`Pagination`. A page is cut by rank; that ranks number a set from 0 without gaps is a pigeonhole argument. `StableIsAhead`
is why no point is skipped: a stable point has been returned or has in the window of the cursor a rank of at least its
skip. `Ordered` adds the converse for exact scores: what has been returned is behind the cursor (`ReturnedIsBehind`), and
what the cursor skips has the timestamp of the cursor (`SkipIsOfCursor`). `WalkGetsOn` compares cursors by timestamp, then
skip: the cursor behind a page is at its last point, which is not before the cursor, and at the same timestamp the page
adds at least that point to the skip.

`Scanner`. The invariant couples scanner and reference: outside of skipped values they are in the same place with the same
values; inside a container of an unknown field the scanner's `depth` is the number of open containers of the kind it
began with (`SameDepth`), however deep and mixed they are nested. Whatever the scanner then does not check of the others
is one of the oddities.

`Resp`. First numbers: what `AppendInt` writes is read back by `ParseInt` and by `parseIntLine`, for every integer
(`DecimalReads`, `NumeralLine`). Both are recursive functions, so that they exist, and what they compute, is shown by
a least number at which it fails. Then an item on the wire: `EncodedBytes` says which byte stands where, and one lemma
per reader what it makes of an item of which all, a part or nothing has arrived (`ReadLineOn`, `ParseIntLineOn`,
`ReadReplyOn`, `ReadFixedHeaderOn`, `ReadFixedMemberOn`, together `ReadOn`): all of it is its value and the position
behind it, a part of it is `"short"`, and never a shorter number or member. For a bulk this needs that its length is
read from the line and the rest by count, so that no byte of it matters; for a line, that it holds no LF. The
invariant relates the account of the peer, which is shown to be monotone (`PeerInv`), to the place of the reader
(`ReaderInv`): the item at `pos` is the first one that was not read. `NeverStarved` follows, since a reply that has
arrived and was not returned has its next item before its end.

`Driver`. The count of a job moves with it from the channel to a worker to the statistics. `JobsAccounted` sums a function
over the operations and counts positions of a sequence and members of a set, so what `SumFunction` does when one value
changes had to be proved: by induction over the set of operations, which must be finite (`OpsAssumption`: the mix of a
driver is a slice). `WaitGetsOn` sums over the workers what they have before them, and three steps for every job in the
channel, so that taking one is progress although its request and its record are then still to come.

How. The induction theorems of the library take an operator and cannot be used here, so induction over a finite set is
written out as the existence of a smallest subset that contradicts the claim (`SmallestSubset`), and induction over
ranks as a least element of a well-founded order. Nothing is assumed that is not proved, but for the library's
theorems on finite sets, functions and sequences and the provers. Every inductive invariant also holds as an INVARIANT
of the run of its component (with the module EXTENDed by its proofs), which is the place to look when a change to a
module breaks a proof.

Only model-checked, and why:

- Liveness: `EveryRequestEnds`, `ReadsEnd`, `WritesEnd`, `WarmUpEnds`, `WalkEnds`, `SigtermEnds`, `HandledIsDelivered`,
  `PacerReturns`, `RunEnds`. The prover knows neither fairness rules nor ENABLED. Of `HandledIsDelivered`, `SigtermEnds`,
  `WalkEnds` and `RunEnds` the halves that need neither are proved: `NobodyIsStuck`, `ShutdownGetsOn`, `WalkGetsOn`,
  `WaitGetsOn`.
- The two properties of the documentation that fail (section 5).

## 5. Where the code and its documentation disagree

| Run | What |
|---|---|
| `ingest_twodevices` | `redis.go:170-172` and `README.md:60-65`: the trim period counts writes to all devices, so a device may never be trimmed |
| `pool_timers` | `redis.go:276-278`, `handler.go:51-54`: a deadline hit can surface as a net timeout and stay uncounted |

Others have no run of their own. `point.go:89-91` ("seq guarantees uniqueness across concurrent writers") and
`README.md:57-58` hold within one process, not between the three that write: with two instances and two requests of
equal points `AcceptedIsAdded` fails, since both number their point 1 and Redis keeps one. `README.md:110-112` and
`cursor.go:2-4` call pages stable: without the conditions of `NoPointSkipped` and `NoPointTwice` a trim, or a write
with a lower sequence number, shifts the skip of the cursor. A trim can even make a later page return a point that
stands before one already returned: once the points of its timestamp are gone, the skip of a cursor passes over points
of the next one, and the cursor after it counts only those on its page. The timestamps of the pages still never
descend (`store.go:17`), which is what `PagesAscend` says of any walk with exact scores. `fastjson.go:14-16` says that
an explicit null leaves a field unset, which it does not when the field has come before, and that 1e999 is kept for
`toPoint`, while `readFloat` rejects it. `fastjson.go:18-21` says that an escaped key makes the scanner "stricter (a
400, never a misparse)"; it is skipped, so an optional or repeated field spelled that way is lost without an error
(the oddity `escaped` of `AcceptsOnlyValid`, which does not hold without it).

In the load generator: `driver.go:82-83` speaks of dropping "when no worker is free", but as many jobs as there are
workers wait in the channel first, and their wait is in no latency. "The offered load stays constant" only as far as the
ticker goes: a pacer that is late loses ticks, and they are not in `Dropped`. All workers have a random source of the same
seed (`driver.go:66`), so they draw the same devices. The p99.9 of 1000 samples is their maximum, since `99.9/100*1000` is
a little more than 999 in doubles (`stats.go:93`).

Beyond the bounds of `pages_walk`: with two timestamps above 2^53 and one score (`Exact` 4, `Stamps` {4,5}),
`WindowRespected` does not hold (`store.go:17`, "from <= ts <= to": the window is one of doubles, and `BuildPage` does
not look at it again), and neither does `WalkEnds`. `BuildPage` compares exact timestamps while the fetch selects by
score, and the cursor comes back to a value it had; `store.go:17-18` promises `""` at the end. The times devices send
are far below that.

## 6. Not modelled, and the plan

Not modelled, because nothing there keeps state or orders steps, so that a module would repeat the code line by line:

- `config.go` reads the environment once; its values are the CONSTANTS.
- `fastresp.go`, `responses.go`, `validate.go`, `metrics/runtime.go`, the text of `metrics.go`, `stats.go` from `Op` on,
  `format.go`: formatting, a character class, sums.
- `anomaly.go`, percentiles, the mix: floating-point arithmetic. What `Compute` is given is in `Ingest` (`Recent`), and which
  status comes of it in `Service`.
- The base64 of the cursor, the fields of the 65-byte member, parsing of query strings, body limits: a request refused
  there answers 4xx before it reaches any state.
- `stress/cmd`: mains that call `Run` once or in a row. Payloads and flags of `stress/load`.
- nginx, Docker and scripts are no code of this program; what they do to it (three instances, restarts, eviction, no
  persistence) is the environment of `Ingest` and `ConnPool`.

What is left:

- A measure that no step increases, as `ShutdownGetsOn` has for the shutdown, for a request of `Ingest` and for an operation
  of `ConnPool`: the safety halves of `EveryRequestEnds`, `ReadsEnd`, `WritesEnd` and `WarmUpEnds`.
