------------------------------ MODULE ConnPool ------------------------------
(***************************************************************************)
(* The connection pool of redisStore (internal/store/redis.go): get, dial, *)
(* put, do, readPoints, Warm and Close, the deadline that a read arms on   *)
(* its connection next to the timer of its context, and the Redis server   *)
(* at the other end of every connection.                                   *)
(*                                                                         *)
(* An operation is one call of do or readPoints.  Readers (Range, Recent,  *)
(* Ping) run under a context with a deadline, writers (Append) under one   *)
(* without.  The warmer is the goroutine of main.go's warmPool: it dials   *)
(* PoolSize connections, pings and pools each, and starts over on an error.*)
(*                                                                         *)
(* Replies carry, as a history, the operation whose command they answer.   *)
(***************************************************************************)
EXTENDS Naturals, FiniteSets, Sequences

CONSTANTS
  Readers,      \* operations with a deadline
  Writers,      \* operations without
  Warmers,      \* the warm-up goroutine, or none
  Conns,        \* identities of connections
  PoolSize,     \* capacity of the pool channel
  MaxAttempts,  \* attempts of warmPool (20)
  Faults,       \* the faults that may happen
  MaxFaults,    \* bound: faults in a behaviour
  none          \* no connection

ASSUME OpsAssumption == /\ Readers \cap Writers = {}
                        /\ Warmers \cap (Readers \cup Writers) = {}
ASSUME PoolAssumption == PoolSize \in Nat \ {0} /\ MaxAttempts \in Nat \ {0}
ASSUME FaultAssumption == Faults \subseteq {"redis", "conn", "error", "close"} /\ MaxFaults \in Nat
ASSUME NoneAssumption == none \notin Conns

Ops == Readers \cup Writers \cup Warmers

\* Operations whose context has a deadline.
Timed == Readers \cup Warmers

VARIABLES
  pool,     \* redisStore.pool: the idle connections, a FIFO channel
  open,     \* open[c]: the instance has c open
  alive,    \* alive[c]: Redis has c open
  sent,     \* sent[c]: commands on c that Redis has not answered, by operation
  inbox,    \* inbox[c]: replies on c that have not been read
  limit,    \* limit[c]: the I/O deadline of c: "none", "set" or "passed"
  pc,       \* pc[p]: how far operation p is
  held,     \* held[p]: the connection p is using
  need,     \* need[p]: replies p still has to read
  ctx,      \* ctx[p]: context of p: "none", "armed", "due" (its instant has come) or "expired"
  result,   \* result[p]: the outcome of p
  warmed,   \* connections Warm has pooled in this attempt
  attempts, \* failed attempts of warmPool
  up,       \* Redis accepts connections
  closing,  \* Close: "no", "draining" or "done"
  faults    \* faults so far

connVars == <<open, alive, sent, inbox, limit>>
opVars   == <<pc, held, need, ctx, result>>
warmVars == <<warmed, attempts>>
envVars  == <<up, closing, faults>>
vars == <<pool, connVars, opVars, warmVars, envVars>>

-----------------------------------------------------------------------------
Init ==
  /\ pool = << >>
  /\ open  = [c \in Conns |-> FALSE]
  /\ alive = [c \in Conns |-> FALSE]
  /\ sent  = [c \in Conns |-> << >>]
  /\ inbox = [c \in Conns |-> << >>]
  /\ limit = [c \in Conns |-> "none"]
  /\ pc     = [p \in Ops |-> "idle"]
  /\ held   = [p \in Ops |-> none]
  /\ need   = [p \in Ops |-> 0]
  /\ ctx    = [p \in Ops |-> "none"]
  /\ result = [p \in Ops |-> "none"]
  /\ warmed = 0
  /\ attempts = 0
  /\ up \in BOOLEAN
  /\ closing = "no"
  /\ faults = 0

\* A handler calls the store.  Append pipelines one or two commands.
Start(p) ==
  /\ p \notin Warmers
  /\ pc[p] = "idle"
  /\ pc' = [pc EXCEPT ![p] = "get"]
  /\ \E n \in IF p \in Writers THEN {1, 2} ELSE {1} : need' = [need EXCEPT ![p] = n]
  /\ ctx' = [ctx EXCEPT ![p] = IF p \in Timed THEN "armed" ELSE "none"]
  /\ UNCHANGED <<pool, connVars, held, result, warmVars, envVars>>

\* get: the receive from the channel succeeds.
GetPooled(p) ==
  /\ pc[p] = "get" /\ pool # << >>
  /\ pc' = [pc EXCEPT ![p] = "arm"]
  /\ held' = [held EXCEPT ![p] = Head(pool)]
  /\ pool' = Tail(pool)
  /\ UNCHANGED <<connVars, need, ctx, result, warmVars, envVars>>

\* get: the channel is empty and the default branch dials.
GetEmpty(p) ==
  /\ pc[p] = "get" /\ pool = << >>
  /\ pc' = [pc EXCEPT ![p] = "dial"]
  /\ UNCHANGED <<pool, connVars, held, need, ctx, result, warmVars, envVars>>

\* One attempt of Warm begins, under a context of its own.
WarmStart(p) ==
  /\ p \in Warmers
  /\ pc[p] = "idle"
  /\ pc' = [pc EXCEPT ![p] = "dial"]
  /\ need' = [need EXCEPT ![p] = 1]
  /\ ctx' = [ctx EXCEPT ![p] = "armed"]
  /\ warmed' = 0
  /\ UNCHANGED <<pool, connVars, held, result, attempts, envVars>>

DialOk(p) ==
  /\ pc[p] = "dial" /\ up
  /\ \E c \in Conns :
       /\ ~open[c]
       /\ held' = [held EXCEPT ![p] = c]
       /\ open' = [open EXCEPT ![c] = TRUE]
       /\ alive' = [alive EXCEPT ![c] = TRUE]
  /\ pc' = [pc EXCEPT ![p] = "arm"]
  /\ UNCHANGED <<pool, sent, inbox, limit, need, ctx, result, warmVars, envVars>>

\* The dial is refused, or nothing answers for dialTimeout: get returns the
\* dialer's error, never the context's.
DialFails(p) ==
  /\ pc[p] = "dial"
  /\ pc' = [pc EXCEPT ![p] = "done"]
  /\ result' = [result EXCEPT ![p] = "dial"]
  /\ UNCHANGED <<pool, connVars, held, need, ctx, warmVars, envVars>>

\* The deadline of the context, as the connection's: an instant already past is
\* "passed".  Mutant: no deadline.
NoDeadline(p) == "none"
Deadline(p) == IF ctx[p] = "armed" THEN "set" ELSE "passed"

\* SetDeadline, when the context has one.
Arm(p) ==
  /\ pc[p] = "arm"
  /\ pc' = [pc EXCEPT ![p] = "send"]
  /\ limit' = IF p \in Timed
              THEN [limit EXCEPT ![held[p]] = Deadline(p)]
              ELSE limit
  /\ UNCHANGED <<pool, open, alive, sent, inbox, held, need, ctx, result, warmVars, envVars>>

\* The commands are flushed.  On a connection Redis has dropped they can still
\* be accepted by the local kernel, and vanish.
Send(p) ==
  /\ pc[p] = "send" /\ limit[held[p]] # "passed"
  /\ pc' = [pc EXCEPT ![p] = "await"]
  /\ sent' = [sent EXCEPT ![held[p]] =
                IF alive[held[p]] THEN @ \o [k \in 1..need[p] |-> p] ELSE @]
  /\ UNCHANGED <<pool, open, alive, inbox, limit, held, need, ctx, result, warmVars, envVars>>

\* One reply per command of the pipeline.  Mutant: the first is enough.
FirstReply(p) == TRUE
LastReply(p) == need[p] = 1

\* A reply is read; the last one lets the connection go back.
ReadReply(p) ==
  /\ pc[p] = "await"
  /\ inbox[held[p]] # << >> /\ Head(inbox[held[p]]).ok
  /\ inbox' = [inbox EXCEPT ![held[p]] = Tail(@)]
  /\ need' = [need EXCEPT ![p] = @ - 1]
  /\ pc' = [pc EXCEPT ![p] = IF LastReply(p) THEN "put" ELSE "await"]
  /\ UNCHANGED <<pool, open, alive, sent, limit, held, ctx, result, warmVars, envVars>>

\* The connection is closed; whatever was on it is gone.
Discard(c) ==
  /\ open'  = [open EXCEPT ![c] = FALSE]
  /\ alive' = [alive EXCEPT ![c] = FALSE]
  /\ sent'  = [sent EXCEPT ![c] = << >>]
  /\ inbox' = [inbox EXCEPT ![c] = << >>]
  /\ limit' = [limit EXCEPT ![c] = "none"]

\* ctxOr: the context's error if it is there by now.  Warm returns err as it is.
Outcome(p, err) == IF ctx[p] = "expired" /\ p \notin Warmers THEN "deadline" ELSE err

\* Mutant of Failed: the connection is dropped without a Close.
FailedUnclosed(p, err) ==
  /\ pc' = [pc EXCEPT ![p] = "done"]
  /\ result' = [result EXCEPT ![p] = Outcome(p, err)]
  /\ held' = [held EXCEPT ![p] = none]
  /\ UNCHANGED <<pool, connVars, need, ctx, warmVars, envVars>>

\* The I/O fails with err: the connection is discarded and not reused.
Failed(p, err) ==
  /\ pc' = [pc EXCEPT ![p] = "done"]
  /\ result' = [result EXCEPT ![p] = Outcome(p, err)]
  /\ held' = [held EXCEPT ![p] = none]
  /\ Discard(held[p])
  /\ UNCHANGED <<pool, need, ctx, warmVars, envVars>>

\* The deadline of the connection has passed: "i/o timeout".
TimesOut(p) ==
  /\ pc[p] \in {"send", "await"} /\ limit[held[p]] = "passed"
  /\ Failed(p, "timeout")

\* Mutant of Breaks: the commands are sent again on the same connection.
BreaksResends(p) ==
  /\ pc[p] \in {"send", "await"} /\ ~alive[held[p]]
  /\ pc' = [pc EXCEPT ![p] = "arm"]
  /\ UNCHANGED <<pool, connVars, held, need, ctx, result, warmVars, envVars>>

\* Redis has dropped the connection: a write or a read error.
Breaks(p) ==
  /\ pc[p] \in {"send", "await"} /\ ~alive[held[p]]
  /\ Failed(p, "conn")

\* An error reply.  The replies behind it are not read.
ReadError(p) ==
  /\ pc[p] = "await"
  /\ inbox[held[p]] # << >> /\ ~Head(inbox[held[p]]).ok
  /\ Failed(p, "refused")

\* put's select: there is room in the channel.  Mutant: it is not asked.
AlwaysRoom == TRUE
Room == Len(pool) < PoolSize

\* The connection goes to the channel, its deadline cleared.  Mutant: not cleared.
PooledArmed(c) ==
  /\ pool' = Append(pool, c)
  /\ UNCHANGED connVars
Pooled(c) ==
  /\ pool' = Append(pool, c)
  /\ limit' = [limit EXCEPT ![c] = "none"]
  /\ UNCHANGED <<open, alive, sent, inbox>>

\* Every reply is in: put returns the connection to the channel, or closes it when
\* the channel is full.
PutBack(p) ==
  /\ pc[p] = "put"
  /\ pc' = [pc EXCEPT ![p] = "done"]
  /\ result' = [result EXCEPT ![p] = "ok"]
  /\ held' = [held EXCEPT ![p] = none]
  /\ \/ Room /\ Pooled(held[p])
     \/ ~Room /\ Discard(held[p]) /\ UNCHANGED pool
  /\ UNCHANGED <<need, ctx, warmVars, envVars>>

Reset(p) ==
  /\ pc' = [pc EXCEPT ![p] = "idle"]
  /\ ctx' = [ctx EXCEPT ![p] = "none"]
  /\ need' = [need EXCEPT ![p] = 0]
  /\ result' = [result EXCEPT ![p] = "none"]

\* The handler has its answer and cancels the context.
Finish(p) ==
  /\ p \notin Warmers
  /\ pc[p] = "done"
  /\ Reset(p)
  /\ UNCHANGED <<pool, connVars, held, warmVars, envVars>>

\* Warm, between two connections: the next one, unless the context is done.
WarmNext(p) ==
  /\ p \in Warmers
  /\ pc[p] = "done" /\ result[p] = "ok"
  /\ warmed + 1 < PoolSize /\ ctx[p] # "expired"
  /\ pc' = [pc EXCEPT ![p] = "dial"]
  /\ need' = [need EXCEPT ![p] = 1]
  /\ result' = [result EXCEPT ![p] = "none"]
  /\ warmed' = warmed + 1
  /\ UNCHANGED <<pool, connVars, held, ctx, attempts, envVars>>

\* warmPool counts its attempts.  Mutant: it does not.
Uncounted == attempts
Counted == attempts + 1

\* warmPool, after an attempt that failed: the pool keeps what it got.
WarmRetry(p) ==
  /\ p \in Warmers
  /\ pc[p] = "done"
  /\ result[p] # "ok" \/ (warmed + 1 < PoolSize /\ ctx[p] = "expired")
  /\ Counted < MaxAttempts
  /\ attempts' = Counted
  /\ Reset(p)
  /\ UNCHANGED <<pool, connVars, held, warmed, envVars>>

\* warmPool returns: the pool is warm, or it has given up.
WarmEnd(p) ==
  /\ p \in Warmers
  /\ pc[p] = "done"
  /\ \/ result[p] = "ok" /\ warmed + 1 = PoolSize
     \/ Counted = MaxAttempts /\ (result[p] # "ok" \/ ctx[p] = "expired")
  /\ pc' = [pc EXCEPT ![p] = "ended"]
  /\ ctx' = [ctx EXCEPT ![p] = "none"]
  /\ UNCHANGED <<pool, connVars, held, need, result, warmVars, envVars>>

-----------------------------------------------------------------------------
(* Time.  The deadline is one instant, but the context and the connection  *)
(* each have a timer for it, and the runtime fires them one after the      *)
(* other, in either order.                                                 *)

InstantComes(p) ==
  /\ ctx[p] = "armed" /\ pc[p] \notin {"done", "ended"}
  /\ ctx' = [ctx EXCEPT ![p] = "due"]
  /\ UNCHANGED <<pool, connVars, pc, held, need, result, warmVars, envVars>>

ContextExpires(p) ==
  /\ ctx[p] = "due"
  /\ ctx' = [ctx EXCEPT ![p] = "expired"]
  /\ UNCHANGED <<pool, connVars, pc, held, need, result, warmVars, envVars>>

LimitPasses(p) ==
  /\ held[p] # none /\ limit[held[p]] = "set"
  /\ ctx[p] \in {"due", "expired"}
  /\ limit' = [limit EXCEPT ![held[p]] = "passed"]
  /\ UNCHANGED <<pool, open, alive, sent, inbox, opVars, warmVars, envVars>>

-----------------------------------------------------------------------------
(* Redis and the network.                                                  *)

Fault(kind) ==
  /\ kind \in Faults /\ faults < MaxFaults
  /\ faults' = faults + 1

\* Redis answers the oldest command on c; with an error only as a fault.
RedisAnswers(c) ==
  /\ alive[c] /\ sent[c] # << >>
  /\ sent' = [sent EXCEPT ![c] = Tail(@)]
  /\ \E ok \in BOOLEAN :
       /\ inbox' = [inbox EXCEPT ![c] = Append(@, [to |-> Head(sent[c]), ok |-> ok])]
       /\ IF ok THEN UNCHANGED faults ELSE Fault("error")
  /\ UNCHANGED <<pool, open, alive, limit, opVars, warmVars, up, closing>>

\* One connection is reset: an idle timeout, a CLIENT KILL, the network.
ConnReset(c) ==
  /\ Fault("conn")
  /\ alive[c]
  /\ alive' = [alive EXCEPT ![c] = FALSE]
  /\ sent' = [sent EXCEPT ![c] = << >>]
  /\ UNCHANGED <<pool, open, inbox, limit, opVars, warmVars, up, closing>>

\* Redis dies, and every connection with it: those in the pool go stale there.
RedisDies ==
  /\ Fault("redis")
  /\ up
  /\ up' = FALSE
  /\ alive' = [c \in Conns |-> FALSE]
  /\ sent' = [c \in Conns |-> << >>]
  /\ UNCHANGED <<pool, open, inbox, limit, opVars, warmVars, closing>>

RedisStarts ==
  /\ ~up
  /\ up' = TRUE
  /\ UNCHANGED <<pool, connVars, opVars, warmVars, closing, faults>>

\* main returns: the deferred Close drains the channel.  Operations the shutdown
\* did not wait for, and the warmer, may still be running.
CloseStart ==
  /\ Fault("close")
  /\ closing = "no"
  /\ closing' = "draining"
  /\ UNCHANGED <<pool, connVars, opVars, warmVars, up>>

CloseOne ==
  /\ closing = "draining" /\ pool # << >>
  /\ Discard(Head(pool))
  /\ pool' = Tail(pool)
  /\ UNCHANGED <<opVars, warmVars, envVars>>

CloseReturns ==
  /\ closing = "draining" /\ pool = << >>
  /\ closing' = "done"
  /\ UNCHANGED <<pool, connVars, opVars, warmVars, up, faults>>

-----------------------------------------------------------------------------
\* The code of an operation, without the dial and without waiting for Redis.
Code(p) ==
  \/ GetPooled(p) \/ GetEmpty(p) \/ Arm(p) \/ Send(p)
  \/ ReadReply(p) \/ ReadError(p) \/ TimesOut(p) \/ Breaks(p)
  \/ PutBack(p) \/ Finish(p)
  \/ WarmStart(p) \/ WarmNext(p) \/ WarmRetry(p) \/ WarmEnd(p)

Dial(p) == DialOk(p) \/ DialFails(p)

Next ==
  \/ \E p \in Ops : \/ Start(p) \/ Code(p) \/ Dial(p)
                    \/ InstantComes(p) \/ ContextExpires(p) \/ LimitPasses(p)
  \/ \E c \in Conns : RedisAnswers(c) \/ ConnReset(c)
  \/ RedisDies \/ RedisStarts
  \/ CloseStart \/ CloseOne \/ CloseReturns

Spec == Init /\ [][Next]_vars

\* Goroutines are scheduled, timers fire, and a dial ends within dialTimeout;
\* nothing is assumed of Redis.
CodeFairness ==
  \A p \in Ops :
    /\ WF_vars(Code(p)) /\ WF_vars(Dial(p))
    /\ WF_vars(InstantComes(p)) /\ WF_vars(ContextExpires(p)) /\ WF_vars(LimitPasses(p))

CodeFairSpec == Spec /\ CodeFairness

\* In addition Redis answers every command it has.
RedisFairness == \A c \in Conns : WF_vars(RedisAnswers(c))

-----------------------------------------------------------------------------
Reply == [to: Ops, ok: BOOLEAN]

TypeOK ==
  /\ pool \in Seq(Conns) /\ Len(pool) <= PoolSize
  /\ open \in [Conns -> BOOLEAN] /\ alive \in [Conns -> BOOLEAN]
  /\ sent \in [Conns -> Seq(Ops)] /\ inbox \in [Conns -> Seq(Reply)]
  /\ limit \in [Conns -> {"none", "set", "passed"}]
  /\ pc \in [Ops -> {"idle", "get", "dial", "arm", "send", "await", "put", "done", "ended"}]
  /\ held \in [Ops -> Conns \cup {none}]
  /\ need \in [Ops -> 0..2]
  /\ ctx \in [Ops -> {"none", "armed", "due", "expired"}]
  /\ result \in [Ops -> {"none", "ok", "deadline", "timeout", "conn", "refused", "dial"}]
  /\ warmed \in 0..PoolSize - 1 /\ attempts \in 0..MaxAttempts - 1
  /\ up \in BOOLEAN /\ closing \in {"no", "draining", "done"} /\ faults \in 0..MaxFaults

\* Every open connection is in exactly one place, the pool or the hands of one
\* operation: none leaks, none is shared, none is pooled twice.
ConnsAccounted ==
  \A c \in Conns :
    Cardinality({k \in DOMAIN pool : pool[k] = c}) + Cardinality({p \in Ops : held[p] = c})
      = IF open[c] THEN 1 ELSE 0

\* A pooled connection is as good as new: no deadline of an earlier read is left
\* on it to time out a later write, and no command or reply of an operation that
\* failed half-way.
PooledIsClean ==
  \A k \in DOMAIN pool :
    limit[pool[k]] = "none" /\ sent[pool[k]] = << >> /\ inbox[pool[k]] = << >>

\* An operation reads the replies to its own commands: what is on its way to it
\* was asked for by it, and there is never more of it than it will read.
RepliesAreOwn ==
  \A p \in Ops : held[p] # none =>
    LET c == held[p]
    IN /\ \A k \in DOMAIN sent[c] : sent[c][k] = p
       /\ \A k \in DOMAIN inbox[c] : inbox[c][k].to = p
       /\ Len(sent[c]) + Len(inbox[c]) <= need[p]

\* A read returns whatever Redis does: answer, stall or die.
ReadsEnd == \A p \in Readers : (pc[p] = "get") ~> (pc[p] = "done")

\* A write, which has no deadline, returns as long as Redis answers or breaks the
\* connection.
WritesEnd == RedisFairness => \A p \in Writers : (pc[p] = "get") ~> (pc[p] = "done")

\* The warm-up is over after a bounded time, warm or not.
WarmUpEnds == \A p \in Warmers : <>(pc[p] = "ended")

\* A deadline hit is reported as the context's error, which readStatus counts
\* (the comments on readStatus and ctxOr).
DeadlineIsReported == \A p \in Readers : result[p] # "timeout"
=============================================================================
