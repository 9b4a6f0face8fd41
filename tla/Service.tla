------------------------------- MODULE Service -------------------------------
(***************************************************************************)
(* One API process from the start of main to its exit: the HTTP handler    *)
(* (internal/httpapi) with its status accounting and panic recovery, on    *)
(* the counters of Metrics, and the graceful shutdown of cmd/api/main.go.  *)
(*                                                                         *)
(* The store answers a call in any of the ways its contract allows, or     *)
(* never (a write has no deadline).  net/http is modelled by what the code *)
(* relies on: a response is complete only once ServeHTTP has returned;     *)
(* Shutdown returns when no request is in flight or its context expires;   *)
(* ListenAndServe returns as soon as Shutdown has begun.                   *)
(***************************************************************************)
EXTENDS Metrics

CONSTANTS
  Kinds,        \* what clients ask for
  CanPanic,     \* handlers may panic
  MaxRequests,  \* bound: requests received in a behaviour
  MaxSignals    \* bound: SIGTERMs sent

ASSUME KindsAssumption ==
  Kinds \subseteq {"ingest", "query", "anomaly", "ready", "scrape", "live", "invalid", "unrouted"}
ASSUME PanicAssumption == CanPanic \in BOOLEAN
ASSUME BoundsAssumption == MaxRequests \in Nat /\ MaxSignals \in Nat
ASSUME StatusAssumption == Cached = {200, 202, 400, 404, 413, 500, 503} /\ 405 \in Others

VARIABLES
  main,       \* main: "start", "serve", "wait", "close", "exit", or "killed"
  term,       \* its signal goroutine: "start", "notified", "drain" or "done"
  signals,    \* SIGTERMs sent so far
  expired,    \* the drain window is over
  pc,         \* pc[u]: how far the request of u is
  kind,       \* kind[u]: what it asks for
  status,     \* status[u]: statusWriter.status
  wrote,      \* wrote[u]: statusWriter.wrote
  sent,       \* sent[u]: the status passed on to net/http, 0 for none
  timeouts,   \* the pibench_redis_read_timeout_total counter
  received,   \* requests received so far
  delivered,  \* history: complete responses by status
  before      \* before[u]: history: delivered when the scrape of u began

processVars == <<main, term, signals, expired>>
answerVars == <<status, wrote, sent>>
requestVars == <<pc, kind, answerVars>>
historyVars == <<delivered, before>>
handlerVars == <<metricsVars, requestVars, timeouts, received, historyVars>>
vars == <<processVars, handlerVars>>

Alive == main \notin {"exit", "killed"}

Init ==
  /\ MetricsInit
  /\ main = "start" /\ term = "start" /\ signals = 0 /\ expired = FALSE
  /\ pc = [u \in Users |-> "idle"]
  /\ kind = [u \in Users |-> "none"]
  /\ status = [u \in Users |-> 200]
  /\ wrote = [u \in Users |-> FALSE]
  /\ sent = [u \in Users |-> 0]
  /\ timeouts = 0
  /\ received = 0
  /\ delivered = [c \in Codes |-> 0]
  /\ before = [u \in Users |-> [c \in Codes |-> 0]]

-----------------------------------------------------------------------------
(* The handler.                                                            *)

UsesStore == {"ingest", "query", "anomaly", "ready"}

\* A request is read from a connection and ServeHTTP begins; while Shutdown waits, from
\* a connection accepted before it.  (main may have seen ListenAndServe return by then,
\* which makes no difference until Shutdown is back.)
Receive(u) ==
  /\ main = "serve" /\ term # "done"
  /\ pc[u] = "idle" /\ received < MaxRequests
  /\ received' = received + 1
  /\ \E k \in Kinds : kind' = [kind EXCEPT ![u] = k]
  /\ pc' = [pc EXCEPT ![u] = "route"]
  /\ UNCHANGED <<metricsVars, processVars, answerVars, timeouts, historyVars>>

\* statusWriter.WriteHeader: the first status counts.
WriteHeader(u, code) ==
  /\ status' = [status EXCEPT ![u] = IF wrote[u] THEN @ ELSE code]
  /\ wrote' = [wrote EXCEPT ![u] = TRUE]
  /\ sent' = [sent EXCEPT ![u] = IF wrote[u] THEN @ ELSE code]

\* The store is not asked: healthz answers, the mux refuses (no such method), or the
\* validation of the id, the body, the points or the window does.
AnswerAlone(u) ==
  /\ Alive /\ pc[u] = "route"
  /\ \/ kind[u] = "live" /\ WriteHeader(u, 200)
     \/ kind[u] = "unrouted" /\ WriteHeader(u, 405)
     \/ kind[u] = "invalid" /\ \E code \in {400, 413} : WriteHeader(u, code)
  /\ pc' = [pc EXCEPT ![u] = "return"]
  /\ UNCHANGED <<metricsVars, processVars, kind, timeouts, received, historyVars>>

CallStore(u) ==
  /\ Alive /\ pc[u] = "route" /\ kind[u] \in UsesStore
  /\ pc' = [pc EXCEPT ![u] = "store"]
  /\ UNCHANGED <<metricsVars, processVars, kind, answerVars, timeouts, received, historyVars>>

\* readStatus.  Mutant: a deadline is a 504.
ReadStatusGateway(error) ==
  IF error = "cursor" THEN 400 ELSE IF error = "deadline" THEN 504 ELSE 503
ReadStatus(error) == IF error = "cursor" THEN 400 ELSE 503

\* readStatus counts the deadlines it maps.
CountsAsTimeout(error) == error = "deadline"

\* Append, Range, Recent or Ping returns without an error.
StoreSucceeds(u) ==
  /\ Alive /\ pc[u] = "store"
  /\ \/ kind[u] = "ingest" /\ WriteHeader(u, 202)
     \/ kind[u] \in {"query", "ready"} /\ WriteHeader(u, 200)
     \/ kind[u] = "anomaly" /\ \E code \in {200, 404} : WriteHeader(u, code)
  /\ pc' = [pc EXCEPT ![u] = "return"]
  /\ UNCHANGED <<metricsVars, processVars, kind, timeouts, received, historyVars>>

\* It returns an error.  Only query and anomaly ask readStatus about it.
StoreFails(u) ==
  /\ Alive /\ pc[u] = "store"
  /\ \E error \in {"failed"} \cup (IF kind[u] = "ingest" THEN {} ELSE {"deadline"})
                             \cup (IF kind[u] = "query" THEN {"cursor"} ELSE {}) :
       \/ /\ kind[u] \in {"query", "anomaly"}
          /\ WriteHeader(u, ReadStatus(error))
          /\ timeouts' = IF CountsAsTimeout(error) THEN timeouts + 1 ELSE timeouts
       \/ /\ kind[u] \in {"ingest", "ready"}
          /\ WriteHeader(u, 503)
          /\ UNCHANGED timeouts
  /\ pc' = [pc EXCEPT ![u] = "return"]
  /\ UNCHANGED <<metricsVars, processVars, kind, received, historyVars>>

\* GET /metrics: Render reaches the labeled family.
ScrapeStarts(u) ==
  /\ Alive /\ pc[u] = "route" /\ kind[u] = "scrape"
  /\ pc' = [pc EXCEPT ![u] = "scrape"]
  /\ WriteHeader(u, 200)
  /\ Scrape(u)
  /\ before' = [before EXCEPT ![u] = delivered]
  /\ UNCHANGED <<processVars, kind, timeouts, received, delivered>>

ScrapeEnds(u) ==
  /\ Alive /\ pc[u] = "scrape" /\ at[u] = "rendered"
  /\ pc' = [pc EXCEPT ![u] = "return"]
  /\ UNCHANGED <<metricsVars, processVars, kind, answerVars, timeouts, received, historyVars>>

\* A panic unwinds to ServeHTTP, which answers 500 unless a status is out already.
\* (Not out of Render: it only formats numbers, and it would keep the lock.)
\* Mutant: it notes the 500 in any case.
PanicOverrides(u) ==
  /\ status' = [status EXCEPT ![u] = 500] /\ wrote' = [wrote EXCEPT ![u] = TRUE]
  /\ sent' = [sent EXCEPT ![u] = IF @ = 0 THEN 500 ELSE @]
PanicStatus(u) == IF wrote[u] THEN UNCHANGED <<status, wrote, sent>> ELSE WriteHeader(u, 500)

Panic(u) ==
  /\ Alive /\ CanPanic /\ pc[u] \in {"route", "store", "return"}
  /\ PanicStatus(u)
  /\ pc' = [pc EXCEPT ![u] = "recovered"]
  /\ UNCHANGED <<metricsVars, processVars, kind, timeouts, received, historyVars>>

\* The deferred function of ServeHTTP counts the status.
CountStatus(u) ==
  /\ Alive /\ pc[u] \in {"return", "recovered"}
  /\ pc' = [pc EXCEPT ![u] = "count"]
  /\ Count(u, status[u])
  /\ UNCHANGED <<processVars, kind, answerVars, timeouts, received, historyVars>>

\* A step of With, Inc or Render.
UseMetrics(u) ==
  /\ Alive /\ MetricsStep(u)
  /\ UNCHANGED <<processVars, requestVars, timeouts, received, historyVars>>

\* When the response of u is complete: once ServeHTTP is back.  Mutant: status is
\* counted behind the response.
DeliveredEarly(u) == pc[u] = "count" /\ at[u] \in {"inc", "counted"}
Done(u) == pc[u] = "count" /\ at[u] = "counted"

\* net/http answers 200 when no status was passed on.
Answer(u) == IF sent[u] = 0 THEN 200 ELSE sent[u]

\* ServeHTTP has returned and the client has the whole response.
Deliver(u) ==
  /\ Alive /\ Done(u)
  /\ delivered' = [delivered EXCEPT ![Answer(u)] = @ + 1]
  /\ pc' = [pc EXCEPT ![u] = "idle"]
  /\ kind' = [kind EXCEPT ![u] = "none"]
  /\ status' = [status EXCEPT ![u] = 200]
  /\ wrote' = [wrote EXCEPT ![u] = FALSE]
  /\ sent' = [sent EXCEPT ![u] = 0]
  /\ before' = [before EXCEPT ![u] = [c \in Codes |-> 0]]
  /\ Leave(u)
  /\ UNCHANGED <<processVars, timeouts, received>>

-----------------------------------------------------------------------------
(* main and its signal goroutine.                                          *)

\* ListenAndServe; after a Shutdown it returns at once.
Serve ==
  /\ main = "start"
  /\ main' = IF term \in {"drain", "done"} THEN "wait" ELSE "serve"
  /\ UNCHANGED <<term, signals, expired, handlerVars>>

\* ListenAndServe returns an error of its own, as the address is taken or, later, a
\* connection cannot be accepted: log.Fatalf ends the process, deferred calls do not run.
ListenFails ==
  /\ main \in {"start", "serve"}
  /\ main' = "killed"
  /\ UNCHANGED <<term, signals, expired, handlerVars>>

Notify ==
  /\ Alive /\ term = "start"
  /\ term' = "notified"
  /\ UNCHANGED <<main, signals, expired, handlerVars>>

\* SIGTERM.  Before signal.Notify its default action ends the process.
Sigterm ==
  /\ Alive /\ signals < MaxSignals
  /\ signals' = signals + 1
  /\ main' = IF term = "start" THEN "killed" ELSE main
  /\ UNCHANGED <<term, expired, handlerVars>>

ShutdownStarts ==
  /\ Alive /\ term = "notified" /\ signals > 0
  /\ term' = "drain"
  /\ UNCHANGED <<main, signals, expired, handlerVars>>

\* ShutdownTimeout has passed since Shutdown began.
WindowEnds ==
  /\ Alive /\ term = "drain" /\ ~expired
  /\ expired' = TRUE
  /\ UNCHANGED <<main, term, signals, handlerVars>>

\* Shutdown returns.  Mutant: it has no deadline.
IdleOnly == \A u \in Users : pc[u] = "idle"
Drained == expired \/ \A u \in Users : pc[u] = "idle"

ShutdownEnds ==
  /\ Alive /\ term = "drain" /\ Drained
  /\ term' = "done"
  /\ UNCHANGED <<main, signals, expired, handlerVars>>

\* ListenAndServe returns ErrServerClosed: Shutdown has begun.
ServeReturns ==
  /\ main = "serve" /\ term \in {"drain", "done"}
  /\ main' = "wait"
  /\ UNCHANGED <<term, signals, expired, handlerVars>>

\* <-idleClosed.  Mutant: main goes on as soon as ListenAndServe is back.
NotAwaited == main = "wait"
IdleClosed == main = "wait" /\ term = "done"

\* main returns, and its deferred call closes the store.
CloseStore ==
  /\ IdleClosed
  /\ main' = "close"
  /\ UNCHANGED <<term, signals, expired, handlerVars>>

\* The process ends, and with it every goroutine that is left.
Exit ==
  /\ main = "close"
  /\ main' = "exit"
  /\ UNCHANGED <<term, signals, expired, handlerVars>>

Gone == ~Alive /\ UNCHANGED vars

-----------------------------------------------------------------------------
\* The steps of a request that wait for nothing but locks and a slow client.
Handle(u) ==
  \/ AnswerAlone(u) \/ CallStore(u)
  \/ ScrapeStarts(u) \/ ScrapeEnds(u)
  \/ CountStatus(u) \/ UseMetrics(u) \/ Deliver(u)

StoreReturns(u) == StoreSucceeds(u) \/ StoreFails(u)

Main == Serve \/ Notify \/ ShutdownStarts \/ WindowEnds \/ ShutdownEnds
        \/ ServeReturns \/ CloseStore \/ Exit

Next ==
  \/ \E u \in Users : Receive(u) \/ Handle(u) \/ StoreReturns(u) \/ Panic(u)
  \/ Main
  \/ ListenFails \/ Sigterm
  \/ Gone

Spec == Init /\ [][Next]_vars

\* Goroutines are scheduled, the window of Shutdown ends, and a client that does not
\* read its scrape is cut off by the WriteTimeout of the server.  Nothing is assumed
\* of the store.
FairSpec == Spec /\ WF_vars(Main) /\ \A u \in Users : WF_vars(Handle(u))

-----------------------------------------------------------------------------
TypeOK ==
  /\ MetricsTypeOK
  /\ main \in {"start", "serve", "wait", "close", "exit", "killed"}
  /\ term \in {"start", "notified", "drain", "done"}
  /\ signals \in 0..MaxSignals /\ expired \in BOOLEAN
  /\ pc \in [Users -> {"idle", "route", "store", "scrape", "return", "recovered", "count"}]
  /\ kind \in [Users -> Kinds \cup {"none"}]
  /\ status \in [Users -> Codes] /\ wrote \in [Users -> BOOLEAN]
  /\ sent \in [Users -> Codes \cup {0}]
  /\ timeouts \in Nat /\ received \in 0..MaxRequests
  /\ delivered \in [Codes -> Nat] /\ before \in [Users -> [Codes -> Nat]]

\* A scrape shows every response that was complete before the scrape began, under the
\* status the client saw: no matter who creates the label's cell meanwhile, a client
\* that gets an answer and then reads /metrics finds it counted.
ScrapeShowsDelivered ==
  \A u \in Users : at[u] = "rendered" =>
    \A c \in Codes : before[u][c] > 0 => shown[u][c] >= before[u][c]

\* The status that is counted is the status the client gets, also when the handler
\* panics half-way, and nothing is delivered that is not counted; and every read the
\* timeout counter shows is a 503 some client got or gets.
CountedAsDelivered ==
  /\ \A c \in Codes :
       counted[c] = delivered[c] + Cardinality({u \in Users : at[u] = "counted" /\ Answer(u) = c})
  /\ timeouts <= delivered[503] + Cardinality({u \in Users : sent[u] = 503})

\* When main closes the store and exits, and the drain window was long enough, every
\* request that had begun has been answered.
DrainAnswers ==
  main \in {"close", "exit"} /\ ~expired => \A u \in Users : pc[u] = "idle"

\* After SIGTERM the process ends, even if the store never answers again.
SigtermEnds == signals > 0 ~> ~Alive

\* A request that is past the store is answered, whoever scrapes, unless the process
\* ends first.
HandledIsDelivered ==
  \A u \in Users : (pc[u] = "return") ~> (pc[u] = "idle" \/ ~Alive)
=============================================================================
