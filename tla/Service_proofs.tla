--------------------------- MODULE Service_proofs ---------------------------
(* Theorems about the counters, the handler and the shutdown of one process, *)
(* for any number of users, requests and signals.                            *)
EXTENDS Service, FiniteSetTheorems, TLAPS

\* The statuses the handler gives.
Statuses == {200, 202, 400, 404, 405, 413, 500, 503}

\* Where a user counts, and where it scrapes.
Counting == {"find", "lock", "create", "inc", "counted"}
Scraping == {"render", "rendered"}

\* Cells are numbered from 1 in the order they are made.
CellsNumbered ==
  /\ Cardinality(DOMAIN cells) \in Nat
  /\ cells \in [1..Cardinality(DOMAIN cells) -> Nat]

\* Every cached label has a cell, and no two labels have the same.
OwnCells ==
  /\ \A c \in Cached : series[c] # 0
  /\ \A c, d \in Codes : series[c] # 0 /\ series[c] = series[d] => c = d

\* A request is in With only when it counts, and in Render only when it scrapes.
Placed ==
  \A u \in Users :
    /\ pc[u] \in {"idle", "route", "store"} => at[u] = "out"
    /\ pc[u] = "scrape" => at[u] \in Scraping
    /\ pc[u] \in {"return", "recovered"} => at[u] \in {"out", "rendered"}
    /\ pc[u] = "count" => at[u] \in Counting

\* What statusWriter has noted is what the client gets.
AnswersNoted ==
  \A u \in Users :
    /\ status[u] \in Statuses /\ status[u] = Answer(u)
    /\ wrote[u] <=> sent[u] # 0
    /\ pc[u] \in {"idle", "route", "store"} => ~wrote[u]

\* A user counts under the status of its answer; the cell it increments is the
\* label's.
CountsInPlace ==
  \A u \in Users :
    /\ at[u] \in Counting => label[u] = status[u]
    /\ at[u] = "inc" => cell[u] = series[label[u]] /\ cell[u] # 0

\* Finitely many requests are in the process.
FinitelyMany == IsFiniteSet({u \in Users : pc[u] # "idle"})

\* The lock is held, or waited for, only inside With and Render, and whoever waits to
\* read waits for a writer.
LocksInUse ==
  /\ \A u \in Users : u \in readers \cup blocked <=> at[u] \in {"find", "render"}
  /\ readers \cap blocked = {}
  /\ \A u \in Users : pending = u <=> at[u] = "create"
  /\ blocked # {} => pending # nobody

\* What a scrape has shown, or has yet to show, is no less than what was complete
\* before it.
ScrapeSees ==
  \A u \in Users :
    /\ at[u] = "out" => shown[u] = Nothing
    /\ at[u] \in Scraping =>
         \A c \in Codes : before[u][c] > 0 =>
           /\ series[c] # 0 /\ before[u][c] <= counted[c]
           /\ shown[u][c] # -1 => shown[u][c] >= before[u][c]
           /\ at[u] = "rendered" => shown[u][c] # -1

\* Shutdown has returned before main goes on, and then nothing begins.
Draining ==
  /\ main \in {"close", "exit"} => term = "done"
  /\ term = "done" /\ ~expired => \A u \in Users : pc[u] = "idle"

Inv ==
  /\ TypeOK /\ CellsNumbered /\ OwnCells
  /\ Placed /\ AnswersNoted /\ CountsInPlace /\ FinitelyMany /\ LocksInUse
  /\ NoCountLost /\ CountedAsDelivered /\ ScrapeSees /\ Draining

\* The users CountedAsDelivered counts.
Answered(c) == {u \in Users : at[u] = "counted" /\ Answer(u) = c}
Refused == {u \in Users : sent[u] = 503}

-----------------------------------------------------------------------------
\* The statuses are labels, seven of them resolved at startup (statusCodes).
LEMMA StatusesAreLabels ==
  /\ Statuses \subseteq Codes /\ Codes \subseteq Nat
  /\ IsFiniteSet(Cached) /\ Cardinality(Cached) \in Nat
  /\ 200 \in Codes /\ 503 \in Codes /\ 0 \notin Statuses
<1>1. Statuses \subseteq Codes /\ Codes \subseteq Nat /\ 200 \in Codes /\ 503 \in Codes /\ 0 \notin Statuses
  BY CodesAssumption, StatusAssumption DEF Statuses, Codes
<1>2. PICK n \in Nat : n = 503
  OBVIOUS
<1>5. IsFiniteSet(0..n)
  BY FS_Interval
<1>6. Cached \in SUBSET (0..n)
  <2>1. \A c \in Cached : c \in 0..n
    BY <1>2, StatusAssumption
  <2> QED BY <2>1
<1>3. IsFiniteSet(Cached)
  BY ONLY <1>5, <1>6, FS_Subset
<1>4. Cardinality(Cached) \in Nat
  BY <1>3, FS_CardinalityType
<1> QED BY <1>1, <1>3, <1>4

\* The users that are counted here are among those the process has.
LEMMA CountedUsersAreFinite ==
  ASSUME Inv
  PROVE  /\ \A c : IsFiniteSet(Answered(c)) /\ Cardinality(Answered(c)) \in Nat
         /\ IsFiniteSet(Refused) /\ Cardinality(Refused) \in Nat
<1> DEFINE present == {u \in Users : pc[u] # "idle"}
<1>1. IsFiniteSet(present)
  BY DEF Inv, FinitelyMany
<1>2. \A c : Answered(c) \in SUBSET present
  BY DEF Inv, Placed, Answered
<1>3. Refused \in SUBSET present
  BY DEF Inv, AnswersNoted, Refused
<1> HIDE DEF present
<1>4. IsFiniteSet(Refused) /\ \A c : IsFiniteSet(Answered(c))
  BY ONLY <1>1, <1>2, <1>3, FS_Subset
<1> QED BY <1>4, FS_CardinalityType

-----------------------------------------------------------------------------
\* A fresh process satisfies the invariant (New, NewHandler, main).
LEMMA InitInv == Init => Inv
<1> SUFFICES ASSUME Init PROVE Inv
  OBVIOUS
<1> DEFINE N == Cardinality(Cached)
<1>1. PICK f \in [Cached -> 1..N] :
         /\ \A c, d \in Cached : c < d => f[c] < f[d]
         /\ series = [c \in Codes |-> IF c \in Cached THEN f[c] ELSE 0]
  BY DEF Init, MetricsInit
<1>2. N \in Nat /\ cells = [n \in 1..N |-> 0]
  BY StatusesAreLabels DEF Init, MetricsInit
<1>3. Cardinality(1..N) = N
  BY <1>2, FS_Interval
<1>4. /\ readers = {} /\ blocked = {} /\ pending = nobody
      /\ at = [u \in Users |-> "out"] /\ label = [u \in Users |-> 0] /\ cell = [u \in Users |-> 0]
      /\ shown = [u \in Users |-> Nothing] /\ counted = [c \in Codes |-> 0]
  BY DEF Init, MetricsInit
<1>5. /\ main = "start" /\ term = "start" /\ signals = 0 /\ expired = FALSE
      /\ pc = [u \in Users |-> "idle"] /\ kind = [u \in Users |-> "none"]
      /\ status = [u \in Users |-> 200] /\ wrote = [u \in Users |-> FALSE]
      /\ sent = [u \in Users |-> 0] /\ timeouts = 0 /\ received = 0
      /\ delivered = [c \in Codes |-> 0]
      /\ before = [u \in Users |-> [c \in Codes |-> 0]]
  BY DEF Init
<1> HIDE DEF N
<1>6. DOMAIN cells = 1..N /\ \A n \in 1..N : cells[n] = 0
  BY <1>2
<1>7. CellsNumbered
  BY <1>2, <1>3, <1>6 DEF CellsNumbered
<1>8. /\ series \in [Codes -> 1..N \cup {0}]
      /\ \A c \in Cached : series[c] = f[c] /\ f[c] \in 1..N
      /\ \A c \in Codes : c \notin Cached => series[c] = 0
  BY <1>1 DEF Codes
<1>9. OwnCells
  <2>1. ASSUME NEW c \in Cached, NEW d \in Cached, f[c] = f[d] PROVE c = d
    <3>1. c \in Nat /\ d \in Nat /\ f[c] \in Nat /\ f[d] \in Nat
      BY <1>2, <1>8, CodesAssumption
    <3>2. ~(f[c] < f[d]) /\ ~(f[d] < f[c])
      BY <2>1, <3>1
    <3>3. ~(c < d) /\ ~(d < c)
      BY <3>2, <1>1
    <3> QED BY ONLY <3>1, <3>3
  <2>2. \A c \in Cached : series[c] # 0
    BY <1>2, <1>8
  <2>3. \A c, d \in Codes : series[c] # 0 /\ series[c] = series[d] => c = d
    BY <2>1, <1>8
  <2> QED BY <2>2, <2>3 DEF OwnCells
<1>10. TypeOK
  <2>1. series \in [Codes -> DOMAIN cells \cup {0}] /\ \A n \in DOMAIN cells : cells[n] \in Nat
    BY <1>6, <1>8
  <2>2. MetricsTypeOK
    BY <1>4, <2>1 DEF MetricsTypeOK, Nothing
  <2>3. status \in [Users -> Codes]
    BY <1>5, StatusesAreLabels
  <2>4. signals \in 0..MaxSignals /\ received \in 0..MaxRequests /\ timeouts \in Nat
    BY <1>5, BoundsAssumption
  <2>5. /\ pc \in [Users -> {"idle", "route", "store", "scrape", "return", "recovered", "count"}]
        /\ kind \in [Users -> Kinds \cup {"none"}]
        /\ wrote \in [Users -> BOOLEAN] /\ sent \in [Users -> Codes \cup {0}]
        /\ delivered \in [Codes -> Nat] /\ before \in [Users -> [Codes -> Nat]]
    BY <1>5
  <2>6. main = "start" /\ term = "start" /\ expired = FALSE
    BY <1>5
  <2> QED BY <2>2, <2>3, <2>4, <2>5, <2>6 DEF TypeOK
<1>11. Placed /\ CountsInPlace /\ LocksInUse
  BY <1>4, <1>5, NobodyAssumption DEF Placed, CountsInPlace, LocksInUse, Counting, Scraping
<1>12. AnswersNoted
  BY <1>5 DEF AnswersNoted, Answer, Statuses
<1>13. FinitelyMany
  <2>1. {u \in Users : pc[u] # "idle"} = {}
    BY <1>5
  <2> QED BY ONLY <2>1, FS_EmptySet DEF FinitelyMany
<1>14. NoCountLost
  <2>1. \A c \in Codes : counted[c] = 0 /\ (series[c] # 0 => cells[series[c]] = 0)
    BY <1>4, <1>6, <1>8
  <2> QED BY ONLY <2>1 DEF NoCountLost
<1>15. CountedAsDelivered
  <2>1. \A c \in Codes : {u \in Users : at[u] = "counted" /\ Answer(u) = c} = {}
    BY <1>4
  <2>2. {u \in Users : sent[u] = 503} = {}
    BY <1>5
  <2>3. Cardinality({}) = 0 /\ delivered[503] = 0 /\ timeouts = 0
    BY <1>5, FS_EmptySet, StatusesAreLabels
  <2>4. \A c \in Codes : counted[c] = 0 /\ delivered[c] = 0
    BY <1>4, <1>5
  <2> QED BY ONLY <2>1, <2>2, <2>3, <2>4 DEF CountedAsDelivered
<1>16. ScrapeSees /\ Draining
  BY <1>4, <1>5 DEF ScrapeSees, Scraping, Draining
<1> QED BY <1>7, <1>9, <1>10, <1>11, <1>12, <1>13, <1>14, <1>15, <1>16 DEF Inv

-----------------------------------------------------------------------------
\* Steps of main and of its signal goroutine do not disturb a request.
LEMMA ProcessInv ==
  ASSUME Inv, Main \/ ListenFails \/ Sigterm \/ Gone
  PROVE  Inv'
<1>1. UNCHANGED handlerVars
  BY DEF Main, Serve, Notify, ShutdownStarts, WindowEnds, ShutdownEnds, ServeReturns,
         CloseStore, Exit, ListenFails, Sigterm, Gone, vars
<1> USE <1>1 DEF Inv, handlerVars, metricsVars, lockVars, requestVars, answerVars, historyVars
<1>2. TypeOK'
  <2>1. /\ main' \in {"start", "serve", "wait", "close", "exit", "killed"}
        /\ term' \in {"start", "notified", "drain", "done"}
        /\ signals' \in 0..MaxSignals /\ expired' \in BOOLEAN
    <3> USE DEF TypeOK
    <3>1. CASE Serve \/ ListenFails \/ ServeReturns \/ CloseStore \/ Exit
      BY <3>1 DEF Serve, ListenFails, ServeReturns, CloseStore, Exit
    <3>2. CASE Notify \/ ShutdownStarts \/ WindowEnds \/ ShutdownEnds
      BY <3>2 DEF Notify, ShutdownStarts, WindowEnds, ShutdownEnds
    <3>3. CASE Sigterm
      BY <3>3, BoundsAssumption DEF Sigterm
    <3>4. CASE Gone
      BY <3>4 DEF Gone, vars, processVars
    <3> QED BY <3>1, <3>2, <3>3, <3>4 DEF Main
  <2>2. MetricsTypeOK'
    BY DEF TypeOK, MetricsTypeOK
  <2> QED BY <2>1, <2>2 DEF TypeOK
<1>3. (CellsNumbered /\ OwnCells /\ Placed /\ CountsInPlace /\ FinitelyMany /\ LocksInUse)'
  BY DEF CellsNumbered, OwnCells, Placed, CountsInPlace, FinitelyMany, LocksInUse
<1>4. (AnswersNoted /\ NoCountLost /\ CountedAsDelivered /\ ScrapeSees)'
  BY DEF AnswersNoted, Answer, NoCountLost, CountedAsDelivered, ScrapeSees
<1>5. Draining'
  <2> USE DEF Draining
  <2>1. CASE Serve \/ ListenFails \/ ServeReturns \/ Sigterm
    BY <2>1 DEF Serve, ListenFails, ServeReturns, Sigterm, Alive
  <2>2. CASE Notify \/ ShutdownStarts \/ WindowEnds
    BY <2>2 DEF Notify, ShutdownStarts, WindowEnds, Alive
  <2>3. CASE ShutdownEnds
    BY <2>3 DEF ShutdownEnds, Drained, Alive
  <2>4. CASE CloseStore \/ Exit
    BY <2>4 DEF CloseStore, Exit, IdleClosed
  <2>5. CASE Gone
    BY <2>5 DEF Gone, vars, processVars
  <2> QED BY <2>1, <2>2, <2>3, <2>4, <2>5 DEF Main
<1> QED BY <1>2, <1>3, <1>4, <1>5

\* A request is read and begins, or asks the store (Receive, CallStore).
LEMMA BeginInv ==
  ASSUME Inv, NEW u \in Users, Receive(u) \/ CallStore(u)
  PROVE  Inv'
<1> USE DEF Inv
<1>1. /\ UNCHANGED <<series, cells, readers, blocked, pending, at, label, cell, shown, counted>>
      /\ UNCHANGED <<main, term, signals, expired, status, wrote, sent, timeouts, delivered, before>>
      /\ \/ pc[u] = "idle" /\ pc' = [pc EXCEPT ![u] = "route"] /\ main = "serve" /\ term # "done"
         \/ pc[u] = "route" /\ pc' = [pc EXCEPT ![u] = "store"]
  BY DEF Receive, CallStore, metricsVars, lockVars, processVars, answerVars, historyVars
<1>2. received' \in 0..MaxRequests /\ kind' \in [Users -> Kinds \cup {"none"}]
  <2>1. CASE Receive(u)
    BY <2>1, BoundsAssumption DEF Receive, TypeOK
  <2>2. CASE CallStore(u)
    BY <2>2 DEF CallStore, TypeOK
  <2> QED BY <2>1, <2>2
<1>3. /\ pc \in [Users -> {"idle", "route", "store", "scrape", "return", "recovered", "count"}]
      /\ pc' \in [Users -> {"idle", "route", "store", "scrape", "return", "recovered", "count"}]
  BY <1>1 DEF TypeOK
<1>4. TypeOK'
  <2>1. MetricsTypeOK'
    BY <1>1 DEF TypeOK, MetricsTypeOK
  <2> QED BY <2>1, <1>1, <1>2, <1>3 DEF TypeOK
<1>5. (CellsNumbered /\ OwnCells /\ CountsInPlace /\ LocksInUse /\ NoCountLost /\ ScrapeSees)'
  BY <1>1 DEF CellsNumbered, OwnCells, CountsInPlace, LocksInUse, NoCountLost, ScrapeSees
<1>6. CountedAsDelivered'
  BY <1>1 DEF CountedAsDelivered, Answer
<1>7. Placed' /\ AnswersNoted'
  BY <1>1, <1>3 DEF Placed, AnswersNoted, Answer
<1>8. FinitelyMany'
  <2>1. {v \in Users : pc'[v] # "idle"} = {v \in Users : pc[v] # "idle"} \cup {u}
    BY <1>1, <1>3
  <2> QED BY <2>1, FS_AddElement DEF FinitelyMany
<1>9. Draining'
  <2>1. pc[u] = "route" => ~(term = "done" /\ ~expired)
    BY DEF Draining
  <2> QED BY <2>1, <1>1, <1>3 DEF Draining
<1> QED BY <1>4, <1>5, <1>6, <1>7, <1>8, <1>9

\* What noting a status does to what is said of statuses.
Noted(u, code) ==
  /\ AnswersNoted'
  /\ status' \in [Users -> Codes] /\ wrote' \in [Users -> BOOLEAN]
  /\ sent' \in [Users -> Codes \cup {0}]
  /\ \A v \in Users : v # u => status'[v] = status[v] /\ sent'[v] = sent[v]
  /\ Cardinality(Refused') \in Nat /\ Cardinality(Refused') >= Cardinality(Refused)
  /\ ~wrote[u] /\ code = 503 => Cardinality(Refused') = Cardinality(Refused) + 1

\* The first status is noted and passed on; a later one changes nothing
\* (statusWriter.WriteHeader).
LEMMA HeaderNoted ==
  ASSUME Inv, NEW u \in Users, NEW code \in Statuses, WriteHeader(u, code),
         NEW at2 \in {"return", "recovered", "scrape"}, pc' = [pc EXCEPT ![u] = at2]
  PROVE  Noted(u, code)
<1> USE DEF Inv
<1>1. /\ status \in [Users -> Codes] /\ wrote \in [Users -> BOOLEAN]
      /\ sent \in [Users -> Codes \cup {0}]
      /\ pc \in [Users -> {"idle", "route", "store", "scrape", "return", "recovered", "count"}]
  BY DEF TypeOK
<1>2. code \in Codes /\ code # 0
  BY StatusesAreLabels
<1>3. /\ status' \in [Users -> Codes] /\ wrote' \in [Users -> BOOLEAN]
      /\ sent' \in [Users -> Codes \cup {0}]
  BY <1>1, <1>2 DEF WriteHeader
<1>4. /\ \A v \in Users : v # u => /\ status'[v] = status[v] /\ sent'[v] = sent[v]
                                /\ wrote'[v] = wrote[v] /\ pc'[v] = pc[v]
      /\ wrote'[u] /\ pc'[u] = at2
      /\ wrote[u] => status'[u] = status[u] /\ sent'[u] = sent[u]
      /\ ~wrote[u] => status'[u] = code /\ sent'[u] = code
  BY <1>1 DEF WriteHeader
<1>5. AnswersNoted'
  <2> SUFFICES ASSUME NEW v \in Users
               PROVE  /\ status'[v] \in Statuses /\ status'[v] = Answer(v)'
                      /\ wrote'[v] <=> sent'[v] # 0
                      /\ pc'[v] \in {"idle", "route", "store"} => ~wrote'[v]
    BY DEF AnswersNoted
  <2>1. /\ status[v] \in Statuses /\ status[v] = Answer(v) /\ (wrote[v] <=> sent[v] # 0)
        /\ pc[v] \in {"idle", "route", "store"} => ~wrote[v]
    BY DEF AnswersNoted
  <2> QED BY <2>1, <1>2, <1>4 DEF Answer
<1>6. IsFiniteSet(Refused) /\ Cardinality(Refused) \in Nat
  BY CountedUsersAreFinite
<1>7. /\ Refused' = Refused \/ Refused' = Refused \cup {u}
      /\ ~wrote[u] => u \notin Refused
      /\ ~wrote[u] /\ code = 503 => Refused' = Refused \cup {u}
  <2>1. ~wrote[u] => sent[u] = 0
    BY DEF AnswersNoted
  <2> QED BY <2>1, <1>4 DEF Refused
<1>8. /\ Cardinality(Refused') \in Nat /\ Cardinality(Refused') >= Cardinality(Refused)
      /\ ~wrote[u] /\ code = 503 => Cardinality(Refused') = Cardinality(Refused) + 1
  <2>1. Cardinality(Refused \cup {u})
          = IF u \in Refused THEN Cardinality(Refused) ELSE Cardinality(Refused) + 1
    BY <1>6, FS_AddElement
  <2>2. CASE Refused' = Refused
    BY ONLY <2>1, <2>2, <1>6, <1>7
  <2>3. CASE Refused' = Refused \cup {u}
    BY ONLY <2>1, <2>3, <1>6, <1>7
  <2> QED BY <2>2, <2>3, <1>7
<1> QED BY ONLY <1>3, <1>4, <1>5, <1>8 DEF Noted

\* The handler answers, or panics and answers 500 unless it has answered.
LEMMA AnswerInv ==
  ASSUME Inv, NEW u \in Users,
         AnswerAlone(u) \/ StoreSucceeds(u) \/ StoreFails(u) \/ Panic(u)
  PROVE  Inv'
<1> USE DEF Inv
<1>1. /\ UNCHANGED <<series, cells, readers, blocked, pending, at, label, cell, shown, counted>>
      /\ UNCHANGED <<main, term, signals, expired, kind, received, delivered, before>>
  BY DEF AnswerAlone, StoreSucceeds, StoreFails, Panic, metricsVars, lockVars, processVars,
         historyVars
<1>2. \E code \in Statuses :
         /\ WriteHeader(u, code)
         /\ \/ UNCHANGED timeouts
            \/ timeouts' = timeouts + 1 /\ code = 503 /\ pc[u] = "store"
  <2>1. CASE AnswerAlone(u)
    BY <2>1 DEF AnswerAlone, Statuses
  <2>2. CASE StoreSucceeds(u)
    BY <2>2 DEF StoreSucceeds, Statuses
  <2>3. CASE StoreFails(u)
    BY <2>3 DEF StoreFails, ReadStatus, CountsAsTimeout, Statuses
  <2>4. CASE Panic(u)
    <3>1. CASE wrote[u]
      <4>1. WriteHeader(u, 500)
        BY <2>4, <3>1 DEF Panic, PanicStatus, WriteHeader, TypeOK
      <4> QED BY <2>4, <4>1 DEF Panic, Statuses
    <3>2. CASE ~wrote[u]
      BY <2>4, <3>2 DEF Panic, PanicStatus, Statuses
    <3> QED BY <3>1, <3>2
  <2> QED BY <2>1, <2>2, <2>3, <2>4
<1>3. PICK code \in Statuses :
         /\ WriteHeader(u, code)
         /\ \/ UNCHANGED timeouts
            \/ timeouts' = timeouts + 1 /\ code = 503 /\ pc[u] = "store"
  BY <1>2
<1>4. PICK after \in {"return", "recovered"} : pc' = [pc EXCEPT ![u] = after]
  BY DEF AnswerAlone, StoreSucceeds, StoreFails, Panic
<1>5. /\ pc[u] \in {"route", "store", "return"} /\ at[u] \in {"out", "rendered"}
      /\ \A v \in Users : v # u => pc'[v] = pc[v]
      /\ pc'[u] = after
  BY <1>4 DEF AnswerAlone, StoreSucceeds, StoreFails, Panic, Placed, TypeOK
<1>6. Noted(u, code)
  <2>1. WriteHeader(u, code) /\ code \in Statuses
    BY <1>3
  <2>2. pc' = [pc EXCEPT ![u] = after] /\ after \in {"return", "recovered", "scrape"}
    BY <1>4
  <2> QED BY ONLY Inv, <2>1, <2>2, HeaderNoted
<1>7. timeouts' \in Nat /\ timeouts \in Nat
  BY <1>3 DEF TypeOK
<1>8. TypeOK'
  <2>1. MetricsTypeOK'
    BY <1>1 DEF TypeOK, MetricsTypeOK
  <2>2. pc' \in [Users -> {"idle", "route", "store", "scrape", "return", "recovered", "count"}]
    BY <1>4 DEF TypeOK
  <2> QED BY <2>1, <2>2, <1>1, <1>6, <1>7 DEF TypeOK, Noted
<1>9. (CellsNumbered /\ OwnCells /\ LocksInUse /\ NoCountLost /\ ScrapeSees)'
  BY <1>1 DEF CellsNumbered, OwnCells, LocksInUse, NoCountLost, ScrapeSees
<1>10. (Placed /\ CountsInPlace /\ Draining)'
  BY <1>1, <1>5, <1>6 DEF Placed, CountsInPlace, Counting, Draining, Noted
<1>11. FinitelyMany'
  <2>1. {v \in Users : pc'[v] # "idle"} = {v \in Users : pc[v] # "idle"}
    BY <1>5
  <2> QED BY <2>1 DEF FinitelyMany
<1>12. CountedAsDelivered'
  <2>1. \A c : Answered(c)' = Answered(c)
    BY <1>1, <1>5, <1>6 DEF Answered, Answer, Noted
  <2>2. (timeouts <= delivered[503] + Cardinality(Refused))'
    <3>1. timeouts <= delivered[503] + Cardinality(Refused)
      BY DEF CountedAsDelivered, Refused
    <3>2. Cardinality(Refused) \in Nat /\ delivered[503] \in Nat
      BY CountedUsersAreFinite, StatusesAreLabels DEF TypeOK
    <3>3. pc[u] = "store" => ~wrote[u]
      BY DEF AnswersNoted
    <3> QED BY <3>1, <3>2, <3>3, <1>1, <1>3, <1>6, <1>7 DEF Noted
  <2> QED BY <2>1, <2>2, <1>1 DEF CountedAsDelivered, Answered, Refused
<1> QED BY <1>6, <1>8, <1>9, <1>10, <1>11, <1>12 DEF Noted

-----------------------------------------------------------------------------
\* The places a user can be in.
AtType == [Users -> {"out", "find", "lock", "create", "inc", "counted", "render", "rendered"}]

\* A user that asks for the read lock has it, or waits for the writer that is there.
LEMMA RLockKept ==
  ASSUME LocksInUse, at \in AtType, readers \subseteq Users, blocked \subseteq Users,
         NEW u \in Users, RLock(u), at[u] \notin {"find", "render", "create"},
         NEW place \in {"find", "render"}, at' = [at EXCEPT ![u] = place]
  PROVE  /\ LocksInUse' /\ pending' = pending
         /\ readers' \subseteq Users /\ blocked' \subseteq Users
<1>1. /\ at'[u] = place /\ \A v \in Users : v # u => at'[v] = at[v]
      /\ u \notin readers /\ u \notin blocked /\ pending # u
  BY DEF AtType, LocksInUse
<1>2. CASE pending = nobody
  <2>1. readers' = readers \cup {u} /\ blocked' = blocked /\ pending' = pending
    BY <1>2 DEF RLock
  <2> QED BY <1>1, <2>1 DEF LocksInUse
<1>3. CASE pending # nobody
  <2>1. blocked' = blocked \cup {u} /\ readers' = readers /\ pending' = pending
    BY <1>3 DEF RLock
  <2> QED BY <1>1, <1>3, <2>1 DEF LocksInUse
<1> QED BY <1>2, <1>3

\* A user that gives the read lock back leaves the others as they are.
LEMMA RUnlockKept ==
  ASSUME LocksInUse, at \in AtType, readers \subseteq Users, blocked \subseteq Users,
         NEW u \in readers, RUnlock(u),
         NEW place \in {"inc", "lock", "rendered"}, at' = [at EXCEPT ![u] = place]
  PROVE  /\ LocksInUse' /\ pending' = pending
         /\ readers' \subseteq Users /\ blocked' \subseteq Users
<1>1. /\ u \in Users /\ at[u] \in {"find", "render"} /\ u \notin blocked /\ pending # u
      /\ at'[u] = place /\ \A v \in Users : v # u => at'[v] = at[v]
  BY DEF AtType, LocksInUse
<1>2. readers' = readers \ {u} /\ blocked' = blocked /\ pending' = pending
  BY DEF RUnlock
<1> QED BY <1>1, <1>2 DEF LocksInUse

\* A scrape begins: all that is complete has been counted.
LEMMA ScrapeStartsInv ==
  ASSUME Inv, NEW u \in Users, ScrapeStarts(u)
  PROVE  Inv'
<1> USE DEF Inv
<1>1. /\ UNCHANGED <<series, cells, label, cell, shown, counted>>
      /\ UNCHANGED <<main, term, signals, expired, kind, timeouts, received, delivered>>
      /\ WriteHeader(u, 200) /\ RLock(u)
      /\ at' = [at EXCEPT ![u] = "render"] /\ before' = [before EXCEPT ![u] = delivered]
      /\ pc[u] = "route" /\ pc' = [pc EXCEPT ![u] = "scrape"]
  BY DEF ScrapeStarts, Scrape, processVars
<1>2. at \in AtType /\ readers \subseteq Users /\ blocked \subseteq Users /\ at[u] = "out"
  BY <1>1 DEF TypeOK, MetricsTypeOK, AtType, Placed
<1>3. /\ at'[u] = "render" /\ pc'[u] = "scrape" /\ before'[u] = delivered
      /\ \A v \in Users : v # u => at'[v] = at[v] /\ pc'[v] = pc[v] /\ before'[v] = before[v]
  BY <1>1, <1>2 DEF TypeOK, AtType
<1>4. Noted(u, 200)
  <2>1. 200 \in Statuses
    BY DEF Statuses
  <2> QED BY ONLY Inv, <1>1, <2>1, HeaderNoted
<1>5. /\ LocksInUse' /\ pending' = pending
      /\ readers' \subseteq Users /\ blocked' \subseteq Users
  BY ONLY Inv, <1>1, <1>2, RLockKept DEF Inv
<1>6. TypeOK'
  <2>1. MetricsTypeOK'
    BY <1>1, <1>2, <1>5 DEF TypeOK, MetricsTypeOK, AtType
  <2>2. /\ pc' \in [Users -> {"idle", "route", "store", "scrape", "return", "recovered", "count"}]
        /\ before' \in [Users -> [Codes -> Nat]]
    BY <1>1 DEF TypeOK
  <2> QED BY <2>1, <2>2, <1>1, <1>4 DEF TypeOK, Noted
<1>7. (CellsNumbered /\ OwnCells /\ NoCountLost)'
  BY <1>1 DEF CellsNumbered, OwnCells, NoCountLost
<1>8. (Placed /\ CountsInPlace /\ Draining)'
  BY <1>1, <1>3, <1>4 DEF Placed, CountsInPlace, Counting, Scraping, Draining, Noted
<1>9. FinitelyMany'
  <2>1. {v \in Users : pc'[v] # "idle"} = {v \in Users : pc[v] # "idle"}
    BY <1>1, <1>3
  <2> QED BY <2>1 DEF FinitelyMany
<1>10. CountedAsDelivered'
  <2>1. \A c : Answered(c)' = Answered(c)
    BY <1>2, <1>3, <1>4 DEF Answered, Answer, Noted
  <2>2. (timeouts <= delivered[503] + Cardinality(Refused))'
    <3>1. timeouts <= delivered[503] + Cardinality(Refused)
      BY DEF CountedAsDelivered, Refused
    <3>2. Cardinality(Refused) \in Nat /\ delivered[503] \in Nat /\ timeouts \in Nat
      BY CountedUsersAreFinite, StatusesAreLabels DEF TypeOK
    <3> QED BY <3>1, <3>2, <1>1, <1>4 DEF Noted
  <2> QED BY <2>1, <2>2, <1>1 DEF CountedAsDelivered, Answered, Refused
<1>11. \A c \in Codes : delivered[c] > 0 => series[c] # 0 /\ delivered[c] <= counted[c]
  <2> SUFFICES ASSUME NEW c \in Codes, delivered[c] > 0
               PROVE  series[c] # 0 /\ delivered[c] <= counted[c]
    OBVIOUS
  <2>1. counted[c] = delivered[c] + Cardinality(Answered(c))
    BY DEF CountedAsDelivered, Answered
  <2>2. Cardinality(Answered(c)) \in Nat /\ delivered[c] \in Nat
    BY CountedUsersAreFinite DEF TypeOK
  <2>3. counted[c] > 0 /\ delivered[c] <= counted[c]
    BY ONLY <2>1, <2>2, delivered[c] > 0
  <2> QED BY <2>3 DEF NoCountLost
<1>12. ScrapeSees'
  <2>1. shown[u] = Nothing
    BY <1>2 DEF ScrapeSees
  <2>2. \A c \in Codes : shown[u][c] = -1
    BY <2>1 DEF Nothing
  <2> QED BY <2>2, <1>1, <1>3, <1>11 DEF ScrapeSees, Scraping
<1> QED BY <1>4, <1>5, <1>6, <1>7, <1>8, <1>9, <1>10, <1>12 DEF Noted

\* The scrape is written and ServeHTTP goes on to count it.
LEMMA ScrapeEndsInv ==
  ASSUME Inv, NEW u \in Users, ScrapeEnds(u)
  PROVE  Inv'
<1> USE DEF Inv
<1>1. /\ UNCHANGED <<series, cells, readers, blocked, pending, at, label, cell, shown, counted>>
      /\ UNCHANGED <<main, term, signals, expired, kind, status, wrote, sent, timeouts, received,
                     delivered, before>>
      /\ pc[u] = "scrape" /\ at[u] = "rendered" /\ pc' = [pc EXCEPT ![u] = "return"]
  BY DEF ScrapeEnds, metricsVars, lockVars, processVars, answerVars, historyVars
<1>2. /\ pc'[u] = "return" /\ \A v \in Users : v # u => pc'[v] = pc[v]
      /\ pc' \in [Users -> {"idle", "route", "store", "scrape", "return", "recovered", "count"}]
  BY <1>1 DEF TypeOK
<1>3. TypeOK'
  <2>1. MetricsTypeOK'
    BY <1>1 DEF TypeOK, MetricsTypeOK
  <2> QED BY <2>1, <1>1, <1>2 DEF TypeOK
<1>4. (CellsNumbered /\ OwnCells /\ CountsInPlace /\ LocksInUse /\ NoCountLost /\ ScrapeSees)'
  BY <1>1 DEF CellsNumbered, OwnCells, CountsInPlace, LocksInUse, NoCountLost, ScrapeSees
<1>5. CountedAsDelivered'
  BY <1>1 DEF CountedAsDelivered, Answer
<1>6. Placed' /\ AnswersNoted' /\ Draining'
  BY <1>1, <1>2 DEF Placed, AnswersNoted, Answer, Draining
<1>7. FinitelyMany'
  <2>1. {v \in Users : pc'[v] # "idle"} = {v \in Users : pc[v] # "idle"}
    BY <1>1, <1>2
  <2> QED BY <2>1 DEF FinitelyMany
<1> QED BY <1>3, <1>4, <1>5, <1>6, <1>7

\* countStatus takes the cell it has, or looks for it under the read lock.
LEMMA CountStatusInv ==
  ASSUME Inv, NEW u \in Users, CountStatus(u)
  PROVE  Inv'
<1> USE DEF Inv
<1> DEFINE c == status[u]
<1>1. /\ UNCHANGED <<series, cells, shown, counted>>
      /\ UNCHANGED <<main, term, signals, expired, kind, status, wrote, sent, timeouts, received,
                     delivered, before>>
      /\ pc[u] \in {"return", "recovered"} /\ pc' = [pc EXCEPT ![u] = "count"]
      /\ label' = [label EXCEPT ![u] = c]
      /\ Count(u, c)
  BY DEF CountStatus, Count, processVars, answerVars, historyVars
<1>2. /\ c \in Statuses /\ c \in Codes /\ at[u] \in {"out", "rendered"}
      /\ at \in AtType /\ readers \subseteq Users /\ blocked \subseteq Users
  <2>1. c \in Statuses /\ at[u] \in {"out", "rendered"}
    BY <1>1 DEF AnswersNoted, Placed
  <2> QED BY <2>1, StatusesAreLabels DEF TypeOK, MetricsTypeOK, AtType
<1> HIDE DEF c
<1>3. /\ pc'[u] = "count" /\ label'[u] = c
      /\ \A v \in Users : v # u => pc'[v] = pc[v] /\ label'[v] = label[v]
      /\ pc' \in [Users -> {"idle", "route", "store", "scrape", "return", "recovered", "count"}]
      /\ label' \in [Users -> Codes \cup {0}]
  BY <1>1, <1>2 DEF TypeOK, MetricsTypeOK
<1>4. PICK place \in {"inc", "find"} :
        /\ at' = [at EXCEPT ![u] = place]
        /\ LocksInUse' /\ pending' = pending
        /\ readers' \subseteq Users /\ blocked' \subseteq Users
        /\ cell' \in [Users -> DOMAIN cells \cup {0}]
        /\ \A v \in Users : v # u => cell'[v] = cell[v]
        /\ place = "inc" => cell'[u] = series[c] /\ series[c] # 0
  <2>1. CASE c \in Cached
    <3>1. /\ at' = [at EXCEPT ![u] = "inc"] /\ cell' = [cell EXCEPT ![u] = series[c]]
          /\ UNCHANGED <<readers, blocked, pending>>
      BY <2>1, <1>1 DEF Count, lockVars
    <3>2. series[c] # 0 /\ series[c] \in DOMAIN cells
      BY <2>1, <1>2 DEF OwnCells, TypeOK, MetricsTypeOK
    <3>3. cell' \in [Users -> DOMAIN cells \cup {0}] /\ cell'[u] = series[c]
          /\ \A v \in Users : v # u => cell'[v] = cell[v]
      BY <3>1, <3>2 DEF TypeOK, MetricsTypeOK
    <3>4. LocksInUse'
      BY <3>1, <1>2 DEF LocksInUse, AtType
    <3> QED BY <3>1, <3>2, <3>3, <3>4, <1>2
  <2>2. CASE c \notin Cached
    <3>1. at' = [at EXCEPT ![u] = "find"] /\ RLock(u) /\ cell' = cell
      BY <2>2, <1>1 DEF Count
    <3>2. /\ LocksInUse' /\ pending' = pending
          /\ readers' \subseteq Users /\ blocked' \subseteq Users
      BY ONLY Inv, <1>2, <3>1, RLockKept DEF Inv
    <3>3. cell' \in [Users -> DOMAIN cells \cup {0}]
      BY <3>1 DEF TypeOK, MetricsTypeOK
    <3> QED BY <3>1, <3>2, <3>3
  <2> QED BY <2>1, <2>2
<1>5. /\ at'[u] = place /\ \A v \in Users : v # u => at'[v] = at[v]
      /\ at' \in AtType
  BY <1>2, <1>4 DEF AtType
<1>6. TypeOK'
  <2>1. MetricsTypeOK'
    BY <1>1, <1>3, <1>4, <1>5 DEF TypeOK, MetricsTypeOK, AtType
  <2> QED BY <2>1, <1>1, <1>3 DEF TypeOK
<1>7. (CellsNumbered /\ OwnCells /\ NoCountLost)'
  BY <1>1 DEF CellsNumbered, OwnCells, NoCountLost
<1>8. Placed' /\ AnswersNoted' /\ Draining'
  BY <1>1, <1>3, <1>5 DEF Placed, AnswersNoted, Answer, Draining, Counting, Scraping
<1>9. CountsInPlace'
  BY <1>1, <1>3, <1>4, <1>5 DEF CountsInPlace, c
<1>10. FinitelyMany'
  <2>1. {v \in Users : pc'[v] # "idle"} = {v \in Users : pc[v] # "idle"}
    BY <1>1, <1>3
  <2> QED BY <2>1 DEF FinitelyMany
<1>11. CountedAsDelivered'
  <2>1. \A d : Answered(d)' = Answered(d)
    BY <1>1, <1>2, <1>5 DEF Answered, Answer
  <2> QED BY <2>1, <1>1 DEF CountedAsDelivered, Answered
<1>12. ScrapeSees'
  BY <1>1, <1>5 DEF ScrapeSees, Scraping
<1> QED BY <1>4, <1>6, <1>7, <1>8, <1>9, <1>10, <1>11, <1>12

-----------------------------------------------------------------------------
\* The part of the invariant that a step of With, Inc or Render can disturb.
MetricsInv ==
  /\ MetricsTypeOK /\ CellsNumbered /\ OwnCells /\ Placed /\ CountsInPlace /\ LocksInUse
  /\ NoCountLost /\ CountedAsDelivered /\ ScrapeSees

\* The variables of the handler that such a step leaves alone.
HandlerStands == UNCHANGED <<processVars, requestVars, timeouts, received, historyVars>>

\* With looks for the label under the read lock.
LEMMA FindInv ==
  ASSUME Inv, NEW u \in Users, Find(u), HandlerStands
  PROVE  MetricsInv'
<1> USE DEF Inv
<1> DEFINE c == label[u]
<1>1. /\ UNCHANGED <<series, cells, label, shown, counted>>
      /\ UNCHANGED <<pc, status, wrote, sent, timeouts, delivered, before>>
      /\ at[u] = "find" /\ u \in readers /\ RUnlock(u)
      /\ at' = [at EXCEPT ![u] = IF series[c] # 0 THEN "inc" ELSE "lock"]
      /\ cell' = [cell EXCEPT ![u] = series[c]]
  BY DEF Find, HandlerStands, requestVars, answerVars, historyVars
<1>2. /\ c \in Codes /\ series[c] \in DOMAIN cells \cup {0}
      /\ at \in AtType /\ readers \subseteq Users /\ blocked \subseteq Users
  <2>1. c \in Codes
    <3>1. c = status[u]
      BY <1>1 DEF CountsInPlace, Counting
    <3>2. status[u] \in Statuses
      BY DEF AnswersNoted
    <3> QED BY ONLY <3>1, <3>2, StatusesAreLabels
  <2> QED BY <2>1 DEF TypeOK, MetricsTypeOK, AtType
<1> HIDE DEF c
<1>3. PICK place \in {"inc", "lock"} :
        at' = [at EXCEPT ![u] = place] /\ (place = "inc" => series[c] # 0)
  BY <1>1
<1>4. /\ LocksInUse' /\ pending' = pending
      /\ readers' \subseteq Users /\ blocked' \subseteq Users
  BY ONLY Inv, <1>1, <1>2, <1>3, RUnlockKept DEF Inv
<1>5. /\ at'[u] = place /\ at' \in AtType /\ cell'[u] = series[c]
      /\ cell' \in [Users -> DOMAIN cells \cup {0}]
      /\ \A v \in Users : v # u => at'[v] = at[v] /\ cell'[v] = cell[v]
  BY <1>1, <1>2, <1>3 DEF AtType, TypeOK, MetricsTypeOK
<1>6. MetricsTypeOK'
  BY <1>1, <1>4, <1>5 DEF TypeOK, MetricsTypeOK, AtType
<1>7. (CellsNumbered /\ OwnCells /\ NoCountLost)'
  BY <1>1 DEF CellsNumbered, OwnCells, NoCountLost
<1>8. Placed' /\ CountsInPlace'
  BY <1>1, <1>3, <1>5 DEF Placed, CountsInPlace, Counting, Scraping, c
<1>9. CountedAsDelivered'
  <2>1. \A d : Answered(d)' = Answered(d)
    BY <1>1, <1>5 DEF Answered, Answer
  <2> QED BY <2>1, <1>1 DEF CountedAsDelivered, Answered
<1>10. ScrapeSees'
  BY <1>1, <1>5 DEF ScrapeSees, Scraping
<1> QED BY <1>4, <1>6, <1>7, <1>8, <1>9, <1>10 DEF MetricsInv

\* With announces that it wants to write.
LEMMA LockInv ==
  ASSUME Inv, NEW u \in Users, Lock(u), HandlerStands
  PROVE  MetricsInv'
<1> USE DEF Inv
<1>1. /\ UNCHANGED <<series, cells, readers, blocked, label, cell, shown, counted>>
      /\ UNCHANGED <<pc, status, wrote, sent, timeouts, delivered, before>>
      /\ at[u] = "lock" /\ at' = [at EXCEPT ![u] = "create"]
      /\ pending = nobody /\ pending' = u
  BY DEF Lock, HandlerStands, requestVars, answerVars, historyVars
<1>2. /\ at'[u] = "create" /\ at' \in AtType
      /\ \A v \in Users : v # u => at'[v] = at[v]
  BY <1>1 DEF AtType, TypeOK, MetricsTypeOK
<1>3. MetricsTypeOK'
  BY <1>1, <1>2 DEF TypeOK, MetricsTypeOK, AtType
<1>4. (CellsNumbered /\ OwnCells /\ NoCountLost)'
  BY <1>1 DEF CellsNumbered, OwnCells, NoCountLost
<1>5. (Placed /\ CountsInPlace /\ LocksInUse)'
  BY <1>1, <1>2, NobodyAssumption DEF Placed, CountsInPlace, LocksInUse, Counting, Scraping
<1>6. CountedAsDelivered'
  <2>1. \A d : Answered(d)' = Answered(d)
    BY <1>1, <1>2 DEF Answered, Answer
  <2> QED BY <2>1, <1>1 DEF CountedAsDelivered, Answered
<1>7. ScrapeSees'
  BY <1>1, <1>2 DEF ScrapeSees, Scraping
<1> QED BY <1>3, <1>4, <1>5, <1>6, <1>7 DEF MetricsInv

\* With makes a cell for the label unless it has one by now.
LEMMA CreateInv ==
  ASSUME Inv, NEW u \in Users, Create(u), HandlerStands
  PROVE  MetricsInv'
<1> USE DEF Inv
<1> DEFINE c == label[u]
           n == Cardinality(DOMAIN cells)
<1>1. /\ UNCHANGED <<label, shown, counted>>
      /\ UNCHANGED <<pc, status, wrote, sent, timeouts, delivered, before>>
      /\ at[u] = "create" /\ at' = [at EXCEPT ![u] = "inc"]
      /\ cell' = [cell EXCEPT ![u] = series'[c]]
      /\ readers = {} /\ pending' = nobody /\ readers' = blocked /\ blocked' = {}
  BY DEF Create, Unlock, HandlerStands, requestVars, answerVars, historyVars
<1>2. /\ c \in Codes /\ n \in Nat /\ cells \in [1..n -> Nat]
      /\ series \in [Codes -> 1..n \cup {0}]
      /\ at \in AtType /\ blocked \subseteq Users /\ pending = u
  <2>1. c \in Codes /\ pending = u
    BY <1>1, StatusesAreLabels DEF CountsInPlace, AnswersNoted, Counting, LocksInUse
  <2>2. n \in Nat /\ cells \in [1..n -> Nat]
    BY DEF CellsNumbered
  <2>3. DOMAIN cells = 1..n
    BY <2>2
  <2> HIDE DEF c, n
  <2> QED BY <2>1, <2>2, <2>3 DEF TypeOK, MetricsTypeOK, AtType
<1>3. \/ /\ series[c] = 0
         /\ cells' = [m \in 1..n + 1 |-> IF m \in 1..n THEN cells[m] ELSE 0]
         /\ series' = [series EXCEPT ![c] = n + 1]
      \/ series[c] # 0 /\ UNCHANGED <<series, cells>>
  <2>1. DOMAIN cells = 1..n
    BY <1>2
  <2> QED BY <2>1 DEF Create, Missing
<1> HIDE DEF c, n
<1>4. PICK k \in Nat : /\ cells' \in [1..k -> Nat] /\ n <= k
                       /\ \A m \in 1..n : cells'[m] = cells[m]
                       /\ series' \in [Codes -> 1..k \cup {0}] /\ series'[c] # 0
                       /\ \A d \in Codes : d # c => series'[d] = series[d]
                       /\ series[c] # 0 => series'[c] = series[c]
                       /\ series[c] = 0 => series'[c] \notin 1..n /\ cells'[series'[c]] = 0
  <2>1. CASE series[c] = 0
    <3>1. /\ cells' = [m \in 1..n + 1 |-> IF m \in 1..n THEN cells[m] ELSE 0]
          /\ series' = [series EXCEPT ![c] = n + 1]
      BY <2>1, <1>3
    <3>2. n + 1 \in Nat /\ n <= n + 1 /\ n + 1 \in 1..n + 1 /\ n + 1 \notin 1..n
          /\ \A m \in 1..n : m \in 1..n + 1
      BY <1>2
    <3>3. /\ cells' \in [1..n + 1 -> Nat] /\ cells'[n + 1] = 0
          /\ \A m \in 1..n : cells'[m] = cells[m]
      BY <3>1, <3>2, <1>2
    <3>4. /\ series' \in [Codes -> 1..n + 1 \cup {0}] /\ series'[c] = n + 1
          /\ \A d \in Codes : d # c => series'[d] = series[d]
      BY <3>1, <3>2, <1>2
    <3>5. n + 1 # 0
      BY <1>2
    <3> QED BY <2>1, <3>2, <3>3, <3>4, <3>5
  <2>2. CASE series[c] # 0
    BY <2>2, <1>2, <1>3
  <2> QED BY <2>1, <2>2
<1>5. /\ DOMAIN cells' = 1..k /\ Cardinality(DOMAIN cells') = k
      /\ \A m \in DOMAIN cells' : cells'[m] \in Nat
      /\ 1..n \subseteq 1..k
  <2>1. DOMAIN cells' = 1..k /\ \A m \in 1..k : cells'[m] \in Nat
    BY <1>4
  <2>2. Cardinality(1..k) = k
    BY FS_Interval
  <2>3. 1..n \subseteq 1..k
    BY <1>2, <1>4
  <2> QED BY <2>1, <2>2, <2>3
<1>6. /\ at'[u] = "inc" /\ at' \in AtType /\ cell'[u] = series'[c]
      /\ \A v \in Users : v # u => at'[v] = at[v] /\ cell'[v] = cell[v]
  BY <1>1, <1>2 DEF AtType, TypeOK, MetricsTypeOK
<1>7. MetricsTypeOK'
  <2>1. cell \in [Users -> 1..n \cup {0}]
    BY <1>2 DEF TypeOK, MetricsTypeOK
  <2>2. cell' \in [Users -> 1..k \cup {0}]
    <3>1. series'[c] \in 1..k \cup {0}
      BY <1>2, <1>4
    <3> QED BY <3>1, <2>1, <1>1, <1>5
  <2> QED BY <2>2, <1>1, <1>2, <1>4, <1>5, <1>6 DEF TypeOK, MetricsTypeOK, AtType
<1>8. CellsNumbered'
  BY <1>4, <1>5 DEF CellsNumbered
<1>9. OwnCells'
  <2>1. \A d \in Cached : series'[d] # 0
    BY <1>4 DEF OwnCells, Codes
  <2>2. ASSUME NEW d \in Codes, series'[c] = series'[d], d # c PROVE FALSE
    <3>1. series'[d] = series[d] /\ series[d] \in 1..n \cup {0}
      BY <2>2, <1>2, <1>4
    <3>2. series[c] # 0
      BY <2>2, <3>1, <1>4
    <3> QED BY <2>2, <3>1, <3>2, <1>2, <1>4 DEF OwnCells
  <2> QED BY <2>1, <2>2, <1>4 DEF OwnCells
<1>10. Placed'
  BY <1>1, <1>6 DEF Placed, Counting, Scraping
<1>11. CountsInPlace'
  <2> SUFFICES ASSUME NEW v \in Users
               PROVE  /\ at'[v] \in Counting => label'[v] = status'[v]
                      /\ at'[v] = "inc" => cell'[v] = series'[label'[v]] /\ cell'[v] # 0
    BY DEF CountsInPlace
  <2>1. /\ at[v] \in Counting => label[v] = status[v]
        /\ at[v] = "inc" => cell[v] = series[label[v]] /\ cell[v] # 0
    BY DEF CountsInPlace
  <2>2. CASE v = u
    BY <2>1, <2>2, <1>1, <1>4, <1>6 DEF Counting, c
  <2>3. CASE v # u
    <3>1. at[v] = "inc" => label[v] \in Codes
      BY <2>1, StatusesAreLabels DEF AnswersNoted, Counting
    <3> QED BY <2>1, <2>3, <3>1, <1>1, <1>4, <1>6
  <2> QED BY <2>2, <2>3
<1>12. LocksInUse'
  BY <1>1, <1>2, <1>6, NobodyAssumption DEF LocksInUse
<1>13. NoCountLost'
  <2> SUFFICES ASSUME NEW d \in Codes
               PROVE  counted'[d] = IF series'[d] = 0 THEN 0 ELSE cells'[series'[d]]
    BY DEF NoCountLost
  <2>1. counted[d] = IF series[d] = 0 THEN 0 ELSE cells[series[d]]
    BY DEF NoCountLost
  <2>2. series[d] \in 1..n \cup {0}
    BY <1>2
  <2> QED BY <2>1, <2>2, <1>1, <1>4
<1>14. CountedAsDelivered'
  <2>1. \A d : Answered(d)' = Answered(d)
    BY <1>1, <1>6 DEF Answered, Answer
  <2> QED BY <2>1, <1>1 DEF CountedAsDelivered, Answered
<1>15. ScrapeSees'
  <2>1. \A d \in Codes : series[d] # 0 => series'[d] # 0
    BY <1>4
  <2> QED BY <2>1, <1>1, <1>6 DEF ScrapeSees, Scraping
<1> QED BY <1>7, <1>8, <1>9, <1>10, <1>11, <1>12, <1>13, <1>14, <1>15 DEF MetricsInv

\* Inc adds one to the cell of the label, and to no other label's.
LEMMA IncInv ==
  ASSUME Inv, NEW u \in Users, Inc(u), HandlerStands
  PROVE  MetricsInv'
<1> USE DEF Inv
<1> DEFINE k == cell[u]
<1>12. PICK c : c = label[u]
  OBVIOUS
<1>1. /\ UNCHANGED <<series, readers, blocked, pending, label, cell, shown>>
      /\ UNCHANGED <<pc, status, wrote, sent, timeouts, delivered, before>>
      /\ at[u] = "inc" /\ at' = [at EXCEPT ![u] = "counted"]
      /\ cells' = [cells EXCEPT ![k] = @ + 1]
      /\ counted' = [counted EXCEPT ![c] = @ + 1]
  BY <1>12 DEF Inc, lockVars, HandlerStands, requestVars, answerVars, historyVars
<1>2. /\ c \in Codes /\ k = series[c] /\ k # 0 /\ k \in DOMAIN cells
      /\ c = Answer(u)
      /\ at \in AtType /\ counted \in [Codes -> Nat]
  <2>1. c \in Codes /\ k = series[c] /\ k # 0 /\ c = Answer(u)
    <3>1. c = status[u] /\ k = series[c] /\ k # 0
      BY <1>1, <1>12 DEF CountsInPlace, Counting
    <3>2. status[u] \in Statuses /\ status[u] = Answer(u)
      BY DEF AnswersNoted
    <3> QED BY ONLY <3>1, <3>2, StatusesAreLabels
  <2> QED BY <2>1 DEF TypeOK, MetricsTypeOK, AtType
<1> HIDE DEF k
<1>3. /\ at'[u] = "counted" /\ at' \in AtType
      /\ \A v \in Users : v # u => at'[v] = at[v]
  BY <1>1, <1>2 DEF AtType
<1>4. /\ cells[k] \in Nat /\ cells'[k] = cells[k] + 1 /\ DOMAIN cells' = DOMAIN cells
      /\ \A m \in DOMAIN cells : m # k => cells'[m] = cells[m]
      /\ \A m \in DOMAIN cells : cells[m] \in Nat
  BY <1>1, <1>2 DEF TypeOK, MetricsTypeOK, CellsNumbered
<1>5. /\ counted' \in [Codes -> Nat] /\ counted'[c] = counted[c] + 1 /\ counted[c] \in Nat
      /\ \A d \in Codes : d # c => counted'[d] = counted[d]
  BY <1>1, <1>2
<1>6. MetricsTypeOK'
  BY <1>1, <1>3, <1>4, <1>5 DEF TypeOK, MetricsTypeOK, AtType
<1>7. CellsNumbered'
  <2>1. cells' \in [DOMAIN cells -> Nat]
    BY <1>1, <1>4 DEF CellsNumbered
  <2> QED BY <2>1, <1>4 DEF CellsNumbered
<1>8. (OwnCells /\ Placed /\ CountsInPlace /\ LocksInUse)'
  BY <1>1, <1>3 DEF OwnCells, Placed, CountsInPlace, LocksInUse, Counting, Scraping
<1>9. NoCountLost'
  <2> SUFFICES ASSUME NEW d \in Codes
               PROVE  counted'[d] = IF series[d] = 0 THEN 0 ELSE cells'[series[d]]
    BY <1>1 DEF NoCountLost
  <2>1. /\ counted[d] = IF series[d] = 0 THEN 0 ELSE cells[series[d]]
        /\ series[d] \in DOMAIN cells \cup {0}
    BY DEF NoCountLost, TypeOK, MetricsTypeOK
  <2>2. CASE d = c
    BY <2>1, <2>2, <1>2, <1>4, <1>5
  <2>3. CASE d # c
    <3>1. series[d] = 0 \/ series[d] # k
      BY <2>3, <1>2 DEF OwnCells
    <3> QED BY <2>1, <2>3, <3>1, <1>4, <1>5
  <2> QED BY <2>2, <2>3
<1>10. CountedAsDelivered'
  <2>1. Answered(c)' = Answered(c) \cup {u} /\ u \notin Answered(c)
    BY <1>1, <1>2, <1>3 DEF Answered, Answer
  <2>2. \A d : d # c => Answered(d)' = Answered(d)
    BY <1>1, <1>2, <1>3 DEF Answered, Answer
  <2>3. Cardinality(Answered(c) \cup {u}) = Cardinality(Answered(c)) + 1
    BY <2>1, CountedUsersAreFinite, FS_AddElement
  <2>4. ASSUME NEW d \in Codes PROVE counted'[d] = delivered'[d] + Cardinality(Answered(d)')
    <3>1. /\ counted[d] = delivered[d] + Cardinality(Answered(d))
          /\ delivered[d] \in Nat /\ Cardinality(Answered(d)) \in Nat
      BY CountedUsersAreFinite DEF CountedAsDelivered, Answered, TypeOK
    <3>2. CASE d = c
      <4>1. Cardinality(Answered(d)') = Cardinality(Answered(d)) + 1
        BY <3>2, <2>1, <2>3
      <4>2. counted'[d] = counted[d] + 1 /\ delivered'[d] = delivered[d]
        BY <3>2, <1>1, <1>5
      <4> QED BY ONLY <3>1, <4>1, <4>2
    <3>3. CASE d # c
      BY <3>1, <3>3, <2>2, <1>1, <1>5
    <3> QED BY <3>2, <3>3
  <2> QED BY <2>4, <1>1 DEF CountedAsDelivered, Answered
<1>11. ScrapeSees'
  <2>1. \A d \in Codes : counted[d] <= counted'[d] /\ counted[d] \in Nat /\ counted'[d] \in Nat
    BY <1>2, <1>5
  <2> SUFFICES ASSUME NEW v \in Users
               PROVE  /\ at'[v] = "out" => shown'[v] = Nothing
                      /\ at'[v] \in Scraping =>
                           \A d \in Codes : before'[v][d] > 0 =>
                             /\ series'[d] # 0 /\ before'[v][d] <= counted'[d]
                             /\ shown'[v][d] # -1 => shown'[v][d] >= before'[v][d]
                             /\ at'[v] = "rendered" => shown'[v][d] # -1
    BY DEF ScrapeSees
  <2>2. CASE v = u
    BY <2>2, <1>3 DEF Scraping
  <2>3. CASE v # u
    <3>1. \A d \in Codes : before[v][d] \in Nat
      BY DEF TypeOK
    <3> QED BY <2>1, <2>3, <3>1, <1>1, <1>3 DEF ScrapeSees
  <2> QED BY <2>2, <2>3
<1> QED BY <1>6, <1>7, <1>8, <1>9, <1>10, <1>11 DEF MetricsInv

\* A label is shown with the count it has then, which is no less than it was when the
\* scrape began.
LEMMA ShowLabelInv ==
  ASSUME Inv, NEW u \in Users, ShowLabel(u), HandlerStands
  PROVE  MetricsInv'
<1> USE DEF Inv
<1>1. PICK c \in Unshown(u) : shown' = [shown EXCEPT ![u][c] = cells[series[c]]]
  BY DEF ShowLabel
<1>2. /\ UNCHANGED <<series, cells, readers, blocked, pending, at, label, cell, counted>>
      /\ UNCHANGED <<pc, status, wrote, sent, timeouts, delivered, before>>
      /\ at[u] = "render"
  BY DEF ShowLabel, lockVars, HandlerStands, requestVars, answerVars, historyVars
<1>3. c \in Codes /\ series[c] # 0 /\ cells[series[c]] = counted[c] /\ counted[c] \in Nat
  BY DEF Unshown, NoCountLost, TypeOK, MetricsTypeOK
<1>4. /\ shown' \in [Users -> [Codes -> Int]] /\ shown'[u][c] = counted[c]
      /\ \A d \in Codes : d # c => shown'[u][d] = shown[u][d]
      /\ \A v \in Users : v # u => shown'[v] = shown[v]
  <2>1. shown \in [Users -> [Codes -> Int]] /\ counted[c] \in Int
    BY <1>3 DEF TypeOK, MetricsTypeOK
  <2>2. shown' = [shown EXCEPT ![u] = [shown[u] EXCEPT ![c] = counted[c]]]
    BY <1>1, <1>3
  <2> QED BY <2>1, <2>2, <1>3
<1>5. MetricsTypeOK'
  BY <1>2, <1>4 DEF TypeOK, MetricsTypeOK
<1>6. (CellsNumbered /\ OwnCells /\ Placed /\ CountsInPlace /\ LocksInUse /\ NoCountLost)'
  BY <1>2 DEF CellsNumbered, OwnCells, Placed, CountsInPlace, LocksInUse, NoCountLost
<1>7. CountedAsDelivered'
  BY <1>2 DEF CountedAsDelivered, Answer
<1>8. ScrapeSees'
  <2> SUFFICES ASSUME NEW v \in Users
               PROVE  /\ at[v] = "out" => shown'[v] = Nothing
                      /\ at[v] \in Scraping =>
                           \A d \in Codes : before[v][d] > 0 =>
                             /\ series[d] # 0 /\ before[v][d] <= counted[d]
                             /\ shown'[v][d] # -1 => shown'[v][d] >= before[v][d]
                             /\ at[v] = "rendered" => shown'[v][d] # -1
    BY <1>2 DEF ScrapeSees
  <2>1. CASE v = u
    <3>1. \A d \in Codes : before[u][d] \in Nat
      BY DEF TypeOK
    <3> QED BY <2>1, <3>1, <1>2, <1>3, <1>4 DEF ScrapeSees, Scraping
  <2>2. CASE v # u
    BY <2>2, <1>4 DEF ScrapeSees
  <2> QED BY <2>1, <2>2
<1> QED BY <1>5, <1>6, <1>7, <1>8 DEF MetricsInv

\* Render is over when every label that has a cell is shown.
LEMMA ShownInv ==
  ASSUME Inv, NEW u \in Users, Shown(u), HandlerStands
  PROVE  MetricsInv'
<1> USE DEF Inv
<1>1. /\ UNCHANGED <<series, cells, label, cell, shown, counted>>
      /\ UNCHANGED <<pc, status, wrote, sent, timeouts, delivered, before>>
      /\ at[u] = "render" /\ u \in readers /\ RUnlock(u)
      /\ at' = [at EXCEPT ![u] = "rendered"]
      /\ \A c \in Codes : series[c] # 0 => shown[u][c] # -1
  BY DEF Shown, Unshown, HandlerStands, requestVars, answerVars, historyVars
<1>2. at \in AtType /\ readers \subseteq Users /\ blocked \subseteq Users
  BY DEF TypeOK, MetricsTypeOK, AtType
<1>3. /\ LocksInUse' /\ pending' = pending
      /\ readers' \subseteq Users /\ blocked' \subseteq Users
  BY ONLY Inv, <1>1, <1>2, RUnlockKept DEF Inv
<1>4. /\ at'[u] = "rendered" /\ at' \in AtType
      /\ \A v \in Users : v # u => at'[v] = at[v]
  BY <1>1, <1>2 DEF AtType
<1>5. MetricsTypeOK'
  BY <1>1, <1>3, <1>4 DEF TypeOK, MetricsTypeOK, AtType
<1>6. (CellsNumbered /\ OwnCells /\ NoCountLost)'
  BY <1>1 DEF CellsNumbered, OwnCells, NoCountLost
<1>7. Placed' /\ CountsInPlace'
  BY <1>1, <1>4 DEF Placed, CountsInPlace, Counting, Scraping
<1>8. CountedAsDelivered'
  <2>1. \A d : Answered(d)' = Answered(d)
    BY <1>1, <1>4 DEF Answered, Answer
  <2> QED BY <2>1, <1>1 DEF CountedAsDelivered, Answered
<1>9. ScrapeSees'
  BY <1>1, <1>4 DEF ScrapeSees, Scraping
<1> QED BY <1>3, <1>5, <1>6, <1>7, <1>8, <1>9 DEF MetricsInv

\* A step of With, Inc or Render on behalf of a request.
LEMMA UseMetricsInv ==
  ASSUME Inv, NEW u \in Users, UseMetrics(u)
  PROVE  Inv'
<1>1. HandlerStands /\ MetricsStep(u)
  BY DEF UseMetrics, HandlerStands
<1>2. MetricsInv'
  BY <1>1, FindInv, LockInv, CreateInv, IncInv, ShowLabelInv, ShownInv DEF MetricsStep
<1>3. UNCHANGED <<main, term, signals, expired, pc, kind, status, wrote, sent, timeouts,
                  received, delivered, before>>
  BY <1>1 DEF HandlerStands, processVars, requestVars, answerVars, historyVars
<1>4. TypeOK'
  BY <1>2, <1>3 DEF Inv, MetricsInv, TypeOK
<1>5. (AnswersNoted /\ FinitelyMany /\ Draining)'
  BY <1>3 DEF Inv, AnswersNoted, Answer, FinitelyMany, Draining
<1> QED BY <1>2, <1>4, <1>5 DEF MetricsInv, Inv

\* The response is complete, under the status that was counted.
LEMMA DeliverInv ==
  ASSUME Inv, NEW u \in Users, Deliver(u)
  PROVE  Inv'
<1> USE DEF Inv
<1>1. PICK a : a = Answer(u)
  OBVIOUS
<1>2. /\ UNCHANGED <<series, cells, readers, blocked, pending, counted>>
      /\ UNCHANGED <<main, term, signals, expired, timeouts, received>>
      /\ pc[u] = "count" /\ at[u] = "counted"
      /\ at' = [at EXCEPT ![u] = "out"] /\ label' = [label EXCEPT ![u] = 0]
      /\ cell' = [cell EXCEPT ![u] = 0] /\ shown' = [shown EXCEPT ![u] = Nothing]
      /\ delivered' = [delivered EXCEPT ![a] = @ + 1]
      /\ pc' = [pc EXCEPT ![u] = "idle"] /\ kind' = [kind EXCEPT ![u] = "none"]
      /\ status' = [status EXCEPT ![u] = 200] /\ wrote' = [wrote EXCEPT ![u] = FALSE]
      /\ sent' = [sent EXCEPT ![u] = 0]
      /\ before' = [before EXCEPT ![u] = [c \in Codes |-> 0]]
  BY <1>1 DEF Deliver, Done, Leave, lockVars, processVars
<1>3. a \in Statuses /\ a \in Codes /\ 200 \in Statuses
  BY <1>1, StatusesAreLabels DEF AnswersNoted, Statuses
<1>4. /\ at'[u] = "out" /\ label'[u] = 0 /\ pc'[u] = "idle" /\ shown'[u] = Nothing
      /\ status'[u] = 200 /\ wrote'[u] = FALSE /\ sent'[u] = 0 /\ before'[u] = [c \in Codes |-> 0]
  BY <1>2 DEF TypeOK, MetricsTypeOK
<1>5. \A v \in Users : v # u =>
        /\ at'[v] = at[v] /\ label'[v] = label[v] /\ cell'[v] = cell[v] /\ pc'[v] = pc[v]
        /\ shown'[v] = shown[v] /\ status'[v] = status[v] /\ wrote'[v] = wrote[v]
        /\ sent'[v] = sent[v] /\ before'[v] = before[v]
  BY <1>2 DEF TypeOK, MetricsTypeOK
<1>6. /\ delivered' \in [Codes -> Nat] /\ delivered'[a] = delivered[a] + 1
      /\ \A c \in Codes : c # a => delivered'[c] = delivered[c]
      /\ delivered \in [Codes -> Nat]
  BY <1>2, <1>3 DEF TypeOK
<1>7. TypeOK'
  <2>1. MetricsTypeOK'
    <3>1. shown' \in [Users -> [Codes -> Int]]
      <4>1. Nothing \in [Codes -> Int]
        BY DEF Nothing
      <4> QED BY <4>1, <1>2 DEF TypeOK, MetricsTypeOK
    <3>2. label' \in [Users -> Codes \cup {0}] /\ cell' \in [Users -> DOMAIN cells \cup {0}]
      BY <1>2 DEF TypeOK, MetricsTypeOK
    <3>3. at' \in AtType
      BY <1>2 DEF TypeOK, MetricsTypeOK, AtType
    <3> QED BY <3>1, <3>2, <3>3, <1>2 DEF TypeOK, MetricsTypeOK, AtType
  <2>2. /\ pc' \in [Users -> {"idle", "route", "store", "scrape", "return", "recovered", "count"}]
        /\ kind' \in [Users -> Kinds \cup {"none"}] /\ wrote' \in [Users -> BOOLEAN]
    BY <1>2 DEF TypeOK
  <2>3. status' \in [Users -> Codes] /\ sent' \in [Users -> Codes \cup {0}]
    BY <1>2, StatusesAreLabels DEF TypeOK
  <2>4. before' \in [Users -> [Codes -> Nat]]
    BY <1>2 DEF TypeOK
  <2> QED BY <2>1, <2>2, <2>3, <2>4, <1>2, <1>6 DEF TypeOK
<1>8. (CellsNumbered /\ OwnCells /\ NoCountLost)'
  BY <1>2 DEF CellsNumbered, OwnCells, NoCountLost
<1>9. (Placed /\ CountsInPlace /\ LocksInUse)'
  BY <1>2, <1>4, <1>5 DEF Placed, CountsInPlace, LocksInUse, Counting
<1>10. AnswersNoted'
  BY <1>3, <1>4, <1>5 DEF AnswersNoted, Answer
<1>11. FinitelyMany'
  <2>1. {v \in Users : pc'[v] # "idle"} = {v \in Users : pc[v] # "idle"} \ {u}
    BY <1>4, <1>5
  <2> QED BY <2>1, FS_RemoveElement DEF FinitelyMany
<1>12. Draining'
  BY <1>2, <1>4, <1>5 DEF Draining
<1>13. (\A c \in Codes :
         counted[c] = delivered[c] + Cardinality({v \in Users : at[v] = "counted" /\ Answer(v) = c}))'
  <2>1. /\ Answered(a)' = Answered(a) \ {u} /\ u \in Answered(a)
        /\ \A c : c # a => Answered(c)' = Answered(c)
    BY <1>1, <1>2, <1>4, <1>5 DEF Answered, Answer
  <2>2. Cardinality(Answered(a) \ {u}) = Cardinality(Answered(a)) - 1
    BY <2>1, CountedUsersAreFinite, FS_RemoveElement
  <2>3. ASSUME NEW c \in Codes PROVE counted'[c] = delivered'[c] + Cardinality(Answered(c)')
    <3>1. /\ counted[c] = delivered[c] + Cardinality(Answered(c))
          /\ delivered[c] \in Nat /\ Cardinality(Answered(c)) \in Nat
      BY CountedUsersAreFinite DEF CountedAsDelivered, Answered, TypeOK
    <3>2. CASE c = a
      <4>1. Cardinality(Answered(c)') = Cardinality(Answered(c)) - 1
        BY <3>2, <2>1, <2>2
      <4>2. counted'[c] = counted[c] /\ delivered'[c] = delivered[c] + 1
        BY <3>2, <1>2, <1>6
      <4> QED BY ONLY <3>1, <4>1, <4>2
    <3>3. CASE c # a
      BY <3>1, <3>3, <2>1, <1>2, <1>6
    <3> QED BY <3>2, <3>3
  <2> QED BY <2>3 DEF Answered
<1>14. (timeouts <= delivered[503] + Cardinality({v \in Users : sent[v] = 503}))'
  <2>1. /\ timeouts <= delivered[503] + Cardinality(Refused)
        /\ timeouts \in Nat /\ delivered[503] \in Nat /\ Cardinality(Refused) \in Nat
        /\ IsFiniteSet(Refused)
    BY CountedUsersAreFinite, StatusesAreLabels DEF CountedAsDelivered, Refused, TypeOK
  <2>2. CASE sent[u] = 503
    <3>1. a = 503
      BY <2>2, <1>1 DEF Answer
    <3>2. Refused' = Refused \ {u} /\ u \in Refused
      BY <2>2, <1>4, <1>5 DEF Refused
    <3>3. Cardinality(Refused') = Cardinality(Refused) - 1
      BY <2>1, <3>2, FS_RemoveElement
    <3>4. delivered'[503] = delivered[503] + 1 /\ timeouts' = timeouts
      BY <3>1, <1>2, <1>6
    <3>5. timeouts' <= delivered'[503] + Cardinality(Refused')
      BY ONLY <2>1, <3>3, <3>4
    <3> QED BY <3>5 DEF Refused
  <2>3. CASE sent[u] # 503
    <3>1. Refused' = Refused
      BY <2>3, <1>4, <1>5 DEF Refused
    <3>2. delivered'[503] \in Nat /\ delivered[503] <= delivered'[503] /\ timeouts' = timeouts
      BY <1>2, <1>6, StatusesAreLabels
    <3>3. timeouts' <= delivered'[503] + Cardinality(Refused')
      BY ONLY <2>1, <3>1, <3>2
    <3> QED BY <3>3 DEF Refused
  <2> QED BY <2>2, <2>3
<1>15. ScrapeSees'
  BY <1>2, <1>4, <1>5 DEF ScrapeSees, Scraping
<1>16. CountedAsDelivered'
  BY <1>13, <1>14 DEF CountedAsDelivered
<1> QED BY <1>7, <1>8, <1>9, <1>10, <1>11, <1>12, <1>15, <1>16

-----------------------------------------------------------------------------
\* Every step of the process keeps the invariant.
LEMMA StepInv == Inv /\ [Next]_vars => Inv'
<1> SUFFICES ASSUME Inv, [Next]_vars PROVE Inv'
  OBVIOUS
<1>1. ASSUME NEW u \in Users, Receive(u) \/ Handle(u) \/ StoreReturns(u) \/ Panic(u)
      PROVE  Inv'
  <2>1. CASE Receive(u) \/ CallStore(u)
    BY <2>1, BeginInv
  <2>2. CASE AnswerAlone(u) \/ StoreReturns(u) \/ Panic(u)
    BY <2>2, AnswerInv DEF StoreReturns
  <2>3. CASE ScrapeStarts(u) \/ ScrapeEnds(u) \/ CountStatus(u) \/ UseMetrics(u) \/ Deliver(u)
    BY <2>3, ScrapeStartsInv, ScrapeEndsInv, CountStatusInv, UseMetricsInv, DeliverInv
  <2> QED BY <1>1, <2>1, <2>2, <2>3 DEF Handle
<1>2. CASE Main \/ ListenFails \/ Sigterm \/ Gone
  BY <1>2, ProcessInv
<1>3. CASE UNCHANGED vars
  <2> USE <1>3 DEF Inv, vars, processVars, handlerVars, metricsVars, lockVars, requestVars,
                   answerVars, historyVars
  <2>1. TypeOK'
    BY DEF TypeOK, MetricsTypeOK
  <2>2. (CellsNumbered /\ OwnCells /\ Placed /\ CountsInPlace /\ FinitelyMany /\ LocksInUse)'
    BY DEF CellsNumbered, OwnCells, Placed, CountsInPlace, FinitelyMany, LocksInUse
  <2>3. (AnswersNoted /\ NoCountLost /\ CountedAsDelivered /\ ScrapeSees /\ Draining)'
    BY DEF AnswersNoted, Answer, NoCountLost, CountedAsDelivered, ScrapeSees, Draining
  <2> QED BY <2>1, <2>2, <2>3
<1> QED BY <1>1, <1>2, <1>3 DEF Next

\* The invariant holds in every behaviour of the process.
LEMMA Invariance == Spec => []Inv
<1>1. Init => Inv
  BY InitInv
<1>2. Inv /\ [Next]_vars => Inv'
  BY StepInv
<1> QED BY <1>1, <1>2, PTL DEF Spec

\* The process, its requests and its counters keep their types (Handler, statusWriter,
\* CounterVec, main).
THEOREM TypeCorrect == Spec => []TypeOK
<1>1. Inv => TypeOK
  BY DEF Inv
<1> QED BY <1>1, Invariance, PTL

\* What the family shows of a label is how often it was counted, however many users
\* raced to create its cell (CounterVec.With, Counter.Inc).
THEOREM CountsAreKept == Spec => []NoCountLost
<1>1. Inv => NoCountLost
  BY DEF Inv
<1> QED BY <1>1, Invariance, PTL

\* Every complete response is counted once, under the status the client got, panics
\* included, and every deadline that is counted is a 503 (ServeHTTP, readStatus).
THEOREM CountsMatchAnswers == Spec => []CountedAsDelivered
<1>1. Inv => CountedAsDelivered
  BY DEF Inv
<1> QED BY <1>1, Invariance, PTL

\* A scrape shows what was complete before it began (Render, ServeHTTP's deferred
\* count).
THEOREM ScrapesAreCurrent == Spec => []ScrapeShowsDelivered
<1>1. Inv => ScrapeShowsDelivered
  <2> SUFFICES ASSUME Inv, NEW u \in Users, at[u] = "rendered",
                      NEW c \in Codes, before[u][c] > 0
               PROVE  shown[u][c] >= before[u][c]
    BY DEF ScrapeShowsDelivered
  <2> QED BY DEF Inv, ScrapeSees, Scraping
<1> QED BY <1>1, Invariance, PTL

\* main closes the store only when every request has been answered or the drain window
\* is over (the shutdown in main).
THEOREM StoreOutlivesRequests == Spec => []DrainAnswers
<1>1. Inv => DrainAnswers
  BY DEF Inv, Draining, DrainAnswers
<1> QED BY <1>1, Invariance, PTL

\* No lock of the family leaks: a request that is not in With or Render holds none, and
\* one that waits to read waits for a writer that is in With (With, Render).
THEOREM LocksAreReleased == Spec => []LocksInUse
<1>1. Inv => LocksInUse
  BY DEF Inv
<1> QED BY <1>1, Invariance, PTL

-----------------------------------------------------------------------------
(* What the prover can say of HandledIsDelivered and SigtermEnds: that nobody  *)
(* is stuck, and that every step of main is one of few.                        *)

\* u is inside With or Render, and the lock does not hold it up.
MayStep(u) ==
  \/ at[u] \in {"find", "render"} /\ u \in readers
  \/ at[u] = "lock" /\ pending = nobody
  \/ at[u] = "create" /\ readers = {}
  \/ at[u] = "inc"

\* The lock never holds up everybody who is inside of With or Render.
SomebodyMoves ==
  (\E u \in Users : at[u] \in {"find", "lock", "create", "inc", "render"})
    => \E u \in Users : MayStep(u)

\* The family does not deadlock, however many users look up, create and scrape at once: who
\* waits to read waits for a writer, who waits to write for readers, and these can go on
\* (With, Render).
THEOREM NobodyIsStuck == Spec => []SomebodyMoves
<1>1. Inv => SomebodyMoves
  <2> SUFFICES ASSUME Inv, NEW u \in Users, at[u] \in {"find", "lock", "create", "inc", "render"}
               PROVE  \E v \in Users : MayStep(v)
    BY DEF SomebodyMoves
  <2> USE DEF Inv, LocksInUse
  <2>1. readers \subseteq Users /\ pending \in Users \cup {nobody}
    BY DEF TypeOK, MetricsTypeOK
  <2>2. CASE readers # {}
    <3>1. PICK v \in Users : v \in readers
      BY <2>1, <2>2
    <3> QED BY <3>1 DEF MayStep
  <2>3. CASE readers = {} /\ pending # nobody
    <3>1. pending \in Users /\ at[pending] = "create"
      BY <2>1, <2>3
    <3> QED BY <2>3, <3>1 DEF MayStep
  <2>4. CASE readers = {} /\ pending = nobody
    <3>1. blocked = {}
      BY <2>4
    <3>2. at[u] \in {"lock", "inc"}
      BY <2>4, <3>1, NobodyAssumption
    <3> QED BY <2>4, <3>2 DEF MayStep
  <2> QED BY <2>2, <2>3, <2>4
<1> QED BY <1>1, Invariance, PTL

\* What main, its signal goroutine and the drain window still have before them.
MainLeft ==
  CASE main = "start" -> 4 [] main = "serve" -> 3 [] main = "wait" -> 2 [] main = "close" -> 1
    [] OTHER -> 0
TermLeft ==
  CASE term = "start" -> 3 [] term = "notified" -> 2 [] term = "drain" -> 1 [] OTHER -> 0
WindowLeft == IF expired THEN 0 ELSE 1
StepsLeft == MainLeft + TermLeft + WindowLeft

\* A step that main, its signal goroutine or the drain window can take.
MainMayStep ==
  \/ main = "start"
  \/ main = "serve" /\ term \in {"drain", "done"}
  \/ IdleClosed \/ main = "close"
  \/ term = "start"
  \/ term = "notified" /\ signals > 0
  \/ term = "drain" /\ (~expired \/ Drained)

\* After SIGTERM the process always has a step to take towards its end.
ShutdownMoves == Alive /\ signals > 0 => MainMayStep

\* No step leads away from the end, and those of main lead towards it.
ComesCloser == StepsLeft' <= StepsLeft /\ (Main => StepsLeft' < StepsLeft)
ShutdownComesCloser == [][ComesCloser]_vars

\* The steps that are left are counted by numbers.
LEMMA StepsLeftType ==
  /\ MainLeft \in 0..4 /\ TermLeft \in 0..3 /\ WindowLeft \in 0..1
  /\ MainLeft' \in 0..4 /\ TermLeft' \in 0..3 /\ WindowLeft' \in 0..1
  /\ StepsLeft \in Nat /\ StepsLeft' \in Nat
<1>1. /\ MainLeft \in 0..4 /\ TermLeft \in 0..3 /\ WindowLeft \in 0..1
      /\ MainLeft' \in 0..4 /\ TermLeft' \in 0..3 /\ WindowLeft' \in 0..1
  BY DEF MainLeft, TermLeft, WindowLeft
<1>2. ASSUME NEW m \in 0..4, NEW t \in 0..3, NEW w \in 0..1
      PROVE  m + t + w \in Nat
  OBVIOUS
<1>3. StepsLeft \in Nat /\ StepsLeft' \in Nat
  BY ONLY <1>1, <1>2 DEF StepsLeft
<1> QED BY <1>1, <1>3

\* One of the three has made a step.
LEMMA OneCloser ==
  ASSUME MainLeft' <= MainLeft, TermLeft' <= TermLeft, WindowLeft' <= WindowLeft
  PROVE  /\ StepsLeft' <= StepsLeft
         /\ MainLeft' < MainLeft \/ TermLeft' < TermLeft \/ WindowLeft' < WindowLeft
              => StepsLeft' < StepsLeft
<1>1. PICK m, t, w, n, u, x :
        /\ m = MainLeft /\ t = TermLeft /\ w = WindowLeft
        /\ n = MainLeft' /\ u = TermLeft' /\ x = WindowLeft'
  OBVIOUS
<1>2. m \in Nat /\ t \in Nat /\ w \in Nat /\ n \in Nat /\ u \in Nat /\ x \in Nat
  BY <1>1, StepsLeftType
<1>3. n <= m /\ u <= t /\ x <= w
  BY <1>1
<1>4. n + u + x <= m + t + w /\ (n < m \/ u < t \/ x < w => n + u + x < m + t + w)
  BY ONLY <1>2, <1>3
<1>5. StepsLeft = m + t + w /\ StepsLeft' = n + u + x
  BY <1>1 DEF StepsLeft
<1> QED BY <1>1, <1>4, <1>5

\* main, its signal goroutine and the drain window.
LEMMA MainComesCloser ==
  ASSUME Main
  PROVE  StepsLeft' < StepsLeft
<1>1. CASE Serve \/ ServeReturns \/ CloseStore \/ Exit
  <2>1. TermLeft' = TermLeft /\ WindowLeft' = WindowLeft
    BY <1>1 DEF Serve, ServeReturns, CloseStore, Exit, TermLeft, WindowLeft
  <2>2. MainLeft' < MainLeft
    BY <1>1 DEF Serve, ServeReturns, CloseStore, Exit, IdleClosed, MainLeft
  <2> QED BY <2>1, <2>2, StepsLeftType, OneCloser
<1>2. CASE Notify \/ ShutdownStarts \/ ShutdownEnds
  <2>1. MainLeft' = MainLeft /\ WindowLeft' = WindowLeft
    BY <1>2 DEF Notify, ShutdownStarts, ShutdownEnds, MainLeft, WindowLeft
  <2>2. TermLeft' < TermLeft
    BY <1>2 DEF Notify, ShutdownStarts, ShutdownEnds, TermLeft
  <2> QED BY <2>1, <2>2, StepsLeftType, OneCloser
<1>3. CASE WindowEnds
  <2>1. MainLeft' = MainLeft /\ TermLeft' = TermLeft
    BY <1>3 DEF WindowEnds, MainLeft, TermLeft
  <2>2. WindowLeft' < WindowLeft
    BY <1>3 DEF WindowEnds, WindowLeft
  <2> QED BY <2>1, <2>2, StepsLeftType, OneCloser
<1> QED BY <1>1, <1>2, <1>3 DEF Main

\* Every step of the process, its requests and its surroundings.
LEMMA StepComesCloser ==
  ASSUME [Next]_vars
  PROVE  ComesCloser
<1>1. CASE Main
  BY <1>1, MainComesCloser, StepsLeftType DEF ComesCloser
<1>2. CASE ~Main /\ (ListenFails \/ Sigterm \/ UNCHANGED processVars)
  <2>1. TermLeft' = TermLeft /\ WindowLeft' = WindowLeft
    BY <1>2 DEF ListenFails, Sigterm, processVars, TermLeft, WindowLeft
  <2>2. MainLeft' <= MainLeft
    <3>1. main' = main \/ main' = "killed"
      BY <1>2 DEF ListenFails, Sigterm, processVars
    <3>2. main' = main => MainLeft' = MainLeft
      BY DEF MainLeft
    <3>3. main' = "killed" => MainLeft' = 0
      BY DEF MainLeft
    <3> QED BY <3>1, <3>2, <3>3, StepsLeftType
  <2>3. StepsLeft' <= StepsLeft
    BY <2>1, <2>2, StepsLeftType, OneCloser
  <2> QED BY <1>2, <2>3 DEF ComesCloser
<1>3. ASSUME NEW u \in Users, Receive(u) \/ Handle(u) \/ StoreReturns(u) \/ Panic(u)
      PROVE  UNCHANGED processVars
  BY <1>3 DEF Receive, Handle, StoreReturns, Panic, AnswerAlone, CallStore, ScrapeStarts,
              ScrapeEnds, CountStatus, UseMetrics, Deliver, StoreSucceeds, StoreFails
<1>4. Gone \/ UNCHANGED vars => UNCHANGED processVars
  BY DEF Gone, vars
<1> QED BY <1>1, <1>2, <1>3, <1>4 DEF Next

\* SigtermEnds but for its fairness: after SIGTERM, until the process is gone, there is a
\* step of main, its signal goroutine or the drain window; there are never more of these
\* ahead than before, and each takes one off, whatever requests and the store do.
THEOREM ShutdownGetsOn == Spec => []ShutdownMoves /\ ShutdownComesCloser
<1>1. Inv => ShutdownMoves
  BY DEF Inv, TypeOK, ShutdownMoves, MainMayStep, Alive, IdleClosed, Drained
<1>2. [Next]_vars => [ComesCloser]_vars
  BY StepComesCloser
<1>3. Spec => []Inv
  BY Invariance
<1> QED BY <1>1, <1>2, <1>3, PTL DEF Spec, ShutdownComesCloser
=============================================================================
