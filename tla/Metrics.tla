------------------------------- MODULE Metrics -------------------------------
(***************************************************************************)
(* The labeled counter family of internal/metrics/metrics.go: With, which  *)
(* finds or creates the cell of a label under a read-write lock, Inc, and  *)
(* the part of Render that prints the family to a scraping client.         *)
(*                                                                         *)
(* Labels are status codes.  A cell has an identity, so that a cell no     *)
(* label leads to any more is still there, with whatever it counted.  The  *)
(* lock of the registry is left out: only startup takes it for writing.    *)
(*                                                                         *)
(* sync.RWMutex: one writer at a time announces itself; from then on new   *)
(* readers block, and when it unlocks all of them are let in.              *)
(***************************************************************************)
EXTENDS Integers, FiniteSets

CONSTANTS
  Users,   \* goroutines that count or scrape
  Cached,  \* labels resolved once, at startup (handler.go, statusCodes)
  Others,  \* labels that are not
  nobody   \* not a user

ASSUME CodesAssumption == Cached \subseteq Nat /\ Others \subseteq Nat /\ Cached \cap Others = {}
ASSUME NobodyAssumption == nobody \notin Users

Codes == Cached \cup Others

VARIABLES
  series,   \* series[c]: the cell of label c, 0 if it has none
  cells,    \* cells[n]: the value of the n-th cell
  readers,  \* users that hold the read lock
  blocked,  \* users that wait for the read lock behind a writer
  pending,  \* the user that waits for the write lock or holds it
  at,       \* at[u]: where u is in With or Render
  label,    \* label[u]: the label u counts under
  cell,     \* cell[u]: the cell With returned to u
  shown,    \* shown[u]: what the scrape of u has shown so far, -1 for nothing
  counted   \* history: increments by label

lockVars == <<readers, blocked, pending>>
metricsVars == <<series, cells, lockVars, at, label, cell, shown, counted>>

Nothing == [c \in Codes |-> -1]

\* New resolves the cached labels; nothing has been counted.
MetricsInit ==
  /\ \E f \in [Cached -> 1..Cardinality(Cached)] :
       /\ \A c, d \in Cached : c < d => f[c] < f[d]
       /\ series = [c \in Codes |-> IF c \in Cached THEN f[c] ELSE 0]
  /\ cells = [n \in 1..Cardinality(Cached) |-> 0]
  /\ readers = {} /\ blocked = {} /\ pending = nobody
  /\ at = [u \in Users |-> "out"]
  /\ label = [u \in Users |-> 0]
  /\ cell = [u \in Users |-> 0]
  /\ shown = [u \in Users |-> Nothing]
  /\ counted = [c \in Codes |-> 0]

-----------------------------------------------------------------------------
\* RLock: at once, or behind the writer that has announced itself.
RLock(u) ==
  IF pending = nobody THEN readers' = readers \cup {u} /\ UNCHANGED <<blocked, pending>>
                      ELSE blocked' = blocked \cup {u} /\ UNCHANGED <<readers, pending>>

\* Mutant: the read lock is kept until With returns, as by a deferred unlock.
RUnlockDeferred(u) == UNCHANGED lockVars
RUnlock(u) == readers' = readers \ {u} /\ UNCHANGED <<blocked, pending>>

\* Unlock lets the blocked readers in.
Unlock == pending' = nobody /\ readers' = blocked /\ blocked' = {}

\* countStatus: a cached label has its cell, any other goes through With.
Count(u, c) ==
  /\ label' = [label EXCEPT ![u] = c]
  /\ \/ /\ c \in Cached
        /\ at' = [at EXCEPT ![u] = "inc"]
        /\ cell' = [cell EXCEPT ![u] = series[c]]
        /\ UNCHANGED lockVars
     \/ /\ c \notin Cached
        /\ at' = [at EXCEPT ![u] = "find"]
        /\ RLock(u)
        /\ UNCHANGED cell
  /\ UNCHANGED <<series, cells, shown, counted>>

\* With, under the read lock: the cell, if the label has one.
Find(u) ==
  /\ at[u] = "find" /\ u \in readers
  /\ at' = [at EXCEPT ![u] = IF series[label[u]] # 0 THEN "inc" ELSE "lock"]
  /\ cell' = [cell EXCEPT ![u] = series[label[u]]]
  /\ RUnlock(u)
  /\ UNCHANGED <<series, cells, label, shown, counted>>

\* Lock: u announces itself and waits for the readers to leave.
Lock(u) ==
  /\ at[u] = "lock" /\ pending = nobody
  /\ at' = [at EXCEPT ![u] = "create"]
  /\ pending' = u
  /\ UNCHANGED <<series, cells, readers, blocked, label, cell, shown, counted>>

\* With, under the write lock: a cell is made unless somebody has made one since.
\* Mutant: that is not looked at again.
AlwaysMissing(u) == TRUE
Missing(u) == series[label[u]] = 0

Create(u) ==
  /\ at[u] = "create" /\ readers = {}
  /\ at' = [at EXCEPT ![u] = "inc"]
  /\ \/ /\ Missing(u)
        /\ cells' = [n \in 1..Cardinality(DOMAIN cells) + 1 |->
                       IF n \in DOMAIN cells THEN cells[n] ELSE 0]
        /\ series' = [series EXCEPT ![label[u]] = Cardinality(DOMAIN cells) + 1]
     \/ ~Missing(u) /\ UNCHANGED <<series, cells>>
  /\ cell' = [cell EXCEPT ![u] = series'[label[u]]]
  /\ Unlock
  /\ UNCHANGED <<label, shown, counted>>

Inc(u) ==
  /\ at[u] = "inc"
  /\ at' = [at EXCEPT ![u] = "counted"]
  /\ cells' = [cells EXCEPT ![cell[u]] = @ + 1]
  /\ counted' = [counted EXCEPT ![label[u]] = @ + 1]
  /\ UNCHANGED <<series, lockVars, label, cell, shown>>

\* Render takes the read lock and keeps it while it writes to its client.
Scrape(u) ==
  /\ at' = [at EXCEPT ![u] = "render"]
  /\ RLock(u)
  /\ UNCHANGED <<series, cells, label, cell, shown, counted>>

Unshown(u) == {c \in Codes : series[c] # 0 /\ shown[u][c] = -1}

\* Labels are printed in order, each with the value its cell has then.
ShowLabel(u) ==
  /\ at[u] = "render" /\ u \in readers
  /\ \E c \in Unshown(u) :
       /\ \A d \in Unshown(u) : c <= d
       /\ shown' = [shown EXCEPT ![u][c] = cells[series[c]]]
  /\ UNCHANGED <<series, cells, lockVars, at, label, cell, counted>>

Shown(u) ==
  /\ at[u] = "render" /\ u \in readers /\ Unshown(u) = {}
  /\ at' = [at EXCEPT ![u] = "rendered"]
  /\ RUnlock(u)
  /\ UNCHANGED <<series, cells, label, cell, shown, counted>>

MetricsStep(u) ==
  Find(u) \/ Lock(u) \/ Create(u) \/ Inc(u) \/ ShowLabel(u) \/ Shown(u)

\* The request of u is over.
Leave(u) ==
  /\ at' = [at EXCEPT ![u] = "out"]
  /\ label' = [label EXCEPT ![u] = 0]
  /\ cell' = [cell EXCEPT ![u] = 0]
  /\ shown' = [shown EXCEPT ![u] = Nothing]
  /\ UNCHANGED <<series, cells, lockVars, counted>>

-----------------------------------------------------------------------------
MetricsTypeOK ==
  /\ series \in [Codes -> DOMAIN cells \cup {0}]
  /\ \A n \in DOMAIN cells : cells[n] \in Nat
  /\ readers \subseteq Users /\ blocked \subseteq Users /\ pending \in Users \cup {nobody}
  /\ at \in [Users -> {"out", "find", "lock", "create", "inc", "counted", "render", "rendered"}]
  /\ label \in [Users -> Codes \cup {0}]
  /\ cell \in [Users -> DOMAIN cells \cup {0}]
  /\ shown \in [Users -> [Codes -> Int]]
  /\ counted \in [Codes -> Nat]

\* No count is lost: what a scrape would print of a label is the number of times it
\* was counted, whoever created its cell while whoever else was looking for it.
NoCountLost ==
  \A c \in Codes : counted[c] = IF series[c] = 0 THEN 0 ELSE cells[series[c]]
=============================================================================
